-------------------------- MODULE RoundBarrierProofs --------------------------
(***************************************************************************)
(* Proofs that the rounds keep together: one sheet per player and round,   *)
(* no round that ends early, references from the right neighbour, and that *)
(* the database implements RoundBarrier.                                   *)
(*                                                                         *)
(* They follow from RoundsInv, which traces a round number on its way from *)
(* the host, through its outstanding writes and the database, to the       *)
(* controllers: HostWrites (what the database will go through when the     *)
(* host's writes arrive), RoundsAscend (what the controllers will go       *)
(* through), HostCount and HostLeads (when the host decides that a round   *)
(* is over) and FiledOnce (what the devices have filed by then).           *)
(***************************************************************************)
EXTENDS SheetFilingProofs, RoundEventProofs

-----------------------------------------------------------------------------
(* The host's writes, in the order they reach the database.                *)

(* A write of a queue: a round number or a sheet.                          *)
RoundAt(q, i) == q[i].type = "roundNum"
SheetAt(q, i) == q[i].type = "sheet"
(* The database D has a sheet of player p for round r; one is queued in q  *)
(* before i; the database is in round v, or will be when the writes before *)
(* i have been applied; the sheets of round r will be there when write i   *)
(* is applied.                                                             *)
Filed(D, p, r) == \E s \in D : s.author = p /\ s.number = r
SheetBefore(q, i, r) == \E j \in 1..(i - 1) : SheetAt(q, j) /\ q[j].value.number = r
Reached(q, i, db, v) == v <= db \/ \E j \in 1..(i - 1) : RoundAt(q, j) /\ q[j].value >= v
RoundDone(q, i, D, r) ==
    /\ \A p \in Players \ {Host} : Filed(D, p, r)
    /\ Filed(D, Host, r) \/ SheetBefore(q, i, r)

(* The round numbers in the host's queue q, of which n are delivered, for  *)
(* the round db of the database and the round top the host is bound for.   *)
(* They go up; the delivered ones do not exceed db, the others are not     *)
(* below it; and as long as the connection may be lost (rew), there is at  *)
(* most one, which the database has not passed.                            *)
Numbers(q, n, db, top, rew) ==
    /\ \A i \in 1..Len(q) : RoundAt(q, i) =>
         /\ q[i].value - 1 \in Rounds /\ q[i].value <= top
         /\ i <= n => q[i].value <= db
         /\ i > n => q[i].value >= db
         /\ rew => q[i].value >= db /\ (i > n => q[i].value > db)
    /\ \A i \in 1..Len(q) : \A j \in 1..(i - 1) : RoundAt(q, i) /\ RoundAt(q, j) => q[j].value < q[i].value
    /\ top = db \/ (db < top /\ \E i \in 1..Len(q) : RoundAt(q, i) /\ q[i].value = top)
    /\ rew => \A i, j \in 1..Len(q) : RoundAt(q, i) /\ RoundAt(q, j) => i = j

(* A queued round number comes after the one before it and after the       *)
(* sheets of the rounds it ends; a queued sheet comes after the number of  *)
(* its round.                                                              *)
InOrder(q, db, D) ==
    \A i \in 1..Len(q) :
      /\ RoundAt(q, i) => /\ Reached(q, i, db, q[i].value - 1)
                          /\ \A r \in Rounds : r < q[i].value => RoundDone(q, i, D, r)
      /\ SheetAt(q, i) => Reached(q, i, db, q[i].value.number)

(* The database: no sheet of a later round, every sheet of an earlier one. *)
Database(db, D) ==
    /\ \A s \in D : s.number <= db
    /\ \A r \in Rounds : r < db => \A p \in Players : Filed(D, p, r)

(* A queued write is a round number or a sheet.                            *)
LEMMA PutIs ==
    ASSUME NEW q \in Seq(Put)
    PROVE  /\ Len(q) \in Nat
           /\ \A i \in 1..Len(q) :
                /\ RoundAt(q, i) \/ SheetAt(q, i)
                /\ ~ (RoundAt(q, i) /\ SheetAt(q, i))
                /\ RoundAt(q, i) => q[i].value \in Nat
                /\ SheetAt(q, i) => /\ q[i].value \in Sheet /\ q[i].value.number \in Nat
                                    /\ q[i].value.author \in Players
<1>1. Len(q) \in Nat /\ \A i \in 1..Len(q) : q[i] \in Put
  OBVIOUS
<1> QED
  BY <1>1 DEF Put, Sheet, RoundAt, SheetAt

(* The writes of a queue that has got one more, ...                        *)
LEMMA PutAppended ==
    ASSUME NEW q \in Seq(Put), NEW m
    PROVE  LET t == Append(q, m) IN
           /\ Len(q) \in Nat /\ Len(t) = Len(q) + 1 /\ t[Len(q) + 1] = m
           /\ \A i \in 1..Len(q) : t[i] = q[i]
           /\ \A i \in 1..Len(t) : i \in 1..Len(q) \/ i = Len(q) + 1
           /\ \A i \in 1..Len(q) : i \in 1..Len(t)
           /\ \A i \in 1..Len(t) : \A j \in 1..(i - 1) : j \in 1..Len(q) /\ t[j] = q[j]
           /\ \A i \in 1..Len(q) : \A j \in 1..(i - 1) : j \in 1..Len(q)
  OBVIOUS

(* ... and of one whose oldest write has been acknowledged.                *)
LEMMA PutDropped ==
    ASSUME NEW q \in Seq(Put), q # <<>>
    PROVE  LET t == Tail(q) IN
           /\ Len(q) \in Nat /\ Len(t) = Len(q) - 1 /\ 1 \in 1..Len(q)
           /\ \A i \in 1..Len(t) : t[i] = q[i + 1] /\ i + 1 \in 1..Len(q)
           /\ \A i \in 1..Len(q) : i = 1 \/ (i - 1 \in 1..Len(t) /\ t[i - 1] = q[i])
  OBVIOUS

(* What lies before a write stays before it when another one is queued.    *)
LEMMA ReachedAppend ==
    ASSUME NEW q \in Seq(Put), NEW m, NEW i \in 1..Len(q), NEW db \in Nat, NEW v
    PROVE  Reached(q, i, db, v) => Reached(Append(q, m), i, db, v)
<1> DEFINE t == Append(q, m)
<1>1. \A j \in 1..(i - 1) : t[j] = q[j]
  BY PutAppended
<1> HIDE DEF t
<1> QED
  BY <1>1 DEF Reached, RoundAt

(* The same for the sheets of a round.                                     *)
LEMMA RoundDoneAppend ==
    ASSUME NEW q \in Seq(Put), NEW m, NEW i \in 1..Len(q), NEW D, NEW r
    PROVE  RoundDone(q, i, D, r) => RoundDone(Append(q, m), i, D, r)
<1> DEFINE t == Append(q, m)
<1>1. \A j \in 1..(i - 1) : t[j] = q[j]
  BY PutAppended
<1> HIDE DEF t
<1> QED
  BY <1>1 DEF RoundDone, SheetBefore, SheetAt

(* A sheet of a round the host has reached is queued.                      *)
LEMMA QueueOfSheet ==
    ASSUME NEW q \in Seq(Put), NEW n \in 0..Len(q), NEW db \in Nat, NEW D, NEW top \in Nat, NEW rew,
           Numbers(q, n, db, top, rew), InOrder(q, db, D),
           NEW s \in Sheet, s.number <= top
    PROVE  Numbers(Append(q, SheetPut(s)), n, db, top, rew) /\ InOrder(Append(q, SheetPut(s)), db, D)
<1> DEFINE t == Append(q, SheetPut(s))
           k == Len(q) + 1
<1>1. /\ Len(q) \in Nat /\ Len(t) = k /\ t[k] = SheetPut(s)
      /\ \A i \in 1..Len(q) : t[i] = q[i]
      /\ \A i \in 1..Len(t) : i \in 1..Len(q) \/ i = k
      /\ \A i \in 1..Len(q) : i \in 1..Len(t)
      /\ \A i \in 1..Len(t) : \A j \in 1..(i - 1) : j \in 1..Len(q) /\ t[j] = q[j]
  BY PutAppended
<1>2. SheetAt(t, k) /\ ~ RoundAt(t, k) /\ t[k].value = s
  BY <1>1 DEF SheetPut, SheetAt, RoundAt
<1>3. \A i \in 1..Len(q) : (RoundAt(t, i) <=> RoundAt(q, i)) /\ (SheetAt(t, i) <=> SheetAt(q, i))
  BY <1>1 DEF SheetAt, RoundAt
<1>4. \A i \in 1..Len(q) : \A v : Reached(q, i, db, v) => Reached(t, i, db, v)
  BY ReachedAppend
<1>5. \A i \in 1..Len(q) : \A r : RoundDone(q, i, D, r) => RoundDone(t, i, D, r)
  BY RoundDoneAppend
<1> HIDE DEF t, k
<1>6. Numbers(t, n, db, top, rew)
  <2>1. \A i \in 1..Len(t) : RoundAt(t, i) => i \in 1..Len(q) /\ RoundAt(q, i) /\ t[i] = q[i]
    BY <1>1, <1>2, <1>3
  <2>2. \A i \in 1..Len(t) : \A j \in 1..(i - 1) : RoundAt(t, i) /\ RoundAt(t, j) => t[j].value < t[i].value
    BY <1>1, <1>3, <2>1 DEF Numbers
  <2>3. top = db \/ (db < top /\ \E i \in 1..Len(t) : RoundAt(t, i) /\ t[i].value = top)
    BY <1>1, <1>3 DEF Numbers
  <2>4. rew => \A i, j \in 1..Len(t) : RoundAt(t, i) /\ RoundAt(t, j) => i = j
    BY <2>1 DEF Numbers
  <2> QED
    BY <2>1, <2>2, <2>3, <2>4 DEF Numbers
<1>7. Reached(t, k, db, s.number)
  <2>1. s.number \in Nat
    BY DEF Sheet
  <2>2. CASE top = db
    BY <2>1, <2>2 DEF Reached
  <2>3. CASE top # db
    <3>1. PICK i \in 1..Len(q) : RoundAt(q, i) /\ q[i].value = top
      BY <2>3 DEF Numbers
    <3>2. i \in 1..(k - 1) /\ RoundAt(t, i) /\ t[i].value = top
      BY <1>1, <1>3, <3>1 DEF k
    <3> QED
      BY <2>1, <3>2 DEF Reached
  <2> QED
    BY <2>2, <2>3
<1>8. InOrder(t, db, D)
  <2> SUFFICES ASSUME NEW i \in 1..Len(t)
               PROVE  /\ RoundAt(t, i) => /\ Reached(t, i, db, t[i].value - 1)
                                          /\ \A r \in Rounds : r < t[i].value => RoundDone(t, i, D, r)
                      /\ SheetAt(t, i) => Reached(t, i, db, t[i].value.number)
    BY DEF InOrder
  <2>1. CASE i = k
    BY <1>2, <1>7, <2>1
  <2>2. CASE i \in 1..Len(q)
    <3>1. t[i] = q[i]
      BY <1>1, <2>2
    <3> QED
      BY <1>3, <1>4, <1>5, <2>2, <3>1, Zenon DEF InOrder
  <2> QED
    BY <1>1, <2>1, <2>2
<1> QED
  BY <1>6, <1>8 DEF t

(* The host ends the round top.                                            *)
LEMMA QueueOfRound ==
    ASSUME NEW q \in Seq(Put), NEW n \in 0..Len(q), NEW db \in Nat, NEW D, NEW top \in Rounds, NEW rew,
           Numbers(q, n, db, top, rew), InOrder(q, db, D), Database(db, D),
           rew => \A i \in 1..Len(q) : ~ RoundAt(q, i),
           \A p \in Players \ {Host} : Filed(D, p, top),
           Filed(D, Host, top) \/ SheetBefore(q, Len(q) + 1, top)
    PROVE  LET t == Append(q, RoundPut(top + 1))
           IN  Numbers(t, n, db, top + 1, rew) /\ InOrder(t, db, D)
<1> DEFINE t == Append(q, RoundPut(top + 1))
           k == Len(q) + 1
<1>0. top \in Nat \ {0}
  BY DEF Rounds
<1>1. /\ Len(q) \in Nat /\ Len(t) = k /\ t[k] = RoundPut(top + 1)
      /\ \A i \in 1..Len(q) : t[i] = q[i]
      /\ \A i \in 1..Len(t) : i \in 1..Len(q) \/ i = k
      /\ \A i \in 1..Len(q) : i \in 1..Len(t)
      /\ \A i \in 1..Len(t) : \A j \in 1..(i - 1) : j \in 1..Len(q) /\ t[j] = q[j]
  BY PutAppended
<1>2. RoundAt(t, k) /\ ~ SheetAt(t, k) /\ t[k].value = top + 1
  BY <1>1 DEF RoundPut, SheetAt, RoundAt
<1>3. \A i \in 1..Len(q) : (RoundAt(t, i) <=> RoundAt(q, i)) /\ (SheetAt(t, i) <=> SheetAt(q, i))
  BY <1>1 DEF SheetAt, RoundAt
<1>4. \A i \in 1..Len(q) : \A v : Reached(q, i, db, v) => Reached(t, i, db, v)
  BY ReachedAppend
<1>5. \A i \in 1..Len(q) : \A r : RoundDone(q, i, D, r) => RoundDone(t, i, D, r)
  BY RoundDoneAppend
<1> HIDE DEF t, k
<1>9. \A i \in 1..Len(q) : RoundAt(q, i) => q[i].value \in Nat
  BY PutIs
<1>6. Numbers(t, n, db, top + 1, rew)
  <2>1. ASSUME NEW i \in 1..Len(t), RoundAt(t, i)
        PROVE  /\ t[i].value - 1 \in Rounds /\ t[i].value <= top + 1
               /\ i <= n => t[i].value <= db
               /\ i > n => t[i].value >= db
               /\ rew => t[i].value >= db /\ (i > n => t[i].value > db)
    <3>1. CASE i = k
      <4>1. t[i].value - 1 = top
        BY <1>0, <1>2, <3>1
      <4>2. ~ (i <= n) /\ db <= top
        BY <1>0, <1>1, <3>1 DEF k, Numbers
      <4> QED
        BY <1>0, <1>2, <3>1, <4>1, <4>2
    <3>2. CASE i \in 1..Len(q)
      <4>1. RoundAt(q, i) /\ t[i] = q[i]
        BY <1>1, <1>3, <2>1, <3>2
      <4> QED
        BY <1>0, <1>9, <3>2, <4>1 DEF Numbers
    <3> QED
      BY <1>1, <3>1, <3>2
  <2>2. ASSUME NEW i \in 1..Len(t), NEW j \in 1..(i - 1), RoundAt(t, i), RoundAt(t, j)
        PROVE  t[j].value < t[i].value
    <3>1. j \in 1..Len(q) /\ RoundAt(q, j) /\ t[j] = q[j]
      BY <1>1, <1>3, <2>2
    <3>2. q[j].value <= top
      BY <3>1 DEF Numbers
    <3>3. CASE i = k
      BY <1>0, <1>2, <1>9, <3>1, <3>2, <3>3
    <3>4. CASE i \in 1..Len(q)
      BY <1>1, <1>3, <2>2, <3>1, <3>4 DEF Numbers
    <3> QED
      BY <1>1, <3>3, <3>4
  <2>3. db < top + 1 /\ k \in 1..Len(t)
    BY <1>0, <1>1 DEF Numbers, k
  <2>4. rew => \A i, j \in 1..Len(t) : RoundAt(t, i) /\ RoundAt(t, j) => i = j
    BY <1>1, <1>3
  <2> QED
    BY <1>2, <2>1, <2>2, <2>3, <2>4 DEF Numbers
<1>7. Reached(t, k, db, top)
  <2>2. CASE top = db
    BY <1>0, <2>2 DEF Reached
  <2>3. CASE top # db
    <3>1. PICK i \in 1..Len(q) : RoundAt(q, i) /\ q[i].value = top
      BY <2>3 DEF Numbers
    <3>2. i \in 1..(k - 1) /\ RoundAt(t, i) /\ t[i].value = top
      BY <1>1, <1>3, <3>1 DEF k
    <3> QED
      BY <1>0, <3>2 DEF Reached
  <2> QED
    BY <2>2, <2>3
<1>8. ASSUME NEW r \in Rounds, r < top + 1
      PROVE  RoundDone(t, k, D, r)
  <2>0. r \in Nat
    BY DEF Rounds
  <2>4. \A j \in 1..Len(q) : j \in 1..(k - 1)
    BY <1>1 DEF k
  <2>1. CASE r = top
    <3>1. \A v : SheetBefore(q, k, v) => SheetBefore(t, k, v)
      BY <1>1, <1>3 DEF SheetBefore, k
    <3> QED
      BY <2>1, <3>1 DEF RoundDone, k
  <2>2. CASE r < top /\ top = db
    BY <2>2, ConstantFacts DEF RoundDone, Database
  <2>3. CASE r < top /\ top # db
    <3>1. PICK i \in 1..Len(q) : RoundAt(q, i) /\ q[i].value = top
      BY <2>3 DEF Numbers
    <3>2. RoundDone(q, i, D, r)
      BY <2>3, <3>1 DEF InOrder
    <3>3. SheetBefore(q, i, r) => SheetBefore(t, k, r)
      BY <1>1, <1>3, <3>1 DEF SheetBefore, k, SheetAt
    <3> QED
      BY <3>2, <3>3 DEF RoundDone
  <2> QED
    BY <1>0, <1>8, <2>0, <2>1, <2>2, <2>3
<1>10. InOrder(t, db, D)
  <2> SUFFICES ASSUME NEW i \in 1..Len(t)
               PROVE  /\ RoundAt(t, i) => /\ Reached(t, i, db, t[i].value - 1)
                                          /\ \A r \in Rounds : r < t[i].value => RoundDone(t, i, D, r)
                      /\ SheetAt(t, i) => Reached(t, i, db, t[i].value.number)
    BY DEF InOrder
  <2>1. CASE i = k
    <3>1. t[i].value - 1 = top
      BY <1>0, <1>2, <2>1
    <3> QED
      BY <1>2, <1>7, <1>8, <2>1, <3>1
  <2>2. CASE i \in 1..Len(q)
    <3>1. t[i] = q[i]
      BY <1>1, <2>2
    <3> QED
      BY <1>3, <1>4, <1>5, <2>2, <3>1, Zenon DEF InOrder
  <2> QED
    BY <1>1, <2>1, <2>2
<1> QED
  BY <1>6, <1>10 DEF t

(* The sheets of the host's queue are its own, and the delivered ones are  *)
(* stored.                                                                 *)
Delivered(q, n, D) == \A i \in 1..Len(q) : SheetAt(q, i) =>
    q[i].value.author = Host /\ (i <= n => q[i].value \in D)

(* The round number at the front of the undelivered writes is applied.     *)
LEMMA RoundApplied ==
    ASSUME NEW q \in Seq(Put), NEW n \in 0..Len(q), NEW db \in Nat, NEW D \in SUBSET Sheet, NEW top \in Nat, NEW rew,
           Numbers(q, n, db, top, rew), InOrder(q, db, D), Database(db, D), Delivered(q, n, D),
           n < Len(q), RoundAt(q, n + 1)
    PROVE  LET v == q[n + 1].value IN
           /\ v \in Nat /\ v - 1 \in Rounds /\ v \in {db, db + 1} /\ v <= top
           /\ Numbers(q, n + 1, v, top, rew) /\ InOrder(q, v, D) /\ Database(v, D)
<1> DEFINE k == n + 1
           v == q[k].value
<1>1. /\ Len(q) \in Nat /\ k \in 1..Len(q) /\ k > n
      /\ \A i \in 1..Len(q) : RoundAt(q, i) => q[i].value \in Nat
      /\ \A i \in 1..Len(q) : SheetAt(q, i) => q[i].value.number \in Nat
      /\ \A j \in 1..(k - 1) : j \in 1..Len(q) /\ j <= n
  BY PutIs
<1>2. v \in Nat /\ v - 1 \in Rounds /\ v >= db /\ v <= top
  BY <1>1 DEF Numbers
<1>3. v - 1 <= db
  <2>1. Reached(q, k, db, v - 1)
    BY <1>1 DEF InOrder
  <2>2. \A j \in 1..(k - 1) : RoundAt(q, j) => q[j].value <= db
    BY <1>1 DEF Numbers
  <2>3. ASSUME NEW j \in 1..(k - 1), RoundAt(q, j), q[j].value >= v - 1
        PROVE  v - 1 <= db
    <3>1. q[j].value \in Nat /\ q[j].value <= db
      BY <1>1, <2>2, <2>3
    <3>2. v \in Nat
      BY <1>2
    <3> HIDE DEF v
    <3> QED
      BY <2>3, <3>1, <3>2
  <2> QED
    BY <2>1, <2>3 DEF Reached
<1> HIDE DEF v, k
<1>4. Numbers(q, k, v, top, rew)
  <2>1. ASSUME NEW i \in 1..Len(q), RoundAt(q, i)
        PROVE  /\ q[i].value - 1 \in Rounds /\ q[i].value <= top
               /\ i <= k => q[i].value <= v
               /\ i > k => q[i].value >= v
               /\ rew => q[i].value >= v /\ (i > k => q[i].value > v)
    <3>1. CASE i = k
      BY <1>1, <1>2, <3>1 DEF v
    <3>2. CASE i < k
      <4>1. k \in 1..Len(q) /\ i \in 1..(k - 1)
        BY <1>1, <3>2
      <4>2. q[i].value < v /\ ~ rew
        BY <2>1, <3>2, <4>1 DEF Numbers, v, k
      <4> QED
        BY <1>1, <1>2, <2>1, <3>2, <4>2 DEF Numbers
    <3>3. CASE i > k
      <4>1. k \in 1..(i - 1)
        BY <1>1, <3>3
      <4>2. v < q[i].value
        BY <2>1, <4>1 DEF Numbers, v, k
      <4> QED
        BY <1>1, <1>2, <2>1, <3>3, <4>2 DEF Numbers
    <3> QED
      BY <1>1, <3>1, <3>2, <3>3
  <2>2. top = v \/ (v < top /\ \E i \in 1..Len(q) : RoundAt(q, i) /\ q[i].value = top)
    <3>1. CASE top = db
      BY <1>2, <3>1
    <3>2. CASE top # db
      BY <1>2, <3>2 DEF Numbers
    <3> QED
      BY <3>1, <3>2
  <2> QED
    BY <2>1, <2>2 DEF Numbers
<1>5. \A i \in 1..Len(q), w \in Int : Reached(q, i, db, w) => Reached(q, i, v, w)
  BY <1>2 DEF Reached
<1>6. InOrder(q, v, D)
  BY <1>1, <1>5 DEF InOrder
<1>7. Database(v, D)
  <2>1. \A s \in D : s.number <= v
    <3>1. CASE v = db
      BY <3>1 DEF Database
    <3>2. CASE v = db + 1
      <4> SUFFICES ASSUME NEW s \in D PROVE s.number <= db + 1
        BY <3>2
      <4>1. s.number \in Nat /\ s.number <= db
        BY DEF Database, Sheet
      <4> QED
        BY <4>1
    <3> QED
      BY <1>2, <1>3, <3>1, <3>2
  <2>2. ASSUME NEW r \in Rounds, r < v
        PROVE  \A p \in Players : Filed(D, p, r)
    <3>1. RoundDone(q, k, D, r)
      BY <1>1, <2>2 DEF InOrder, v, k
    <3>2. SheetBefore(q, k, r) => Filed(D, Host, r)
      BY <1>1 DEF SheetBefore, Filed, Delivered
    <3> QED
      BY <3>1, <3>2 DEF RoundDone
  <2> QED
    BY <2>1, <2>2 DEF Database
<1>8. v \in {db, db + 1}
  BY <1>2, <1>3
<1> QED
  BY <1>2, <1>4, <1>6, <1>7, <1>8 DEF v, k

(* More sheets do not undo a round.                                        *)
LEMMA FiledMore ==
    ASSUME NEW D, NEW E, D \subseteq E
    PROVE  /\ \A p, r : Filed(D, p, r) => Filed(E, p, r)
           /\ \A q, i, r : RoundDone(q, i, D, r) => RoundDone(q, i, E, r)
BY DEF Filed, RoundDone

(* A sheet is applied: of another device, ...                              *)
LEMMA SheetStored ==
    ASSUME NEW q, NEW db \in Nat, NEW D, NEW s, s.number <= db,
           InOrder(q, db, D), Database(db, D)
    PROVE  InOrder(q, db, D \cup {s}) /\ Database(db, D \cup {s})
<1>1. InOrder(q, db, D \cup {s})
  BY FiledMore DEF InOrder
<1>2. Database(db, D \cup {s})
  BY FiledMore DEF Database
<1> QED
  BY <1>1, <1>2

(* ... or of the host.                                                     *)
LEMMA SheetApplied ==
    ASSUME NEW q \in Seq(Put), NEW n \in 0..Len(q), NEW db \in Nat, NEW D, NEW top \in Nat, NEW rew,
           Numbers(q, n, db, top, rew), InOrder(q, db, D), Database(db, D),
           n < Len(q), SheetAt(q, n + 1)
    PROVE  LET s == q[n + 1].value IN
           /\ s.number <= db
           /\ Numbers(q, n + 1, db, top, rew) /\ InOrder(q, db, D \cup {s}) /\ Database(db, D \cup {s})
<1> DEFINE k == n + 1
           s == q[k].value
<1>1. /\ Len(q) \in Nat /\ k \in 1..Len(q) /\ k > n
      /\ \A i \in 1..Len(q) : RoundAt(q, i) => q[i].value \in Nat
      /\ \A i \in 1..Len(q) : SheetAt(q, i) => q[i].value.number \in Nat /\ ~ RoundAt(q, i)
      /\ \A j \in 1..(k - 1) : j \in 1..Len(q) /\ j <= n
  BY PutIs, SMTT(20)
<1>2. s.number <= db
  <2>1. Reached(q, k, db, s.number)
    BY <1>1 DEF InOrder
  <2>2. \A j \in 1..(k - 1) : RoundAt(q, j) => q[j].value <= db
    BY <1>1 DEF Numbers
  <2> QED
    BY <1>1, <2>1, <2>2 DEF Reached
<1>3. Numbers(q, k, db, top, rew)
  BY <1>1 DEF Numbers
<1> HIDE DEF s, k
<1>4. InOrder(q, db, D \cup {s}) /\ Database(db, D \cup {s})
  BY <1>2, SheetStored
<1> QED
  BY <1>2, <1>3, <1>4 DEF s, k

(* The oldest write is acknowledged.                                       *)
LEMMA WriteAcknowledged ==
    ASSUME NEW q \in Seq(Put), NEW n \in 1..Len(q), NEW db \in Nat, NEW D, NEW top \in Nat, NEW rew,
           Numbers(q, n, db, top, rew), InOrder(q, db, D), Delivered(q, n, D)
    PROVE  Numbers(Tail(q), n - 1, db, top, rew) /\ InOrder(Tail(q), db, D)
<1> DEFINE t == Tail(q)
<1>0. q # <<>>
  OBVIOUS
<1>1. /\ Len(q) \in Nat /\ Len(t) = Len(q) - 1 /\ 1 \in 1..Len(q)
      /\ \A i \in 1..Len(t) : t[i] = q[i + 1] /\ i + 1 \in 1..Len(q)
      /\ \A i \in 1..Len(q) : i = 1 \/ (i - 1 \in 1..Len(t) /\ t[i - 1] = q[i])
  BY <1>0, PutDropped
<1>2. /\ \A i \in 1..Len(q) : RoundAt(q, i) => q[i].value \in Nat
      /\ \A i \in 1..Len(q) : SheetAt(q, i) => q[i].value.number \in Nat
  BY PutIs
<1> HIDE DEF t
<1>3. \A i \in 1..Len(t) : (RoundAt(t, i) <=> RoundAt(q, i + 1)) /\ (SheetAt(t, i) <=> SheetAt(q, i + 1))
  BY <1>1 DEF RoundAt, SheetAt
<1>4. Numbers(t, n - 1, db, top, rew)
  <2>1. ASSUME NEW i \in 1..Len(t), RoundAt(t, i)
        PROVE  /\ t[i].value - 1 \in Rounds /\ t[i].value <= top
               /\ i <= n - 1 => t[i].value <= db
               /\ i > n - 1 => t[i].value >= db
               /\ rew => t[i].value >= db /\ (i > n - 1 => t[i].value > db)
    <3>1. t[i] = q[i + 1] /\ i + 1 \in 1..Len(q) /\ RoundAt(q, i + 1)
      BY <1>1, <1>3, <2>1
    <3>2. i <= n - 1 <=> i + 1 <= n
      BY <1>1
    <3>3. i > n - 1 <=> i + 1 > n
      BY <1>1
    <3> QED
      BY <3>1, <3>2, <3>3 DEF Numbers
  <2>2. ASSUME NEW i \in 1..Len(t), NEW j \in 1..(i - 1), RoundAt(t, i), RoundAt(t, j)
        PROVE  t[j].value < t[i].value
    <3>1. j \in 1..Len(t) /\ j + 1 \in 1..((i + 1) - 1)
      BY <1>1
    <3>2. /\ t[i] = q[i + 1] /\ i + 1 \in 1..Len(q) /\ RoundAt(q, i + 1)
          /\ t[j] = q[j + 1] /\ j + 1 \in 1..Len(q) /\ RoundAt(q, j + 1)
      BY <1>1, <1>3, <2>2, <3>1
    <3> QED
      BY <3>1, <3>2 DEF Numbers
  <2>3. top = db \/ (db < top /\ \E i \in 1..Len(t) : RoundAt(t, i) /\ t[i].value = top)
    <3>1. CASE top # db
      <4>1. PICK i \in 1..Len(q) : RoundAt(q, i) /\ q[i].value = top
        BY <3>1 DEF Numbers
      <4>2. db < top
        BY <3>1 DEF Numbers
      <4>3. i # 1
        BY <4>1, <4>2 DEF Numbers
      <4>4. i - 1 \in 1..Len(t) /\ t[i - 1] = q[i] /\ RoundAt(t, i - 1)
        BY <1>1, <4>1, <4>3 DEF RoundAt
      <4> QED
        BY <4>1, <4>2, <4>4
    <3> QED
      BY <3>1
  <2>4. ASSUME rew, NEW i \in 1..Len(t), NEW j \in 1..Len(t), RoundAt(t, i), RoundAt(t, j)
        PROVE  i = j
    <3>1. /\ i + 1 \in 1..Len(q) /\ RoundAt(q, i + 1)
          /\ j + 1 \in 1..Len(q) /\ RoundAt(q, j + 1)
      BY <1>1, <1>3, <2>4
    <3>2. i + 1 = j + 1
      BY <2>4, <3>1 DEF Numbers
    <3> QED
      BY <1>1, <3>2
  <2> QED
    BY <2>1, <2>2, <2>3, <2>4 DEF Numbers
<1>5. ASSUME NEW i \in 1..Len(t), NEW v \in Int, Reached(q, i + 1, db, v)
      PROVE  Reached(t, i, db, v)
  <2>1. CASE v <= db
    BY <2>1 DEF Reached
  <2>2. CASE \E j \in 1..((i + 1) - 1) : RoundAt(q, j) /\ q[j].value >= v
    <3>1. PICK j \in 1..((i + 1) - 1) : RoundAt(q, j) /\ q[j].value >= v
      BY <2>2
    <3>2. j \in 1..Len(q)
      BY <1>1
    <3>3. CASE j = 1
      <4>1. q[j].value <= db
        BY <3>1, <3>2, <3>3 DEF Numbers
      <4> QED
        BY <1>2, <3>1, <3>2, <4>1 DEF Reached
    <3>4. CASE j # 1
      <4>1. j - 1 \in 1..(i - 1) /\ RoundAt(t, j - 1) /\ t[j - 1] = q[j]
        BY <1>1, <3>1, <3>2, <3>4 DEF RoundAt
      <4> QED
        BY <3>1, <4>1 DEF Reached
    <3> QED
      BY <3>3, <3>4
  <2> QED
    BY <1>5, <2>1, <2>2 DEF Reached
<1>6. ASSUME NEW i \in 1..Len(t), NEW r, RoundDone(q, i + 1, D, r)
      PROVE  RoundDone(t, i, D, r)
  <2>1. ASSUME SheetBefore(q, i + 1, r)
        PROVE  Filed(D, Host, r) \/ SheetBefore(t, i, r)
    <3>1. PICK j \in 1..((i + 1) - 1) : SheetAt(q, j) /\ q[j].value.number = r
      BY <2>1 DEF SheetBefore
    <3>2. j \in 1..Len(q)
      BY <1>1
    <3>3. CASE j = 1
      <4>1. q[j].value \in D /\ q[j].value.author = Host
        BY <3>1, <3>2, <3>3 DEF Delivered
      <4> QED
        BY <3>1, <4>1 DEF Filed
    <3>4. CASE j # 1
      <4>1. j - 1 \in 1..(i - 1) /\ SheetAt(t, j - 1) /\ t[j - 1] = q[j]
        BY <1>1, <3>1, <3>2, <3>4 DEF SheetAt
      <4> QED
        BY <3>1, <4>1 DEF SheetBefore
    <3> QED
      BY <3>3, <3>4
  <2> QED
    BY <1>6, <2>1 DEF RoundDone
<1>7. InOrder(t, db, D)
  <2> SUFFICES ASSUME NEW i \in 1..Len(t)
               PROVE  /\ RoundAt(t, i) => /\ Reached(t, i, db, t[i].value - 1)
                                          /\ \A r \in Rounds : r < t[i].value => RoundDone(t, i, D, r)
                      /\ SheetAt(t, i) => Reached(t, i, db, t[i].value.number)
    BY DEF InOrder
  <2>1. t[i] = q[i + 1] /\ i + 1 \in 1..Len(q)
    BY <1>1
  <2>2. ASSUME RoundAt(t, i)
        PROVE  /\ Reached(t, i, db, t[i].value - 1)
               /\ \A r \in Rounds : r < t[i].value => RoundDone(t, i, D, r)
    <3>1. RoundAt(q, i + 1) /\ t[i].value - 1 \in Int
      BY <1>2, <1>3, <2>1, <2>2
    <3>2. Reached(q, i + 1, db, t[i].value - 1)
      BY <2>1, <3>1 DEF InOrder
    <3>3. \A r \in Rounds : r < t[i].value => RoundDone(q, i + 1, D, r)
      BY <2>1, <3>1 DEF InOrder
    <3> QED
      BY <1>5, <1>6, <3>1, <3>2, <3>3
  <2>3. ASSUME SheetAt(t, i)
        PROVE  Reached(t, i, db, t[i].value.number)
    <3>1. SheetAt(q, i + 1) /\ t[i].value.number \in Int
      BY <1>2, <1>3, <2>1, <2>3
    <3>2. Reached(q, i + 1, db, t[i].value.number)
      BY <2>1, <3>1 DEF InOrder
    <3> QED
      BY <1>5, <3>1, <3>2
  <2> QED
    BY <2>2, <2>3
<1> QED
  BY <1>4, <1>7 DEF t

(* The connection of the host is lost, and will not be lost again.         *)
LEMMA WritesRewound ==
    ASSUME NEW q \in Seq(Put), NEW n \in 0..Len(q), NEW db \in Nat, NEW top \in Nat, NEW rew, rew,
           Numbers(q, n, db, top, rew), NEW again, ~ again
    PROVE  Numbers(q, 0, db, top, again)
<1>1. \A i \in 1..Len(q) : ~ (i <= 0)
  OBVIOUS
<1> QED
  BY <1>1 DEF Numbers

(* What holds as long as it may be lost also holds when it may not.        *)
LEMMA NoRewind ==
    ASSUME NEW q, NEW n, NEW db, NEW top, NEW rew, Numbers(q, n, db, top, rew), NEW again, again => rew
    PROVE  Numbers(q, n, db, top, again)
BY DEF Numbers

-----------------------------------------------------------------------------
(* The main queue.                                                         *)

(* The roundNum events on a main queue, for a controller in round r: they  *)
(* lead upwards, and no higher than hi.                                    *)
Ascends(mq, r, hi) ==
    \A i \in 1..Len(mq) : RoundAt(mq, i) =>
        /\ r < mq[i].value /\ mq[i].value <= hi
        /\ \A j \in 1..(i - 1) : RoundAt(mq, j) => mq[j].value < mq[i].value

(* A count of all the sheets is on the main queue.                         *)
AllAt(mq, i)    == mq[i].type = "sheets" /\ mq[i].value = NumOfPlayers
AllCounted(mq)  == \E i \in 1..Len(mq) : AllAt(mq, i)
AtMostOnce(mq)  == \A i, j \in 1..Len(mq) : AllAt(mq, i) /\ AllAt(mq, j) => i = j

(* A block of the main queue has a kind and a number.                      *)
LEMMA EventIs ==
    ASSUME NEW mq \in Seq(Events)
    PROVE  /\ Len(mq) \in Nat
           /\ \A i \in 1..Len(mq) : mq[i].value \in Nat /\ mq[i].type \in {"roundNum", "sheets"}
<1>1. Len(mq) \in Nat /\ \A i \in 1..Len(mq) : mq[i] \in Events
  OBVIOUS
<1> QED
  BY <1>1 DEF Events

(* The blocks of a main queue that has got one more, ...                   *)
LEMMA EventAppended ==
    ASSUME NEW mq \in Seq(Events), NEW m
    PROVE  LET t == Append(mq, m) IN
           /\ Len(mq) \in Nat /\ Len(t) = Len(mq) + 1 /\ t[Len(mq) + 1] = m
           /\ \A i \in 1..Len(mq) : t[i] = mq[i]
           /\ \A i \in 1..Len(t) : i \in 1..Len(mq) \/ i = Len(mq) + 1
           /\ \A i \in 1..Len(mq) : i \in 1..Len(t)
           /\ \A i \in 1..Len(t) : \A j \in 1..(i - 1) : j \in 1..Len(mq)
  OBVIOUS

(* ... and of one whose first block is taken off.                          *)
LEMMA EventTaken ==
    ASSUME NEW mq \in Seq(Events), mq # <<>>
    PROVE  LET t == Tail(mq) IN
           /\ t \in Seq(Events)
           /\ Len(mq) \in Nat /\ Len(t) = Len(mq) - 1 /\ 1 \in 1..Len(mq) /\ Head(mq) = mq[1]
           /\ \A i \in 1..Len(t) : t[i] = mq[i + 1] /\ i + 1 \in 1..Len(mq)
           /\ \A i \in 1..Len(mq) : i = 1 \/ (i - 1 \in 1..Len(t) /\ t[i - 1] = mq[i])
  OBVIOUS

(* The bound may rise.                                                     *)
LEMMA AscendsHigher ==
    ASSUME NEW mq \in Seq(Events), NEW r \in Nat, NEW hi \in Int, NEW h \in Int, hi <= h, Ascends(mq, r, hi)
    PROVE  Ascends(mq, r, h)
BY EventIs DEF Ascends

(* A count of sheets does not matter to the round numbers.                 *)
LEMMA AscendsCount ==
    ASSUME NEW mq \in Seq(Events), NEW r \in Nat, NEW hi \in Int, NEW n, Ascends(mq, r, hi)
    PROVE  Ascends(Append(mq, Event("sheets", n)), r, hi)
<1> DEFINE t == Append(mq, Event("sheets", n))
           k == Len(mq) + 1
<1>1. /\ Len(mq) \in Nat /\ Len(t) = k /\ t[k] = Event("sheets", n)
      /\ \A i \in 1..Len(mq) : t[i] = mq[i]
      /\ \A i \in 1..Len(t) : i \in 1..Len(mq) \/ i = k
      /\ \A i \in 1..Len(t) : \A j \in 1..(i - 1) : j \in 1..Len(mq)
  BY EventAppended
<1>2. ~ RoundAt(t, k)
  BY <1>1 DEF RoundAt, Event
<1> HIDE DEF t, k
<1> QED
  BY <1>1, <1>2 DEF Ascends, RoundAt, t

(* A higher round number may join.                                         *)
LEMMA AscendsRound ==
    ASSUME NEW mq \in Seq(Events), NEW r \in Nat, NEW hi \in Int, NEW v \in Nat, hi < v, r < v,
           Ascends(mq, r, hi)
    PROVE  Ascends(Append(mq, Event("roundNum", v)), r, v)
<1> DEFINE t == Append(mq, Event("roundNum", v))
           k == Len(mq) + 1
<1>1. /\ Len(mq) \in Nat /\ Len(t) = k /\ t[k] = Event("roundNum", v)
      /\ \A i \in 1..Len(mq) : t[i] = mq[i]
      /\ \A i \in 1..Len(t) : i \in 1..Len(mq) \/ i = k
      /\ \A i \in 1..Len(t) : \A j \in 1..(i - 1) : j \in 1..Len(mq)
  BY EventAppended
<1>2. RoundAt(t, k) /\ t[k].value = v
  BY <1>1 DEF RoundAt, Event
<1>3. \A i \in 1..Len(mq) : mq[i].value \in Nat
  BY EventIs
<1> HIDE DEF t, k
<1> SUFFICES ASSUME NEW i \in 1..Len(t), RoundAt(t, i)
             PROVE  /\ r < t[i].value /\ t[i].value <= v
                    /\ \A j \in 1..(i - 1) : RoundAt(t, j) => t[j].value < t[i].value
  BY DEF Ascends, t
<1>4. \A j \in 1..(i - 1) : RoundAt(t, j) => j \in 1..Len(mq) /\ t[j] = mq[j] /\ RoundAt(mq, j)
  BY <1>1 DEF RoundAt
<1>5. CASE i = k
  BY <1>2, <1>3, <1>4, <1>5, SMTT(20) DEF Ascends
<1>6. CASE i \in 1..Len(mq)
  <2>1. t[i] = mq[i] /\ RoundAt(mq, i)
    BY <1>1, <1>6 DEF RoundAt
  <2> QED
    BY <1>3, <1>4, <1>6, <2>1 DEF Ascends
<1> QED
  BY <1>1, <1>5, <1>6

(* Taking a block off keeps the order; a round number taken off is higher  *)
(* than the current round and lower than the rest.                         *)
LEMMA AscendsTaken ==
    ASSUME NEW mq \in Seq(Events), mq # <<>>, NEW r \in Nat, NEW hi \in Int, Ascends(mq, r, hi)
    PROVE  /\ Ascends(Tail(mq), r, hi)
           /\ Head(mq).type = "roundNum" =>
                /\ r < Head(mq).value /\ Head(mq).value <= hi
                /\ Ascends(Tail(mq), Head(mq).value, hi)
<1> DEFINE t == Tail(mq)
<1>1. /\ Len(mq) \in Nat /\ Len(t) = Len(mq) - 1 /\ 1 \in 1..Len(mq) /\ Head(mq) = mq[1]
      /\ \A i \in 1..Len(t) : t[i] = mq[i + 1] /\ i + 1 \in 1..Len(mq)
  BY EventTaken
<1>2. \A i \in 1..Len(t) : RoundAt(t, i) <=> RoundAt(mq, i + 1)
  BY <1>1 DEF RoundAt
<1> HIDE DEF t
<1>3. ASSUME NEW i \in 1..Len(t), RoundAt(t, i)
      PROVE  /\ r < t[i].value /\ t[i].value <= hi
             /\ \A j \in 1..(i - 1) : RoundAt(t, j) => t[j].value < t[i].value
             /\ RoundAt(mq, 1) => mq[1].value < t[i].value
  <2>1. t[i] = mq[i + 1] /\ i + 1 \in 1..Len(mq) /\ RoundAt(mq, i + 1)
    BY <1>1, <1>2, <1>3
  <2>2. \A j \in 1..((i + 1) - 1) : RoundAt(mq, j) => mq[j].value < t[i].value
    BY <2>1 DEF Ascends
  <2>3. 1 \in 1..((i + 1) - 1)
    BY <1>1
  <2>4. \A j \in 1..(i - 1) : j \in 1..Len(t) /\ j + 1 \in 1..((i + 1) - 1)
    BY <1>1
  <2>5. \A j \in 1..(i - 1) : RoundAt(t, j) => t[j].value < t[i].value
    BY <1>1, <1>2, <2>2, <2>4
  <2> QED
    BY <2>1, <2>2, <2>3, <2>5 DEF Ascends
<1>4. Ascends(t, r, hi)
  BY <1>3 DEF Ascends
<1>5. ASSUME Head(mq).type = "roundNum"
      PROVE  /\ r < Head(mq).value /\ Head(mq).value <= hi
             /\ Ascends(t, Head(mq).value, hi)
  <2>1. RoundAt(mq, 1)
    BY <1>1, <1>5 DEF RoundAt
  <2> QED
    BY <1>1, <1>3, <2>1 DEF Ascends
<1> QED
  BY <1>4, <1>5 DEF t

(* Nothing above the controller's round is on its way.                     *)
LEMMA AscendsNone ==
    ASSUME NEW mq \in Seq(Events), NEW r \in Nat, NEW hi \in Int, hi <= r, Ascends(mq, r, hi)
    PROVE  /\ \A i \in 1..Len(mq) : ~ RoundAt(mq, i)
           /\ \A s, h : Ascends(mq, s, h)
<1>1. \A i \in 1..Len(mq) : ~ RoundAt(mq, i)
  BY EventIs DEF Ascends
<1> QED
  BY <1>1 DEF Ascends

(* Taking a block off: a complete count that is taken off was the only     *)
(* one.                                                                    *)
LEMMA CountTaken ==
    ASSUME NEW mq \in Seq(Events), mq # <<>>, AtMostOnce(mq)
    PROVE  /\ AtMostOnce(Tail(mq))
           /\ AllCounted(Tail(mq)) => AllCounted(mq)
           /\ Head(mq).type = "sheets" /\ Head(mq).value = NumOfPlayers =>
                AllCounted(mq) /\ ~ AllCounted(Tail(mq))
<1> DEFINE t == Tail(mq)
<1>1. /\ Len(mq) \in Nat /\ Len(t) = Len(mq) - 1 /\ 1 \in 1..Len(mq) /\ Head(mq) = mq[1]
      /\ \A i \in 1..Len(t) : t[i] = mq[i + 1] /\ i + 1 \in 1..Len(mq)
  BY EventTaken
<1>2. \A i \in 1..Len(t) : AllAt(t, i) <=> AllAt(mq, i + 1)
  BY <1>1 DEF AllAt
<1> HIDE DEF t
<1>3. AtMostOnce(t)
  <2> SUFFICES ASSUME NEW i \in 1..Len(t), NEW j \in 1..Len(t), AllAt(t, i), AllAt(t, j)
               PROVE  i = j
    BY DEF AtMostOnce
  <2>1. i + 1 = j + 1
    BY <1>1, <1>2 DEF AtMostOnce
  <2> QED
    BY <1>1, <2>1
<1>4. AllCounted(t) => AllCounted(mq)
  BY <1>1, <1>2 DEF AllCounted
<1>5. ASSUME Head(mq).type = "sheets", Head(mq).value = NumOfPlayers
      PROVE  AllCounted(mq) /\ ~ AllCounted(t)
  <2>1. AllAt(mq, 1)
    BY <1>1, <1>5 DEF AllAt
  <2>2. \A i \in 1..Len(t) : i + 1 # 1
    BY <1>1
  <2> QED
    BY <1>1, <1>2, <2>1, <2>2 DEF AllCounted, AtMostOnce
<1> QED
  BY <1>3, <1>4, <1>5 DEF t

(* Adding a block: only a complete count adds one.                         *)
LEMMA CountAdded ==
    ASSUME NEW mq \in Seq(Events), NEW type, NEW n, AtMostOnce(mq)
    PROVE  LET t == Append(mq, Event(type, n)) IN
           IF type = "sheets" /\ n = NumOfPlayers
             THEN ~ AllCounted(mq) => AtMostOnce(t)
             ELSE AtMostOnce(t) /\ (AllCounted(t) <=> AllCounted(mq))
<1> DEFINE t == Append(mq, Event(type, n))
           k == Len(mq) + 1
<1>1. /\ Len(mq) \in Nat /\ Len(t) = k /\ t[k] = Event(type, n)
      /\ \A i \in 1..Len(mq) : t[i] = mq[i]
      /\ \A i \in 1..Len(t) : i \in 1..Len(mq) \/ i = k
      /\ \A i \in 1..Len(mq) : i \in 1..Len(t)
  BY EventAppended
<1>2. AllAt(t, k) <=> type = "sheets" /\ n = NumOfPlayers
  BY <1>1 DEF AllAt, Event
<1>3. \A i \in 1..Len(mq) : AllAt(t, i) <=> AllAt(mq, i)
  BY <1>1 DEF AllAt
<1> HIDE DEF t, k
<1>4. ASSUME type = "sheets", n = NumOfPlayers, ~ AllCounted(mq)
      PROVE  AtMostOnce(t)
  BY <1>1, <1>3, <1>4 DEF AtMostOnce, AllCounted
<1>5. ASSUME ~ (type = "sheets" /\ n = NumOfPlayers)
      PROVE  AtMostOnce(t) /\ (AllCounted(t) <=> AllCounted(mq))
  BY <1>1, <1>2, <1>3, <1>5 DEF AtMostOnce, AllCounted
<1> QED
  BY <1>4, <1>5 DEF t

-----------------------------------------------------------------------------
(* Sheets with different authors.                                          *)

(* No two sheets of one player.                                            *)
OfDifferentAuthors(S) == \A s, t \in S : s.author = t.author => s = t

(* Sheets of different players: at most one each, and if there are as many *)
(* as players, one of everybody.                                           *)
LEMMA OneEach ==
    ASSUME NEW S \in SUBSET Sheet, IsFiniteSet(S), OfDifferentAuthors(S)
    PROVE  /\ Cardinality(S) \in Nat /\ Cardinality(S) <= NumOfPlayers
           /\ Cardinality(S) = NumOfPlayers => \A p \in Players : \E s \in S : s.author = p
<1> DEFINE f == [s \in S |-> s.author]
<1>1. IsFiniteSet(Players) /\ Cardinality(Players) = NumOfPlayers
  <2>1. 1 \in Int /\ NumOfPlayers \in Int /\ NumOfPlayers \in Nat /\ 1 <= NumOfPlayers
    BY PlayersAssumption
  <2>2. IsFiniteSet(1..NumOfPlayers)
          /\ Cardinality(1..NumOfPlayers) = IF 1 > NumOfPlayers THEN 0 ELSE NumOfPlayers - 1 + 1
    BY <2>1, FS_Interval, Zenon
  <2> QED
    BY <2>1, <2>2 DEF Players
<1>2. f \in Injection(S, Players)
  <2>1. \A s \in S : s.author \in Players
    BY DEF Sheet
  <2>2. f \in [S -> Players]
    BY <2>1
  <2>3. \A s, t \in S : f[s] = f[t] => s = t
    BY DEF OfDifferentAuthors
  <2> QED
    BY <2>2, <2>3, Zenon DEF Injection, IsInjective
<1>3. \A s \in S : f[s] = s.author
  OBVIOUS
<1> HIDE DEF f
<1>4. /\ Cardinality(S) <= Cardinality(Players)
      /\ Cardinality(S) = Cardinality(Players) <=> f \in Surjection(S, Players)
  BY <1>1, <1>2, FS_Injection, Zenon
<1>5. Cardinality(S) \in Nat
  BY FS_CardinalityType, Zenon
<1>6. ASSUME f \in Surjection(S, Players), NEW p \in Players
      PROVE  \E s \in S : s.author = p
  BY <1>3, <1>6, Zenon DEF Surjection
<1> QED
  BY <1>1, <1>4, <1>5, <1>6

-----------------------------------------------------------------------------
(* The invariant.                                                          *)

(* The round the host is bound for: the value its listener was last told.  *)
Top == IF ~ roundObserved[Host] THEN roundNum[Host]
       ELSE IF roundSeen[Host] = NotLoaded THEN 1 ELSE roundSeen[Host]

(* The host's connection may still be lost, and its writes sent again.     *)
CanRewind == Host \in MayDisconnect /\ disconnects < MaxDisconnects

(* The highest round number that may be on the main queue of c.            *)
Ceiling(c) == IF roundObserved[c] THEN roundSeen[c] ELSE IF c = Host THEN 0 ELSE dbRoundNum

(* The host's outstanding writes and the database; nobody else writes      *)
(* roundNum.                                                               *)
HostWrites ==
    /\ Numbers(puts[Host], applied[Host], dbRoundNum, Top, CanRewind)
    /\ InOrder(puts[Host], dbRoundNum, dbSheets)
    /\ Database(dbRoundNum, dbSheets)
    /\ \A c \in Players \ {Host} : \A i \in 1..Len(puts[c]) : SheetAt(puts[c], i)

(* The round numbers on their way to a controller go up, and start above   *)
(* its round.                                                              *)
RoundsAscend ==
    \A c \in Players :
        /\ Ascends(mainq[c], roundNum[c], Ceiling(c))
        /\ roundObserved[c] => roundNum[c] <= roundSeen[c] \/ roundNum[c] = 0
        /\ c # Host => roundSeen[c] <= dbRoundNum /\ roundNum[c] <= dbRoundNum

(* The host is in the round it is bound for, or about to enter it.         *)
HostLeads ==
    /\ dbRoundNum >= 1
    /\ Top = roundNum[Host] \/ Top = roundNum[Host] + 1
    /\ roundObserved[Host] <=> screen[Host] = "Sheet"
    /\ ~ roundObserved[Host] => roundNum[Host] > NumOfRounds

(* A sheet is filed once, under a round its player has reached, and the    *)
(* flag of the present round tells whether.                                *)
FiledOnce ==
    /\ OneSheetPerRound
    /\ \A c \in Players : \A s \in FiledBy(c) :
         /\ s.number <= roundNum[c] /\ s.number <= NumOfRounds
         /\ s.number = roundNum[c] /\ screen[c] = "Sheet" => isContentSaved[c]

(* The round whose sheets the host counts, what its listener was told last *)
(* and what the SDK shows of that round.  (HostCountsItsRound: there is no *)
(* other listener on sheets.)                                              *)
HostRound == IF roundNum[Host] \in Rounds THEN roundNum[Host] ELSE 0
HostSeen  == IF roundNum[Host] \in Rounds THEN sheetsSeen[roundNum[Host]] ELSE NotLoaded
HostView  == RoundView(HostRound)

(* The host sees a sheet other than its own in its round.                  *)
HostFiled  == \E s \in FiledBy(Host) : s.number = roundNum[Host]
SeenOthers == HostSeen >= IF HostFiled THEN 2 ELSE 1

(* The host's count: never more than there are sheets, complete at most    *)
(* once in a round, and complete before the host moves on.                 *)
HostCount ==
    /\ HostRound = 0 => HostSeen = NotLoaded
    /\ HostSeen <= Cardinality(HostView)
    /\ AtMostOnce(mainq[Host])
    /\ AllCounted(mainq[Host]) => Top = roundNum[Host] /\ HostSeen = NumOfPlayers
    /\ Top = roundNum[Host] + 1 => roundNum[Host] = 0 \/ HostSeen = NumOfPlayers
    /\ CanRewind /\ SeenOthers =>
         \A i \in 1..Len(puts[Host]) : RoundAt(puts[Host], i) => puts[Host][i].value > roundNum[Host]

(* The invariant of the rounds, and the invariants it builds on.           *)
RoundsInv == HostWrites /\ RoundsAscend /\ HostLeads /\ FiledOnce /\ HostCount

Base == TypeOK /\ InGame /\ FilingInv /\ EventInv

(* The games the theorems are about: nobody taps Force Ending, and either  *)
(* the host never loses its connection (the others may, any number of      *)
(* times), or one connection is lost in the whole game, anybody's, and the *)
(* host does not play alone.  Otherwise a roundNum that is sent again can  *)
(* take the database back to an earlier round after it has moved on.       *)
SteadyGame ==
    /\ Forcers = {}
    /\ Host \in MayDisconnect /\ MaxDisconnects > 0 => MaxDisconnects = 1 /\ NumOfPlayers > 1

-----------------------------------------------------------------------------
(* Types, as facts about the host and a device.                            *)

(* What the type invariant says of the host, ...                           *)
LEMMA HostTypes ==
    ASSUME TypeOK
    PROVE  /\ Host \in Players /\ puts[Host] \in Seq(Put) /\ applied[Host] \in 0..Len(puts[Host])
           /\ Len(puts[Host]) \in Nat
           /\ dbRoundNum \in Nat /\ dbSheets \in SUBSET Sheet /\ IsFiniteSet(dbSheets)
           /\ roundNum[Host] \in Nat /\ roundSeen[Host] \in Int /\ roundSeen[Host] >= -1
           /\ roundObserved[Host] \in BOOLEAN /\ mainq[Host] \in Seq(Events)
           /\ HostRound \in Nat /\ Top \in Nat
           /\ screen[Host] \in {"Sheet", "Summary"} /\ disconnects \in Nat
<1>1. Host \in Players
  BY ConstantFacts
<1>2. /\ puts[Host] \in Seq(Put) /\ Len(puts[Host]) \in Nat /\ applied[Host] \in Nat /\ applied[Host] <= Len(puts[Host])
      /\ roundNum[Host] \in Nat /\ roundSeen[Host] \in Int /\ roundSeen[Host] >= -1
      /\ roundObserved[Host] \in BOOLEAN /\ mainq[Host] \in Seq(Events)
      /\ roundSeen[Host] \in Nat \/ roundSeen[Host] = NotLoaded
      /\ screen[Host] \in {"Sheet", "Summary"}
  BY <1>1 DEF TypeOK, StoreTypeOK, ControllerTypeOK, NotLoaded
<1>3. /\ dbRoundNum \in Nat /\ dbSheets \in SUBSET Sheet /\ IsFiniteSet(dbSheets)
      /\ disconnects \in Nat
  BY DisconnectsAssumption DEF TypeOK, StoreTypeOK
<1>4. Top \in Nat /\ HostRound \in Nat
  BY <1>2 DEF Top, HostRound
<1> QED
  BY <1>1, <1>2, <1>3, <1>4

(* ... of its count, ...                                                   *)
LEMMA HostSeenType ==
    ASSUME TypeOK, HostCountsItsRound
    PROVE  HostSeen \in Int /\ HostSeen >= -1
<1>1. roundNum[Host] \in Rounds => sheetsSeen[roundNum[Host]] \in Nat \cup {NotLoaded}
  BY DEF HostCountsItsRound, TypeOK, StoreTypeOK
<1> QED
  BY <1>1 DEF HostSeen, NotLoaded

(* The count and the round it belongs to stay the same.                    *)
LEMMA HostCountFrame ==
    ASSUME UNCHANGED <<roundNum, sheetsSeen>>
    PROVE  UNCHANGED <<HostRound, HostSeen>>
BY DEF HostRound, HostSeen

(* ... and of any device.                                                  *)
LEMMA DeviceTypes ==
    ASSUME TypeOK, NEW c \in Players
    PROVE  /\ puts[c] \in Seq(Put) /\ applied[c] \in 0..Len(puts[c]) /\ Len(puts[c]) \in Nat
           /\ roundNum[c] \in Nat /\ roundSeen[c] \in Int /\ roundObserved[c] \in BOOLEAN
           /\ mainq[c] \in Seq(Events) /\ Ceiling(c) \in Int
           /\ screen[c] \in {"Sheet", "Summary"}
<1>1. /\ puts[c] \in Seq(Put) /\ Len(puts[c]) \in Nat /\ applied[c] \in Nat /\ applied[c] <= Len(puts[c])
      /\ roundNum[c] \in Nat /\ roundSeen[c] \in Int
      /\ roundObserved[c] \in BOOLEAN /\ mainq[c] \in Seq(Events)
      /\ screen[c] \in {"Sheet", "Summary"} /\ dbRoundNum \in Nat
  BY DEF TypeOK, StoreTypeOK, ControllerTypeOK, NotLoaded
<1> QED
  BY <1>1 DEF Ceiling

-----------------------------------------------------------------------------
(* The sheets of a player, stored or outstanding.                          *)

(* The sheets of a queue, and what the host sees of round r.               *)
SheetsIn(q) == {q[i].value : i \in {j \in 1..Len(q) : SheetAt(q, j)}}
View(D, q, r) == {s \in D : s.number = r} \cup {s \in SheetsIn(q) : s.number = r}

(* The sheets of a device and of the host's view, in terms of its queue,   *)
(* ...                                                                     *)
LEMMA PendingAre ==
    /\ \A c : PendingSheets(c) = SheetsIn(puts[c])
    /\ \A c : FiledBy(c) = {s \in dbSheets : s.author = c} \cup SheetsIn(puts[c])
    /\ HostView = View(dbSheets, puts[Host], HostRound)
BY DEF PendingSheets, SheetPutIndices, SheetsIn, SheetAt, FiledBy, HostView, RoundView, View, SheetsOfRound

(* ... and the same for the next state.                                    *)
LEMMA PendingAreNext ==
    /\ \A c : FiledBy(c)' = {s \in dbSheets' : s.author = c} \cup SheetsIn(puts'[c])
    /\ HostView' = View(dbSheets', puts'[Host], HostRound')
BY DEF PendingSheets, SheetPutIndices, SheetsIn, SheetAt, FiledBy, HostView, RoundView, View, SheetsOfRound

(* The sheets of a queue when a write is added or acknowledged.            *)
LEMMA SheetsInQueue ==
    ASSUME NEW q \in Seq(Put)
    PROVE  /\ SheetsIn(q) \subseteq Sheet /\ IsFiniteSet(SheetsIn(q))
           /\ \A v : SheetsIn(Append(q, RoundPut(v))) = SheetsIn(q)
           /\ \A s : SheetsIn(Append(q, SheetPut(s))) = SheetsIn(q) \cup {s}
           /\ q # <<>> => SheetsIn(q) = SheetsIn(Tail(q)) \cup IF SheetAt(q, 1) THEN {q[1].value} ELSE {}
<1> DEFINE I == {j \in 1..Len(q) : SheetAt(q, j)}
<1>1. SheetsIn(q) \subseteq Sheet
  BY PutIs DEF SheetsIn
<1>2. IsFiniteSet(SheetsIn(q))
  <2>1. Len(q) \in Nat /\ 1 \in Int /\ Len(q) \in Int
    BY PutIs
  <2>2. IsFiniteSet(1..Len(q))
    BY <2>1, FS_Interval, Zenon
  <2>3. IsFiniteSet(I)
    BY <2>2, FS_Subset
  <2> DEFINE f == [i \in I |-> q[i].value]
  <2>4. f \in Surjection(I, SheetsIn(q))
    BY DEF Surjection, SheetsIn
  <2> HIDE DEF f, I
  <2> QED
    BY <2>3, <2>4, FS_Surjection
<1>3. ASSUME NEW v PROVE SheetsIn(Append(q, RoundPut(v))) = SheetsIn(q)
  <2> DEFINE t == Append(q, RoundPut(v))
  <2>1. /\ Len(q) \in Nat /\ Len(t) = Len(q) + 1 /\ t[Len(q) + 1] = RoundPut(v)
        /\ \A i \in 1..Len(q) : t[i] = q[i] /\ i \in 1..Len(t)
        /\ \A i \in 1..Len(t) : i \in 1..Len(q) \/ i = Len(q) + 1
    BY PutAppended
  <2>2. ~ SheetAt(t, Len(q) + 1)
    BY <2>1 DEF SheetAt, RoundPut
  <2> HIDE DEF t
  <2>3. SheetsIn(t) = SheetsIn(q)
    BY <2>1, <2>2 DEF SheetsIn, SheetAt
  <2> QED
    BY <2>3 DEF t
<1>4. ASSUME NEW s PROVE SheetsIn(Append(q, SheetPut(s))) = SheetsIn(q) \cup {s}
  <2> DEFINE t == Append(q, SheetPut(s))
             k == Len(q) + 1
  <2>1. /\ Len(q) \in Nat /\ Len(t) = k /\ t[k] = SheetPut(s) /\ k \in 1..Len(t)
        /\ \A i \in 1..Len(q) : t[i] = q[i] /\ i \in 1..Len(t)
        /\ \A i \in 1..Len(t) : i \in 1..Len(q) \/ i = k
    BY PutAppended
  <2>2. SheetAt(t, k) /\ t[k].value = s
    BY <2>1 DEF SheetAt, SheetPut
  <2> HIDE DEF t, k
  <2>3. SheetsIn(t) = SheetsIn(q) \cup {s}
    BY <2>1, <2>2 DEF SheetsIn, SheetAt
  <2> QED
    BY <2>3 DEF t
<1>5. ASSUME q # <<>>
      PROVE  SheetsIn(q) = SheetsIn(Tail(q)) \cup IF SheetAt(q, 1) THEN {q[1].value} ELSE {}
  <2> DEFINE t == Tail(q)
  <2>1. /\ Len(q) \in Nat /\ 1 \in 1..Len(q)
        /\ \A i \in 1..Len(t) : t[i] = q[i + 1] /\ i + 1 \in 1..Len(q)
        /\ \A i \in 1..Len(q) : i = 1 \/ (i - 1 \in 1..Len(t) /\ t[i - 1] = q[i])
    BY <1>5, PutDropped
  <2> HIDE DEF t
  <2>2. ASSUME NEW s \in SheetsIn(q) PROVE s \in SheetsIn(t) \/ (SheetAt(q, 1) /\ s = q[1].value)
    <3>1. PICK i \in 1..Len(q) : SheetAt(q, i) /\ s = q[i].value
      BY <2>2 DEF SheetsIn
    <3> QED
      BY <2>1, <3>1, SMTT(20) DEF SheetsIn, SheetAt
  <2>3. ASSUME NEW s \in SheetsIn(t) PROVE s \in SheetsIn(q)
    <3>1. PICK i \in 1..Len(t) : SheetAt(t, i) /\ s = t[i].value
      BY <2>3 DEF SheetsIn
    <3> QED
      BY <2>1, <3>1 DEF SheetsIn, SheetAt
  <2>4. SheetAt(q, 1) => q[1].value \in SheetsIn(q)
    BY <2>1 DEF SheetsIn
  <2> QED
    BY <2>2, <2>3, <2>4 DEF t
<1> QED
  BY <1>1, <1>2, <1>3, <1>4, <1>5

(* What the host sees can be counted.                                      *)
LEMMA ViewFinite ==
    ASSUME NEW q \in Seq(Put), NEW D \in SUBSET Sheet, IsFiniteSet(D), NEW r
    PROVE  View(D, q, r) \subseteq Sheet /\ IsFiniteSet(View(D, q, r)) /\ Cardinality(View(D, q, r)) \in Nat
<1>1. SheetsIn(q) \subseteq Sheet /\ IsFiniteSet(SheetsIn(q))
  BY SheetsInQueue
<1>2. IsFiniteSet({s \in D : s.number = r}) /\ IsFiniteSet({s \in SheetsIn(q) : s.number = r})
  BY <1>1, FS_Subset
<1>3. IsFiniteSet(View(D, q, r))
  BY <1>2, FS_Union DEF View
<1> QED
  BY <1>1, <1>3, FS_CardinalityType DEF View

(* Who files sheets: a device under its own player's number.               *)
LEMMA OwnSheets ==
    ASSUME TypeOK, DeliveredPutsStored, NEW c \in Players
    PROVE  /\ \A s \in SheetsIn(puts[c]) : s.author = c /\ s \in Sheet
           /\ \A s \in FiledBy(c) : s.author = c /\ s \in Sheet /\ s.number \in Nat
           /\ \A s \in dbSheets : s.author = c => s \in FiledBy(c)
           /\ SheetsIn(puts[c]) \subseteq FiledBy(c)
<1>1. puts[c] \in Seq(Put) /\ dbSheets \subseteq Sheet
  BY DeviceTypes DEF TypeOK, StoreTypeOK
<1>2. \A s \in SheetsIn(puts[c]) : s.author = c /\ s \in Sheet
  BY <1>1, SheetsInQueue DEF SheetsIn, DeliveredPutsStored, SheetPutIndices, SheetAt
<1>3. \A s \in Sheet : s.number \in Nat
  BY DEF Sheet
<1> QED
  BY <1>1, <1>2, <1>3, PendingAre

(* What the connection has delivered is stored, under the device's own     *)
(* player.                                                                 *)
LEMMA DeliveredIs ==
    ASSUME TypeOK, DeliveredPutsStored, NEW c \in Players
    PROVE  \A i \in 1..Len(puts[c]) : SheetAt(puts[c], i) =>
               /\ puts[c][i].value.author = c
               /\ i <= applied[c] => puts[c][i].value \in dbSheets
BY DEF DeliveredPutsStored, SheetPutIndices, SheetAt

(* The sheets the host sees of its round are of different players.         *)
LEMMA HostViewIs ==
    ASSUME TypeOK, DeliveredPutsStored, OneSheetPerRound
    PROVE  /\ HostView \subseteq Sheet /\ IsFiniteSet(HostView)
           /\ Cardinality(HostView) \in Nat /\ Cardinality(HostView) <= NumOfPlayers
           /\ Cardinality(HostView) = NumOfPlayers => \A p \in Players : \E s \in HostView : s.author = p
           /\ \A s \in HostView : /\ s.number = HostRound /\ s.author \in Players
                                  /\ s \in FiledBy(s.author)
                                  /\ s.author # Host => s \in dbSheets
           /\ OfDifferentAuthors(HostView)
<1>1. HostView = View(dbSheets, puts[Host], HostRound)
  BY PendingAre
<1>2. HostView \subseteq Sheet /\ IsFiniteSet(HostView)
  BY <1>1, HostTypes, ViewFinite
<1>3. ASSUME NEW s \in HostView
      PROVE  /\ s.number = HostRound /\ s.author \in Players
             /\ s \in FiledBy(s.author) /\ (s.author # Host => s \in dbSheets)
  <2>1. s.author \in Players
    BY <1>2 DEF Sheet
  <2>2. CASE s \in dbSheets
    BY <1>1, <2>1, <2>2, OwnSheets, HostTypes DEF View
  <2>3. CASE s \in SheetsIn(puts[Host])
    BY <1>1, <2>1, <2>3, OwnSheets, HostTypes DEF View
  <2> QED
    BY <1>1, <2>2, <2>3 DEF View
<1>4. OfDifferentAuthors(HostView)
  BY <1>3 DEF OfDifferentAuthors, OneSheetPerRound
<1>5. /\ Cardinality(HostView) \in Nat /\ Cardinality(HostView) <= NumOfPlayers
      /\ Cardinality(HostView) = NumOfPlayers => \A p \in Players : \E s \in HostView : s.author = p
  BY <1>2, <1>4, OneEach
<1> QED
  BY <1>2, <1>3, <1>4, <1>5

-----------------------------------------------------------------------------
(* The steps: saveSheet.                                                   *)

(* A sheet is saved.                                                       *)
LEMMA SaveEffect ==
    ASSUME TypeOK, HostCountsItsRound, NEW c \in Players, NEW s \in Sheet, SaveSheetEntry(c, s),
           UNCHANGED roundNum
    PROVE  /\ puts'[c] = Append(puts[c], SheetPut(s))
           /\ \A d \in Players \ {c} : puts'[d] = puts[d]
           /\ \A d \in Players \ {Host} : mainq'[d] = mainq[d]
           /\ UNCHANGED <<dbRoundNum, dbSheets, applied, roundObserved, roundSeen, HostRound, disconnects>>
           /\ IF c = Host /\ HostRound = s.number /\ HostSeen # NotLoaded
                THEN /\ HostSeen' = HostSeen + 1
                     /\ mainq'[Host] = Append(mainq[Host], Event("sheets", HostSeen + 1))
                ELSE HostSeen' = HostSeen /\ mainq'[Host] = mainq[Host]
<1>1. puts \in [Players -> Seq(Put)] /\ mainq \in [Players -> Seq(Events)]
  BY DEF TypeOK, StoreTypeOK
<1>2. /\ puts'[c] = Append(puts[c], SheetPut(s))
      /\ \A d \in Players \ {c} : puts'[d] = puts[d]
      /\ \A d \in Players \ {Host} : mainq'[d] = mainq[d]
      /\ UNCHANGED <<dbRoundNum, dbSheets, applied, roundObserved, roundSeen, disconnects>>
  BY <1>1, ConstantFacts DEF SaveSheetEntry, serverVars
<1>3. HostRound' = HostRound
  BY DEF HostRound
<1>4. DOMAIN sheetsSeen = IF HostRound = 0 THEN {} ELSE {HostRound}
  BY DEF HostCountsItsRound, HostRound, Rounds
<1>5. /\ HostSeen = IF HostRound = 0 THEN NotLoaded ELSE sheetsSeen[HostRound]
      /\ HostSeen' = IF HostRound = 0 THEN NotLoaded ELSE sheetsSeen'[HostRound]
  BY DEF HostSeen, HostRound, Rounds
<1>6. SheetsLoaded(s.number) <=> HostRound = s.number /\ HostSeen # NotLoaded
  BY <1>4, <1>5 DEF SheetsLoaded
<1>7. CASE c = Host /\ SheetsLoaded(s.number)
  <2>1. HostRound = s.number /\ HostRound # 0 /\ HostSeen = sheetsSeen[s.number] /\ HostSeen # NotLoaded
    BY <1>4, <1>5, <1>6, <1>7
  <2>2. /\ sheetsSeen' = [sheetsSeen EXCEPT ![s.number] = sheetsSeen[s.number] + 1]
        /\ mainq'[Host] = Append(mainq[Host], Event("sheets", sheetsSeen[s.number] + 1))
    BY <1>1, <1>7, ConstantFacts DEF SaveSheetEntry
  <2>3. HostSeen' = HostSeen + 1
    BY <1>4, <1>5, <2>1, <2>2
  <2> QED
    BY <1>2, <1>3, <1>7, <2>1, <2>2, <2>3
<1>8. CASE ~ (c = Host /\ SheetsLoaded(s.number))
  <2>1. sheetsSeen' = sheetsSeen /\ mainq' = mainq
    BY <1>8 DEF SaveSheetEntry
  <2>2. HostSeen' = HostSeen
    BY <1>5, <2>1
  <2> QED
    BY <1>2, <1>3, <1>6, <1>8, <2>1, <2>2
<1> QED
  BY <1>7, <1>8

(* A saved sheet is the first of its round, and joins the queue behind the *)
(* roundNum that opened the round.                                         *)
LEMMA SaveStep ==
    ASSUME Base, RoundsInv, NEW c \in Players, NEW s \in Sheet, SaveSheetEntry(c, s),
           s.author = c, s.number = roundNum[c], screen[c] = "Sheet",
           ~ isContentSaved[c], isContentSaved' = [isContentSaved EXCEPT ![c] = TRUE],
           UNCHANGED <<screen, roundNum>>
    PROVE  RoundsInv'
<1>0. TypeOK /\ DeliveredPutsStored /\ HostCountsItsRound /\ OneSheetPerRound
  BY DEF Base, FilingInv, EventInv, RoundsInv, FiledOnce
<1>1. /\ puts'[c] = Append(puts[c], SheetPut(s))
      /\ \A d \in Players \ {c} : puts'[d] = puts[d]
      /\ \A d \in Players \ {Host} : mainq'[d] = mainq[d]
      /\ UNCHANGED <<dbRoundNum, dbSheets, applied, roundObserved, roundSeen, HostRound, disconnects>>
      /\ IF c = Host /\ HostRound = s.number /\ HostSeen # NotLoaded
           THEN /\ HostSeen' = HostSeen + 1
                /\ mainq'[Host] = Append(mainq[Host], Event("sheets", HostSeen + 1))
           ELSE HostSeen' = HostSeen /\ mainq'[Host] = mainq[Host]
  BY <1>0, SaveEffect
<1>2. Top' = Top /\ CanRewind' = CanRewind /\ \A d \in Players : Ceiling(d)' = Ceiling(d)
  BY <1>1 DEF Top, CanRewind, Ceiling
<1>3. /\ puts[c] \in Seq(Put) /\ puts[Host] \in Seq(Put) /\ Host \in Players
      /\ dbRoundNum \in Nat /\ Top \in Nat /\ applied[Host] \in 0..Len(puts[Host]) /\ roundNum[Host] \in Nat
      /\ HostSeen \in Int /\ mainq[Host] \in Seq(Events) /\ NumOfPlayers \in Nat
  BY <1>0, HostTypes, HostSeenType, DeviceTypes, ConstantFacts
<1>4. HostWrites'
  <2>1. CASE c = Host
    <3>1. s.number <= Top
      BY <1>3, <2>1 DEF RoundsInv, HostLeads
    <3>2. Numbers(puts[Host], applied[Host], dbRoundNum, Top, CanRewind) /\ InOrder(puts[Host], dbRoundNum, dbSheets)
      BY DEF RoundsInv, HostWrites
    <3>3. /\ Numbers(Append(puts[Host], SheetPut(s)), applied[Host], dbRoundNum, Top, CanRewind)
          /\ InOrder(Append(puts[Host], SheetPut(s)), dbRoundNum, dbSheets)
      BY <1>3, <3>1, <3>2, QueueOfSheet, Zenon
    <3>4. puts'[Host] = Append(puts[Host], SheetPut(s))
      BY <1>1, <2>1
    <3>5. /\ Numbers(puts'[Host], applied[Host], dbRoundNum, Top, CanRewind)
          /\ InOrder(puts'[Host], dbRoundNum, dbSheets)
      BY <3>3, <3>4, Zenon
    <3> QED
      BY <1>1, <1>2, <2>1, <3>5 DEF RoundsInv, HostWrites
  <2>2. CASE c # Host
    <3>1. \A i \in 1..Len(puts'[c]) : SheetAt(puts'[c], i)
      <4> DEFINE t == Append(puts[c], SheetPut(s))
      <4>1. /\ t[Len(puts[c]) + 1] = SheetPut(s)
            /\ \A i \in 1..Len(puts[c]) : t[i] = puts[c][i]
            /\ \A i \in 1..Len(t) : i \in 1..Len(puts[c]) \/ i = Len(puts[c]) + 1
        BY <1>3, PutAppended
      <4> HIDE DEF t
      <4>2. \A i \in 1..Len(t) : SheetAt(t, i)
        BY <2>2, <4>1 DEF RoundsInv, HostWrites, SheetAt, SheetPut
      <4> QED
        BY <1>1, <4>2 DEF t
    <3>2. puts'[Host] = puts[Host]
      BY <1>1, <1>3, <2>2
    <3> QED
      BY <1>1, <1>2, <3>1, <3>2 DEF RoundsInv, HostWrites
  <2> QED
    BY <2>1, <2>2
<1>5. RoundsAscend'
  <2> SUFFICES ASSUME NEW d \in Players
               PROVE  Ascends(mainq'[d], roundNum[d], Ceiling(d))
    BY <1>1, <1>2 DEF RoundsInv, RoundsAscend
  <2>1. Ascends(mainq[d], roundNum[d], Ceiling(d)) /\ roundNum[d] \in Nat /\ Ceiling(d) \in Int
    BY <1>0, DeviceTypes DEF RoundsInv, RoundsAscend
  <2> QED
    BY <1>1, <1>3, <2>1, AscendsCount
<1>6. HostLeads'
  BY <1>1, <1>2 DEF RoundsInv, HostLeads
<1>7. \A t \in FiledBy(c) : t.number # roundNum[c]
  BY DEF RoundsInv, FiledOnce
<1>8. /\ FiledBy(c)' = FiledBy(c) \cup {s}
      /\ \A d \in Players \ {c} : FiledBy(d)' = FiledBy(d)
  <2>1. SheetsIn(puts'[c]) = SheetsIn(puts[c]) \cup {s}
    BY <1>1, <1>3, SheetsInQueue
  <2> QED
    BY <1>1, <2>1, PendingAre, PendingAreNext
<1>9. FiledOnce'
  <2>1. OneSheetPerRound'
    BY <1>7, <1>8 DEF OneSheetPerRound, RoundsInv, FiledOnce
  <2>2. ASSUME NEW d \in Players, NEW t \in FiledBy(d)'
        PROVE  /\ t.number <= roundNum'[d] /\ t.number <= NumOfRounds
               /\ t.number = roundNum'[d] /\ screen'[d] = "Sheet" => isContentSaved'[d]
    <3>1. roundNum[d] \in Nat
      BY <1>0, DeviceTypes
    <3>2. CASE d = c
      <4>1. isContentSaved'[c]
        BY <1>0 DEF TypeOK, ControllerTypeOK
      <4>2. t \in FiledBy(c) \/ t = s
        BY <1>8, <2>2, <3>2
      <4>3. s.number <= NumOfRounds
        BY DEF Base, InGame
      <4> QED
        BY <3>1, <3>2, <4>1, <4>2, <4>3 DEF RoundsInv, FiledOnce
    <3>3. CASE d # c
      <4>1. isContentSaved'[d] = isContentSaved[d] /\ t \in FiledBy(d)
        BY <1>0, <1>8, <2>2, <3>3 DEF TypeOK, ControllerTypeOK
      <4> QED
        BY <4>1 DEF RoundsInv, FiledOnce
    <3> QED
      BY <3>2, <3>3
  <2> QED
    BY <2>1, <2>2 DEF FiledOnce
<1>10. HostCount'
  <2>1. CASE c # Host
    <3>1. /\ puts'[Host] = puts[Host] /\ FiledBy(Host)' = FiledBy(Host)
          /\ HostSeen' = HostSeen /\ mainq'[Host] = mainq[Host]
      BY <1>1, <1>3, <1>8, <2>1
    <3>2. HostView' = HostView
      BY <1>1, <3>1, PendingAre, PendingAreNext
    <3>3. SeenOthers' = SeenOthers
      BY <3>1 DEF SeenOthers, HostFiled
    <3> QED
      BY <1>1, <1>2, <3>1, <3>2, <3>3 DEF RoundsInv, HostCount
  <2>2. CASE c = Host
    <3>1. HostView' = IF HostRound = s.number THEN HostView \cup {s} ELSE HostView
      <4>3. SheetsIn(Append(puts[Host], SheetPut(s))) = SheetsIn(puts[Host]) \cup {s}
        BY <1>3, SheetsInQueue, Zenon
      <4>4. puts'[Host] = Append(puts[Host], SheetPut(s))
        BY <1>1, <2>2
      <4>1. SheetsIn(puts'[Host]) = SheetsIn(puts[Host]) \cup {s}
        BY <4>3, <4>4, Zenon
      <4>2. HostView' = View(dbSheets, puts'[Host], HostRound)
        BY <1>1, PendingAreNext
      <4> QED
        BY <4>1, <4>2, PendingAre DEF View
    <3>2. /\ HostView \subseteq Sheet /\ IsFiniteSet(HostView) /\ Cardinality(HostView) \in Nat
          /\ OfDifferentAuthors(HostView)
          /\ \A t \in HostView : t.number = HostRound /\ t \in FiledBy(t.author)
      BY <1>0, HostViewIs
    <3>3. HostRound = s.number =>
            /\ Cardinality(HostView \cup {s}) = Cardinality(HostView) + 1
            /\ Cardinality(HostView \cup {s}) <= NumOfPlayers
      <4> SUFFICES ASSUME HostRound = s.number
                   PROVE  /\ Cardinality(HostView \cup {s}) = Cardinality(HostView) + 1
                          /\ Cardinality(HostView \cup {s}) <= NumOfPlayers
        OBVIOUS
      <4>1. \A t \in HostView : t.author # c
        BY <1>7, <3>2
      <4>2. s \notin HostView
        BY <4>1
      <4>3. OfDifferentAuthors(HostView \cup {s})
        BY <3>2, <4>1 DEF OfDifferentAuthors
      <4>4. Cardinality(HostView \cup {s}) = Cardinality(HostView) + 1 /\ IsFiniteSet(HostView \cup {s})
        BY <3>2, <4>2, FS_AddElement
      <4>5. HostView \cup {s} \in SUBSET Sheet
        BY <3>2
      <4> QED
        BY <4>3, <4>4, <4>5, OneEach
    <3>4. ~ HostFiled /\ HostFiled'
      BY <1>7, <1>8, <2>2 DEF HostFiled
    <3>5. ASSUME CanRewind, SeenOthers, NEW i \in 1..Len(puts'[Host]), RoundAt(puts'[Host], i)
          PROVE  puts'[Host][i].value > roundNum[Host]
      <4> DEFINE t == Append(puts[Host], SheetPut(s))
                 k == Len(puts[Host]) + 1
      <4>1. /\ t[k] = SheetPut(s)
            /\ \A j \in 1..Len(puts[Host]) : t[j] = puts[Host][j]
            /\ \A j \in 1..Len(t) : j \in 1..Len(puts[Host]) \/ j = k
        BY <1>3, PutAppended
      <4>2. puts'[Host] = t
        BY <1>1, <2>2
      <4> HIDE DEF t, k
      <4>3. i \in 1..Len(puts[Host]) /\ t[i] = puts[Host][i] /\ RoundAt(puts[Host], i)
        BY <3>5, <4>1, <4>2 DEF RoundAt, SheetPut
      <4> QED
        BY <3>5, <4>2, <4>3 DEF RoundsInv, HostCount
    <3>6. CASE HostRound = s.number /\ HostSeen # NotLoaded
      <4>1. HostSeen' = HostSeen + 1 /\ mainq'[Host] = Append(mainq[Host], Event("sheets", HostSeen + 1))
        BY <1>1, <2>2, <3>6
      <4>2. HostSeen' <= Cardinality(HostView')
        BY <1>3, <3>1, <3>2, <3>3, <3>6, <4>1 DEF RoundsInv, HostCount
      <4>3. HostSeen < NumOfPlayers
        BY <1>3, <3>2, <3>3, <3>6 DEF RoundsInv, HostCount
      <4>4. HostRound # 0 /\ ~ AllCounted(mainq[Host]) /\ Top = roundNum[Host]
        BY <1>3, <2>2, <3>6, <4>3 DEF RoundsInv, HostCount, HostLeads
      <4>5. AtMostOnce(mainq'[Host]) /\ (AllCounted(mainq'[Host]) => HostSeen' = NumOfPlayers)
        BY <1>3, <4>1, <4>4, CountAdded DEF RoundsInv, HostCount
      <4>6. SeenOthers' => SeenOthers
        BY <1>3, <3>4, <4>1 DEF SeenOthers
      <4>7. Top # roundNum[Host] + 1
        BY <1>3, <4>4
      <4> QED
        BY <1>1, <1>2, <3>5, <4>2, <4>4, <4>5, <4>6, <4>7 DEF HostCount
    <3>7. CASE ~ (HostRound = s.number /\ HostSeen # NotLoaded)
      <4>1. HostSeen' = HostSeen /\ mainq'[Host] = mainq[Host]
        BY <1>1, <3>7
      <4>2. HostSeen' <= Cardinality(HostView')
        BY <1>3, <3>1, <3>2, <3>3, <4>1 DEF RoundsInv, HostCount
      <4>3. SeenOthers' => SeenOthers
        BY <1>3, <3>4, <4>1 DEF SeenOthers
      <4> QED
        BY <1>1, <1>2, <3>5, <4>1, <4>2, <4>3 DEF RoundsInv, HostCount
    <3> QED
      BY <3>6, <3>7
  <2> QED
    BY <2>1, <2>2
<1> QED
  BY <1>4, <1>5, <1>6, <1>9, <1>10 DEF RoundsInv

(* Steps that touch neither the store nor the round of a device.           *)
LEMMA FrameStep ==
    ASSUME RoundsInv, UNCHANGED storeVars, UNCHANGED <<screen, roundNum, isContentSaved>>
    PROVE  RoundsInv'
<1>1. /\ UNCHANGED <<dbRoundNum, dbSheets, puts, applied, roundObserved, roundSeen, HostRound, HostSeen>>
      /\ UNCHANGED <<mainq, disconnects, screen, roundNum, isContentSaved>>
  BY HostCountFrame DEF storeVars
<1>2. Top' = Top /\ CanRewind' = CanRewind /\ \A c : Ceiling(c)' = Ceiling(c)
  BY <1>1 DEF Top, CanRewind, Ceiling
<1>3. HostView' = HostView /\ \A c : FiledBy(c)' = FiledBy(c)
  BY <1>1, PendingAre, PendingAreNext
<1>4. HostWrites' /\ RoundsAscend' /\ HostLeads'
  BY <1>1, <1>2 DEF RoundsInv, HostWrites, RoundsAscend, HostLeads
<1>5. FiledOnce'
  BY <1>1, <1>3 DEF RoundsInv, FiledOnce, OneSheetPerRound
<1>6. HostCount'
  <2>1. SeenOthers' = SeenOthers
    BY <1>1, <1>3 DEF SeenOthers, HostFiled
  <2> QED
    BY <1>1, <1>2, <1>3, <2>1 DEF RoundsInv, HostCount
<1> QED
  BY <1>4, <1>5, <1>6 DEF RoundsInv

(* saveSheet, on a device that shows a sheet.                              *)
LEMMA SaveSheetStep ==
    ASSUME Base, RoundsInv, NEW c \in Players, SaveSheet(c),
           screen[c] = "Sheet", shownView[c] \in SheetViews, UNCHANGED <<screen, roundNum>>
    PROVE  RoundsInv'
<1>1. CASE AlreadySaved(c)
  BY <1>1, FrameStep DEF SaveSheet
<1>2. CASE ~ AlreadySaved(c)
  <2> DEFINE s == [author |-> c, number |-> roundNum[c], kind |-> shownView[c], id |-> saves[c]]
  <2>1. s \in Sheet /\ s.author = c /\ s.number = roundNum[c]
    BY DEF Base, TypeOK, ControllerTypeOK, Sheet, Kinds, SheetViews
  <2>2. SaveSheetEntry(c, s) /\ isContentSaved' = [isContentSaved EXCEPT ![c] = TRUE] /\ ~ isContentSaved[c]
    BY <1>2 DEF SaveSheet, AlreadySaved
  <2> HIDE DEF s
  <2> QED
    BY <2>1, <2>2, SaveStep
<1> QED
  BY <1>1, <1>2

-----------------------------------------------------------------------------
(* The connection.                                                         *)

(* The sheets filed, and what is seen of them, are the same when a         *)
(* delivered write is acknowledged.                                        *)
LEMMA AckEffect ==
    ASSUME TypeOK, DeliveredPutsStored, NEW c \in Players, AckPut(c), UNCHANGED roundNum
    PROVE  /\ puts[c] # <<>> /\ puts'[c] = Tail(puts[c]) /\ applied'[c] = applied[c] - 1
           /\ applied[c] \in 1..Len(puts[c])
           /\ \A d \in Players \ {c} : puts'[d] = puts[d] /\ applied'[d] = applied[d]
           /\ UNCHANGED <<dbRoundNum, dbSheets, roundObserved, roundSeen, HostRound, HostSeen>>
           /\ UNCHANGED <<mainq, disconnects>>
           /\ \A d \in Players : FiledBy(d)' = FiledBy(d)
           /\ HostView' = HostView
<1>1. /\ puts[c] \in Seq(Put) /\ applied[c] \in 0..Len(puts[c]) /\ Len(puts[c]) \in Nat
      /\ applied[c] > 0 /\ puts' = [puts EXCEPT ![c] = Tail(@)] /\ applied' = [applied EXCEPT ![c] = @ - 1]
      /\ puts \in [Players -> Seq(Put)] /\ applied \in [Players -> Nat]
  BY DeviceTypes DEF AckPut, TypeOK, StoreTypeOK
<1>2. /\ puts'[c] = Tail(puts[c]) /\ applied'[c] = applied[c] - 1
      /\ \A d \in Players \ {c} : puts'[d] = puts[d] /\ applied'[d] = applied[d]
  BY <1>1
<1>3. /\ UNCHANGED <<dbRoundNum, dbSheets, roundObserved, roundSeen, HostRound, HostSeen>>
      /\ UNCHANGED <<mainq, disconnects>>
  BY HostCountFrame DEF AckPut, serverVars, listenVars
<1>4. puts[c] # <<>> /\ applied[c] \in 1..Len(puts[c]) /\ 1 \in 1..Len(puts[c])
  BY <1>1
<1>5. SheetAt(puts[c], 1) => puts[c][1].value \in dbSheets /\ puts[c][1].value.author = c
  BY <1>1, <1>4, DeliveredIs
<1>6. SheetsIn(puts[c]) = SheetsIn(Tail(puts[c])) \cup IF SheetAt(puts[c], 1) THEN {puts[c][1].value} ELSE {}
  BY <1>1, <1>4, SheetsInQueue, Zenon
<1>7. \A d \in Players : FiledBy(d)' = FiledBy(d)
  <2>1. FiledBy(c)' = FiledBy(c)
    BY <1>2, <1>3, <1>5, <1>6, PendingAre, PendingAreNext
  <2> QED
    BY <1>2, <1>3, <2>1, PendingAre, PendingAreNext
<1>8. HostView' = HostView
  <2>1. CASE c = Host
    BY <1>2, <1>3, <1>5, <1>6, <2>1, PendingAre, PendingAreNext DEF View
  <2>2. CASE c # Host
    <3>1. puts'[Host] = puts[Host]
      BY <1>2, <2>2, ConstantFacts
    <3> QED
      BY <1>3, <3>1, PendingAre, PendingAreNext
  <2> QED
    BY <2>1, <2>2
<1> QED
  BY <1>2, <1>3, <1>4, <1>7, <1>8

(* An acknowledgement takes a write off the queue that the database has.   *)
LEMMA AckStep ==
    ASSUME Base, RoundsInv, NEW c \in Players, AckPut(c), UNCHANGED <<screen, roundNum, isContentSaved>>
    PROVE  RoundsInv'
<1>0. TypeOK /\ DeliveredPutsStored
  BY DEF Base, FilingInv
<1>1. /\ puts[c] # <<>> /\ puts'[c] = Tail(puts[c]) /\ applied'[c] = applied[c] - 1
      /\ applied[c] \in 1..Len(puts[c])
      /\ \A d \in Players \ {c} : puts'[d] = puts[d] /\ applied'[d] = applied[d]
      /\ UNCHANGED <<dbRoundNum, dbSheets, roundObserved, roundSeen, HostRound, HostSeen>>
      /\ UNCHANGED <<mainq, disconnects>>
      /\ \A d \in Players : FiledBy(d)' = FiledBy(d)
      /\ HostView' = HostView
  BY <1>0, AckEffect
<1>2. Top' = Top /\ CanRewind' = CanRewind /\ \A d \in Players : Ceiling(d)' = Ceiling(d)
  BY <1>1 DEF Top, CanRewind, Ceiling
<1>3. /\ puts[c] \in Seq(Put) /\ puts[Host] \in Seq(Put) /\ Host \in Players
      /\ dbRoundNum \in Nat /\ Top \in Nat /\ Len(puts[c]) \in Nat
  BY <1>0, HostTypes, DeviceTypes
<1>4. \A i \in 1..Len(puts'[c]) : i + 1 \in 1..Len(puts[c]) /\ puts'[c][i] = puts[c][i + 1]
  BY <1>1, <1>3, PutDropped
<1>5. HostWrites'
  <2>1. CASE c = Host
    <3>1. Numbers(puts[Host], applied[Host], dbRoundNum, Top, CanRewind) /\ InOrder(puts[Host], dbRoundNum, dbSheets)
      BY DEF RoundsInv, HostWrites
    <3>2. Delivered(puts[Host], applied[Host], dbSheets) /\ applied[Host] \in 1..Len(puts[Host])
      BY <1>0, <1>1, <1>3, <2>1, DeliveredIs DEF Delivered
    <3>3. /\ Numbers(Tail(puts[Host]), applied[Host] - 1, dbRoundNum, Top, CanRewind)
          /\ InOrder(Tail(puts[Host]), dbRoundNum, dbSheets)
      BY <1>3, <3>1, <3>2, WriteAcknowledged, Zenon
    <3>4. puts'[Host] = Tail(puts[Host]) /\ applied'[Host] = applied[Host] - 1
      BY <1>1, <2>1
    <3>5. Numbers(puts'[Host], applied'[Host], dbRoundNum, Top, CanRewind) /\ InOrder(puts'[Host], dbRoundNum, dbSheets)
      BY <3>3, <3>4, Zenon
    <3> QED
      BY <1>1, <1>2, <2>1, <3>5 DEF RoundsInv, HostWrites
  <2>2. CASE c # Host
    <3>1. \A i \in 1..Len(puts'[c]) : SheetAt(puts'[c], i)
      BY <1>4, <2>2 DEF RoundsInv, HostWrites, SheetAt
    <3>2. puts'[Host] = puts[Host] /\ applied'[Host] = applied[Host]
      BY <1>1, <1>3, <2>2
    <3> QED
      BY <1>1, <1>2, <3>1, <3>2 DEF RoundsInv, HostWrites
  <2> QED
    BY <2>1, <2>2
<1>6. RoundsAscend' /\ HostLeads'
  BY <1>1, <1>2 DEF RoundsInv, RoundsAscend, HostLeads
<1>7. FiledOnce'
  BY <1>1 DEF RoundsInv, FiledOnce, OneSheetPerRound
<1>8. HostCount'
  <2>1. SeenOthers' = SeenOthers
    BY <1>1, <1>3 DEF SeenOthers, HostFiled
  <2>2. ASSUME CanRewind, SeenOthers, NEW i \in 1..Len(puts'[Host]), RoundAt(puts'[Host], i)
        PROVE  puts'[Host][i].value > roundNum[Host]
    <3>1. CASE c = Host
      BY <1>4, <2>2, <3>1 DEF RoundsInv, HostCount, RoundAt
    <3>2. CASE c # Host
      BY <1>1, <1>3, <2>2, <3>2 DEF RoundsInv, HostCount
    <3> QED
      BY <3>1, <3>2
  <2> QED
    BY <1>1, <1>2, <2>1, <2>2 DEF RoundsInv, HostCount
<1> QED
  BY <1>5, <1>6, <1>7, <1>8 DEF RoundsInv

(* A lost connection: the writes of another device hold no roundNum, and   *)
(* the host, while its connection may still be lost, has at most one       *)
(* outstanding, so the database goes back at most to the value it has.     *)
LEMMA DisconnectStep ==
    ASSUME SteadyGame, Base, RoundsInv, NEW c \in Players, Disconnect(c),
           UNCHANGED <<screen, roundNum, isContentSaved>>
    PROVE  RoundsInv'
<1>0. TypeOK
  BY DEF Base
<1>1. /\ applied'[c] = 0 /\ \A d \in Players \ {c} : applied'[d] = applied[d]
      /\ UNCHANGED <<dbRoundNum, dbSheets, puts, roundObserved, roundSeen, HostRound, HostSeen, mainq>>
      /\ disconnects' = disconnects + 1 /\ disconnects \in Nat /\ disconnects < MaxDisconnects
      /\ c \in MayDisconnect /\ MaxDisconnects \in Nat
  BY <1>0, HostTypes, HostCountFrame, DisconnectsAssumption
     DEF Disconnect, serverVars, listenVars, TypeOK, StoreTypeOK
<1>2. Top' = Top /\ (CanRewind' => CanRewind) /\ \A d \in Players : Ceiling(d)' = Ceiling(d)
  BY <1>1 DEF Top, CanRewind, Ceiling
<1>3. /\ puts[Host] \in Seq(Put) /\ Host \in Players /\ applied[Host] \in 0..Len(puts[Host])
      /\ dbRoundNum \in Nat /\ Top \in Nat
  BY <1>0, HostTypes
<1>4. Numbers(puts[Host], applied[Host], dbRoundNum, Top, CanRewind)
  BY DEF RoundsInv, HostWrites
<1>5. Numbers(puts'[Host], applied'[Host], dbRoundNum', Top', CanRewind')
  <2>1. CASE c = Host
    <3>1. CanRewind /\ ~ CanRewind'
      BY <1>1, <2>1 DEF CanRewind, SteadyGame
    <3>2. Numbers(puts[Host], 0, dbRoundNum, Top, CanRewind')
      <4> DEFINE rew == CanRewind
                 again == CanRewind'
      <4>1. rew /\ ~ again /\ Numbers(puts[Host], applied[Host], dbRoundNum, Top, rew)
        BY <1>4, <3>1
      <4> HIDE DEF rew, again
      <4>2. Numbers(puts[Host], 0, dbRoundNum, Top, again)
        BY <1>3, <4>1, WritesRewound, Zenon
      <4> QED
        BY <4>2 DEF again
    <3> QED
      BY <1>1, <1>2, <2>1, <3>2
  <2>2. CASE c # Host
    <3>1. applied'[Host] = applied[Host]
      BY <1>1, <1>3, <2>2
    <3>2. Numbers(puts[Host], applied[Host], dbRoundNum, Top, CanRewind')
      <4> DEFINE rew == CanRewind
                 again == CanRewind'
      <4>1. (again => rew) /\ Numbers(puts[Host], applied[Host], dbRoundNum, Top, rew)
        BY <1>2, <1>4
      <4> HIDE DEF rew, again
      <4>2. Numbers(puts[Host], applied[Host], dbRoundNum, Top, again)
        BY <4>1, NoRewind, Zenon
      <4> QED
        BY <4>2 DEF again
    <3> QED
      BY <1>1, <1>2, <3>1, <3>2
  <2> QED
    BY <2>1, <2>2
<1>6. HostWrites'
  BY <1>1, <1>5 DEF RoundsInv, HostWrites
<1>7. RoundsAscend' /\ HostLeads'
  BY <1>1, <1>2 DEF RoundsInv, RoundsAscend, HostLeads
<1>8. HostView' = HostView /\ \A d : FiledBy(d)' = FiledBy(d)
  BY <1>1, PendingAre, PendingAreNext
<1>9. FiledOnce'
  BY <1>1, <1>8 DEF RoundsInv, FiledOnce, OneSheetPerRound
<1>10. HostCount'
  <2>1. SeenOthers' = SeenOthers
    BY <1>1, <1>8 DEF SeenOthers, HostFiled
  <2> QED
    BY <1>1, <1>2, <1>8, <2>1 DEF RoundsInv, HostCount
<1> QED
  BY <1>6, <1>7, <1>9, <1>10 DEF RoundsInv

(* A write reaches the database: the sheets filed stay the same, and the   *)
(* host may see one more.                                                  *)
LEMMA ApplyEffect ==
    ASSUME TypeOK, DeliveredPutsStored, NEW c \in Players, ApplyPut(c), UNCHANGED roundNum
    PROVE  /\ applied[c] < Len(puts[c]) /\ applied[c] + 1 \in 1..Len(puts[c])
           /\ applied'[c] = applied[c] + 1 /\ \A d \in Players \ {c} : applied'[d] = applied[d]
           /\ UNCHANGED <<puts, roundObserved, roundSeen, HostRound, HostSeen, mainq, disconnects>>
           /\ \/ RoundAt(puts[c], applied[c] + 1) /\ dbRoundNum' = puts[c][applied[c] + 1].value /\ dbSheets' = dbSheets
              \/ /\ SheetAt(puts[c], applied[c] + 1) /\ ~ RoundAt(puts[c], applied[c] + 1) /\ dbRoundNum' = dbRoundNum
                 /\ dbSheets' = dbSheets \cup {puts[c][applied[c] + 1].value}
                 /\ puts[c][applied[c] + 1].value \in FiledBy(c)
                 /\ puts[c][applied[c] + 1].value.author = c
           /\ \A d \in Players : FiledBy(d)' = FiledBy(d)
           /\ Cardinality(HostView) \in Nat /\ Cardinality(HostView') \in Nat
           /\ Cardinality(HostView) <= Cardinality(HostView')
<1> DEFINE k == applied[c] + 1
           x == puts[c][k].value
<1>1. /\ puts[c] \in Seq(Put) /\ applied[c] \in 0..Len(puts[c]) /\ Len(puts[c]) \in Nat
      /\ applied[c] < Len(puts[c]) /\ applied' = [applied EXCEPT ![c] = @ + 1]
      /\ applied \in [Players -> Nat]
  BY DeviceTypes DEF ApplyPut, TypeOK, StoreTypeOK
<1>2. applied'[c] = k /\ \A d \in Players \ {c} : applied'[d] = applied[d]
  BY <1>1
<1>3. UNCHANGED <<puts, roundObserved, roundSeen, HostRound, HostSeen, mainq, disconnects>>
  BY HostCountFrame DEF ApplyPut, listenVars
<1>4. k \in 1..Len(puts[c])
  BY <1>1
<1>5. /\ RoundAt(puts[c], k) \/ SheetAt(puts[c], k)
      /\ ~ (RoundAt(puts[c], k) /\ SheetAt(puts[c], k))
      /\ SheetAt(puts[c], k) => x \in Sheet /\ x.author = c /\ x \in SheetsIn(puts[c])
  BY <1>1, <1>4, PutIs, DeliveredIs DEF SheetsIn
<1>6. /\ RoundAt(puts[c], k) => dbRoundNum' = x /\ dbSheets' = dbSheets
      /\ SheetAt(puts[c], k) => dbRoundNum' = dbRoundNum /\ dbSheets' = dbSheets \cup {x}
  BY <1>5 DEF ApplyPut, RoundAt, SheetAt
<1> HIDE DEF k, x
<1>7. SheetAt(puts[c], k) => x \in FiledBy(c)
  BY <1>5, OwnSheets
<1>8. \A d \in Players : FiledBy(d)' = FiledBy(d)
  <2>1. CASE RoundAt(puts[c], k)
    BY <1>3, <1>6, <2>1, PendingAre, PendingAreNext
  <2>2. CASE SheetAt(puts[c], k)
    BY <1>3, <1>5, <1>6, <2>2, PendingAre, PendingAreNext
  <2> QED
    BY <1>5, <2>1, <2>2
<1>9. /\ Cardinality(HostView) \in Nat /\ Cardinality(HostView') \in Nat
      /\ Cardinality(HostView) <= Cardinality(HostView')
  <2>1. dbSheets' \in SUBSET Sheet /\ IsFiniteSet(dbSheets') /\ dbSheets \subseteq dbSheets' /\ puts[Host] \in Seq(Put)
    BY <1>5, <1>6, HostTypes, FS_AddElement, SMTT(20)
  <2>2. /\ HostView' = View(dbSheets', puts[Host], HostRound)
        /\ HostView = View(dbSheets, puts[Host], HostRound)
    BY <1>3, PendingAre, PendingAreNext
  <2>3. HostView \subseteq HostView'
    BY <2>1, <2>2 DEF View
  <2>4. IsFiniteSet(HostView') /\ Cardinality(HostView') \in Nat
    BY <2>1, <2>2, ViewFinite
  <2>5. Cardinality(HostView) \in Nat
    BY <2>2, HostTypes, ViewFinite
  <2> QED
    BY <2>3, <2>4, <2>5, FS_Subset
<1> QED
  BY <1>1, <1>2, <1>3, <1>4, <1>5, <1>6, <1>7, <1>8, <1>9 DEF k, x

(* What reaches the database keeps its rounds in order.                    *)
LEMMA ApplyWrites ==
    ASSUME Base, RoundsInv, NEW c \in Players, ApplyPut(c), UNCHANGED roundNum
    PROVE  /\ HostWrites' /\ dbRoundNum' \in {dbRoundNum, dbRoundNum + 1}
           /\ dbRoundNum' # dbRoundNum => /\ c = Host /\ RoundAt(puts[c], applied[c] + 1) /\ dbSheets' = dbSheets
                                          /\ dbRoundNum \in Rounds /\ Database(dbRoundNum + 1, dbSheets)
<1> DEFINE k == applied[c] + 1
           x == puts[c][k].value
<1>0. TypeOK /\ DeliveredPutsStored
  BY DEF Base, FilingInv
<1>1. /\ applied[c] < Len(puts[c]) /\ k \in 1..Len(puts[c])
      /\ applied'[c] = k /\ \A d \in Players \ {c} : applied'[d] = applied[d]
      /\ UNCHANGED <<puts, roundObserved, roundSeen, disconnects>>
      /\ \/ RoundAt(puts[c], k) /\ dbRoundNum' = x /\ dbSheets' = dbSheets
         \/ /\ SheetAt(puts[c], k) /\ ~ RoundAt(puts[c], k) /\ dbRoundNum' = dbRoundNum /\ dbSheets' = dbSheets \cup {x}
            /\ x \in FiledBy(c)
  BY <1>0, ApplyEffect
<1>2. Top' = Top /\ CanRewind' = CanRewind
  BY <1>1 DEF Top, CanRewind
<1>3. /\ puts[Host] \in Seq(Put) /\ Host \in Players /\ applied[Host] \in 0..Len(puts[Host])
      /\ dbSheets \in SUBSET Sheet /\ dbRoundNum \in Nat /\ Top \in Nat /\ roundNum[c] \in Nat
  BY <1>0, HostTypes, DeviceTypes
<1>4. /\ Numbers(puts[Host], applied[Host], dbRoundNum, Top, CanRewind)
      /\ InOrder(puts[Host], dbRoundNum, dbSheets) /\ Database(dbRoundNum, dbSheets)
      /\ \A d \in Players \ {Host} : \A i \in 1..Len(puts[d]) : SheetAt(puts[d], i)
  BY DEF RoundsInv, HostWrites
<1>5. Delivered(puts[Host], applied[Host], dbSheets)
  BY <1>0, <1>3, DeliveredIs DEF Delivered
<1>6. CASE c = Host /\ RoundAt(puts[c], k)
  <2> DEFINE q == puts[Host]
             n == applied[Host]
             D == dbSheets
             db == dbRoundNum
             top == Top
             rew == CanRewind
  <2>1. /\ q \in Seq(Put) /\ n \in 0..Len(q) /\ db \in Nat /\ D \in SUBSET Sheet /\ top \in Nat
        /\ Numbers(q, n, db, top, rew) /\ InOrder(q, db, D) /\ Database(db, D) /\ Delivered(q, n, D)
        /\ n < Len(q) /\ RoundAt(q, n + 1)
    BY <1>1, <1>3, <1>4, <1>5, <1>6 DEF k
  <2> HIDE DEF q, n, D, db, top, rew
  <2>2. /\ q[n + 1].value \in Nat /\ q[n + 1].value - 1 \in Rounds /\ q[n + 1].value \in {db, db + 1}
        /\ Numbers(q, n + 1, q[n + 1].value, top, rew) /\ InOrder(q, q[n + 1].value, D) /\ Database(q[n + 1].value, D)
    BY <2>1, RoundApplied, Zenon
  <2>3. dbRoundNum' = q[n + 1].value /\ dbSheets' = D /\ applied'[Host] = n + 1 /\ puts'[Host] = q
    BY <1>1, <1>6 DEF q, n, k, x, D
  <2>4. HostWrites'
    BY <1>1, <1>2, <1>4, <2>2, <2>3 DEF HostWrites, top, rew
  <2>5. dbRoundNum' # dbRoundNum => dbRoundNum' = dbRoundNum + 1 /\ dbRoundNum \in Rounds
    BY <1>3, <2>2, <2>3 DEF db
  <2> QED
    BY <1>6, <2>2, <2>3, <2>4, <2>5 DEF db, D, k
<1>7. CASE c = Host /\ SheetAt(puts[c], k) /\ ~ RoundAt(puts[c], k)
  <2> DEFINE q == puts[Host]
             n == applied[Host]
             D == dbSheets
             db == dbRoundNum
             top == Top
             rew == CanRewind
  <2>1. /\ q \in Seq(Put) /\ n \in 0..Len(q) /\ db \in Nat /\ top \in Nat
        /\ Numbers(q, n, db, top, rew) /\ InOrder(q, db, D) /\ Database(db, D)
        /\ n < Len(q) /\ SheetAt(q, n + 1)
    BY <1>1, <1>3, <1>4, <1>5, <1>7 DEF k
  <2> HIDE DEF q, n, D, db, top, rew
  <2>2. /\ Numbers(q, n + 1, db, top, rew) /\ InOrder(q, db, D \cup {q[n + 1].value})
        /\ Database(db, D \cup {q[n + 1].value})
    BY <2>1, SheetApplied, Zenon
  <2>3. dbRoundNum' = db /\ dbSheets' = D \cup {q[n + 1].value} /\ applied'[Host] = n + 1 /\ puts'[Host] = q
    BY <1>1, <1>7 DEF q, n, k, x, D, db
  <2>4. HostWrites'
    BY <1>1, <1>2, <1>4, <2>2, <2>3 DEF HostWrites, top, rew
  <2> QED
    BY <2>3, <2>4 DEF db
<1>8. CASE c # Host
  <2>1. SheetAt(puts[c], k)
    BY <1>1, <1>4, <1>8
  <2>2. /\ ~ RoundAt(puts[c], k) /\ dbRoundNum' = dbRoundNum /\ dbSheets' = dbSheets \cup {x} /\ x \in FiledBy(c)
    BY <1>1, <2>1 DEF SheetAt, RoundAt
  <2>3. x.number \in Nat
    BY <1>0, <2>2, OwnSheets
  <2>4. x.number <= dbRoundNum
    BY <1>3, <1>8, <2>2, <2>3 DEF RoundsInv, FiledOnce, RoundsAscend
  <2>5. InOrder(puts[Host], dbRoundNum, dbSheets \cup {x}) /\ Database(dbRoundNum, dbSheets \cup {x})
    BY <1>3, <1>4, <2>4, SheetStored, Zenon
  <2>6. applied'[Host] = applied[Host] /\ puts' = puts
    BY <1>1, <1>3, <1>8
  <2>7. HostWrites'
    BY <1>2, <1>4, <2>2, <2>5, <2>6 DEF HostWrites
  <2> QED
    BY <2>2, <2>7
<1> QED
  BY <1>1, <1>6, <1>7, <1>8

(* A write reaches the database.                                           *)
LEMMA ApplyStep ==
    ASSUME Base, RoundsInv, NEW c \in Players, ApplyPut(c), UNCHANGED <<screen, roundNum, isContentSaved>>
    PROVE  RoundsInv'
<1>0. TypeOK /\ DeliveredPutsStored
  BY DEF Base, FilingInv
<1>1. /\ UNCHANGED <<puts, roundObserved, roundSeen, HostRound, HostSeen, mainq, disconnects>>
      /\ \A d \in Players : FiledBy(d)' = FiledBy(d)
      /\ Cardinality(HostView) \in Nat /\ Cardinality(HostView') \in Nat
      /\ Cardinality(HostView) <= Cardinality(HostView')
  BY <1>0, ApplyEffect
<1>2. HostWrites' /\ dbRoundNum' \in {dbRoundNum, dbRoundNum + 1}
  BY ApplyWrites
<1>3. /\ Host \in Players /\ dbRoundNum \in Nat /\ dbRoundNum' \in Nat /\ dbRoundNum <= dbRoundNum'
      /\ HostSeen \in Int
  BY <1>0, <1>2, HostTypes, HostSeenType DEF Base, EventInv
<1>4. Top' = Top /\ CanRewind' = CanRewind
  BY <1>1 DEF Top, CanRewind
<1>5. RoundsAscend'
  <2> SUFFICES ASSUME NEW d \in Players
               PROVE  /\ Ascends(mainq[d], roundNum[d], Ceiling(d)')
                      /\ d # Host => roundSeen[d] <= dbRoundNum' /\ roundNum[d] <= dbRoundNum'
    BY <1>1 DEF RoundsInv, RoundsAscend
  <2>1. /\ mainq[d] \in Seq(Events) /\ roundNum[d] \in Nat /\ roundSeen[d] \in Int /\ Ceiling(d) \in Int
    BY <1>0, DeviceTypes
  <2>2. /\ Ascends(mainq[d], roundNum[d], Ceiling(d))
        /\ d # Host => roundSeen[d] <= dbRoundNum /\ roundNum[d] <= dbRoundNum
    BY DEF RoundsInv, RoundsAscend
  <2>3. Ceiling(d)' \in Int /\ Ceiling(d) <= Ceiling(d)'
    BY <1>1, <1>3, <2>1 DEF Ceiling
  <2>4. Ascends(mainq[d], roundNum[d], Ceiling(d)')
    <3> DEFINE h == Ceiling(d)'
               hi == Ceiling(d)
    <3>1. h \in Int /\ hi \in Int /\ hi <= h /\ Ascends(mainq[d], roundNum[d], hi)
      BY <2>1, <2>2, <2>3
    <3> HIDE DEF h, hi
    <3>2. Ascends(mainq[d], roundNum[d], h)
      BY <2>1, <3>1, AscendsHigher, Zenon
    <3> QED
      BY <3>2 DEF h
  <2> QED
    BY <1>3, <2>1, <2>2, <2>4
<1>6. HostLeads'
  BY <1>1, <1>3, <1>4 DEF RoundsInv, HostLeads
<1>7. FiledOnce'
  BY <1>1 DEF RoundsInv, FiledOnce, OneSheetPerRound
<1>8. HostCount'
  <2>1. SeenOthers' = SeenOthers
    BY <1>1, <1>3 DEF SeenOthers, HostFiled
  <2>2. HostSeen <= Cardinality(HostView')
    BY <1>1, <1>3 DEF RoundsInv, HostCount
  <2> QED
    BY <1>1, <1>4, <2>1, <2>2 DEF RoundsInv, HostCount
<1> QED
  BY <1>2, <1>5, <1>6, <1>7, <1>8 DEF RoundsInv

(* The listener on roundNum is told the database's value: a higher one, or *)
(* the first.                                                              *)
LEMMA SyncRoundNumStep ==
    ASSUME Base, RoundsInv, NEW c \in Players, SyncRoundNum(c), UNCHANGED <<screen, roundNum, isContentSaved>>
    PROVE  RoundsInv'
<1>0. TypeOK /\ DeliveredPutsStored
  BY DEF Base, FilingInv
<1>1. /\ roundObserved[c] /\ ~ RoundNumPending(c) /\ roundSeen[c] # dbRoundNum
      /\ roundSeen'[c] = dbRoundNum /\ \A d \in Players \ {c} : roundSeen'[d] = roundSeen[d] /\ mainq'[d] = mainq[d]
      /\ mainq'[c] = Append(mainq[c], Event("roundNum", dbRoundNum))
      /\ UNCHANGED <<dbRoundNum, dbSheets, puts, applied, roundObserved, HostRound, HostSeen, disconnects>>
  BY <1>0, HostCountFrame DEF SyncRoundNum, serverVars, TypeOK, StoreTypeOK
<1>2. /\ Host \in Players /\ dbRoundNum \in Nat /\ Top \in Nat /\ dbRoundNum >= 1
      /\ mainq[c] \in Seq(Events) /\ roundNum[c] \in Nat /\ roundSeen[c] \in Int /\ mainq[Host] \in Seq(Events)
      /\ roundNum[Host] \in Nat
  BY <1>0, HostTypes, DeviceTypes DEF RoundsInv, HostLeads
<1>3. c = Host => dbRoundNum = 1 /\ roundSeen[Host] = NotLoaded /\ roundNum[Host] = 0
  <2> SUFFICES ASSUME c = Host PROVE dbRoundNum = 1 /\ roundSeen[Host] = NotLoaded /\ roundNum[Host] = 0
    OBVIOUS
  <2>1. Top = dbRoundNum
    BY <1>1 DEF RoundNumPending, RoundsInv, HostWrites, Numbers, RoundAt
  <2>2. roundSeen[Host] = NotLoaded /\ dbRoundNum = 1
    BY <1>1, <2>1 DEF Top
  <2>3. roundNum[Host] <= roundSeen[Host] \/ roundNum[Host] = 0
    BY <1>1, <1>2 DEF RoundsInv, RoundsAscend
  <2> QED
    BY <1>2, <2>2, <2>3 DEF NotLoaded
<1>4. Top' = Top /\ CanRewind' = CanRewind
  <2>1. CASE c = Host
    BY <1>1, <1>3, <2>1 DEF Top, CanRewind, NotLoaded
  <2>2. CASE c # Host
    BY <1>1, <1>2, <2>2 DEF Top, CanRewind
  <2> QED
    BY <2>1, <2>2
<1>5. HostWrites' /\ HostLeads'
  BY <1>1, <1>4 DEF RoundsInv, HostWrites, HostLeads
<1>6. roundSeen[c] < dbRoundNum /\ roundNum[c] < dbRoundNum
  <2>1. CASE c = Host
    BY <1>3, <2>1 DEF NotLoaded
  <2>2. CASE c # Host
    <3>1. roundSeen[c] <= dbRoundNum /\ (roundNum[c] <= roundSeen[c] \/ roundNum[c] = 0)
      BY <1>1, <2>2 DEF RoundsInv, RoundsAscend
    <3> QED
      BY <1>1, <1>2, <3>1
  <2> QED
    BY <2>1, <2>2
<1>7. RoundsAscend'
  <2> SUFFICES ASSUME NEW d \in Players
               PROVE  /\ Ascends(mainq'[d], roundNum[d], Ceiling(d)')
                      /\ roundObserved[d] => roundNum[d] <= roundSeen'[d] \/ roundNum[d] = 0
                      /\ d # Host => roundSeen'[d] <= dbRoundNum /\ roundNum[d] <= dbRoundNum
    BY <1>1 DEF RoundsInv, RoundsAscend
  <2>1. CASE d # c
    <3>1. Ceiling(d)' = Ceiling(d) /\ roundSeen'[d] = roundSeen[d] /\ mainq'[d] = mainq[d]
      BY <1>1, <2>1 DEF Ceiling
    <3> QED
      BY <3>1 DEF RoundsInv, RoundsAscend
  <2>2. CASE d = c
    <3>1. Ceiling(c)' = dbRoundNum /\ Ceiling(c) = roundSeen[c]
      BY <1>1 DEF Ceiling
    <3>2. Ascends(mainq[c], roundNum[c], roundSeen[c])
      BY <3>1 DEF RoundsInv, RoundsAscend
    <3>3. Ascends(Append(mainq[c], Event("roundNum", dbRoundNum)), roundNum[c], dbRoundNum)
      BY <1>2, <1>6, <3>2, AscendsRound, Zenon
    <3>4. Ascends(mainq'[c], roundNum[c], Ceiling(c)')
      BY <1>1, <3>1, <3>3, Zenon
    <3>5. roundNum[c] <= dbRoundNum /\ roundNum[c] <= roundSeen'[c] /\ roundSeen'[c] <= dbRoundNum
      BY <1>1, <1>2, <1>6
    <3> QED
      BY <2>2, <3>4, <3>5, Zenon
  <2> QED
    BY <2>1, <2>2
<1>8. HostView' = HostView /\ \A d : FiledBy(d)' = FiledBy(d)
  BY <1>1, PendingAre, PendingAreNext
<1>9. FiledOnce'
  BY <1>1, <1>8 DEF RoundsInv, FiledOnce, OneSheetPerRound
<1>10. AtMostOnce(mainq'[Host]) /\ (AllCounted(mainq'[Host]) => AllCounted(mainq[Host]))
  <2>1. CASE c = Host
    <3>1. AtMostOnce(mainq[Host])
      BY DEF RoundsInv, HostCount
    <3> DEFINE t == Append(mainq[Host], Event("roundNum", dbRoundNum))
    <3>2. AtMostOnce(t) /\ (AllCounted(t) <=> AllCounted(mainq[Host]))
      BY <1>2, <3>1, CountAdded
    <3>3. mainq'[Host] = t
      BY <1>1, <2>1
    <3> HIDE DEF t
    <3> QED
      BY <3>2, <3>3
  <2>2. CASE c # Host
    <3>1. mainq'[Host] = mainq[Host]
      BY <1>1, <1>2, <2>2
    <3> QED
      BY <3>1 DEF RoundsInv, HostCount
  <2> QED
    BY <2>1, <2>2
<1>11. HostCount'
  <2>1. SeenOthers' = SeenOthers
    BY <1>1, <1>8 DEF SeenOthers, HostFiled
  <2> QED
    BY <1>1, <1>4, <1>8, <1>10, <2>1 DEF RoundsInv, HostCount
<1> QED
  BY <1>5, <1>7, <1>9, <1>11 DEF RoundsInv

(* When the host sees more sheets of its round than its own, the database  *)
(* has reached the round.                                                  *)
LEMMA OthersInRound ==
    ASSUME Base, RoundsInv, HostRound # 0, Cardinality(HostView) >= IF HostFiled THEN 2 ELSE 1
    PROVE  roundNum[Host] <= dbRoundNum
<1>0. TypeOK /\ DeliveredPutsStored /\ HostCountsItsRound /\ OneSheetPerRound
  BY DEF Base, FilingInv, EventInv, RoundsInv, FiledOnce
<1>1. /\ HostView \subseteq Sheet /\ IsFiniteSet(HostView)
      /\ \A s \in HostView : /\ s.number = HostRound /\ s.author \in Players
                             /\ s \in FiledBy(s.author)
                             /\ s.author # Host => s \in dbSheets
      /\ OfDifferentAuthors(HostView)
  BY <1>0, HostViewIs
<1>2. HostRound = roundNum[Host]
  BY DEF HostRound
<1>3. \E s \in HostView : s.author # Host
  <2> SUFFICES ASSUME \A s \in HostView : s.author = Host PROVE FALSE
    OBVIOUS
  <2>1. HostView # {}
    BY FS_EmptySet
  <2>2. PICK s \in HostView : TRUE
    BY <2>1
  <2>3. HostFiled
    BY <1>1, <1>2, <2>2 DEF HostFiled
  <2>4. HostView = {s}
    BY <1>1 DEF OfDifferentAuthors
  <2>5. Cardinality(HostView) = 1
    BY <2>4, FS_Singleton, Zenon
  <2>6. Cardinality(HostView) >= 2
    BY <2>3
  <2> QED
    BY <2>5, <2>6
<1> QED
  BY <1>1, <1>2, <1>3 DEF RoundsInv, HostWrites, Database

(* The host's listener on the sheets counts what there is.                 *)
LEMMA SyncRoundSheetsStep ==
    ASSUME Base, RoundsInv, NEW r \in DOMAIN sheetsSeen, SyncRoundSheets(r),
           UNCHANGED <<screen, roundNum, isContentSaved>>
    PROVE  RoundsInv'
<1> DEFINE n == Cardinality(HostView)
<1>0. TypeOK /\ DeliveredPutsStored /\ HostCountsItsRound /\ OneSheetPerRound
  BY DEF Base, FilingInv, EventInv, RoundsInv, FiledOnce
<1>1. /\ HostRound # 0 /\ applied[Host] = 0 /\ HostSeen # n /\ HostSeen' = n
      /\ \A d \in Players \ {Host} : mainq'[d] = mainq[d]
      /\ mainq'[Host] = mainq[Host] \/ mainq'[Host] = Append(mainq[Host], Event("sheets", n))
      /\ UNCHANGED <<dbRoundNum, dbSheets, puts, applied, roundObserved, roundSeen, HostRound, disconnects>>
  <2>1. r = roundNum[Host] /\ r \in Rounds /\ r # 0
    BY <1>0 DEF HostCountsItsRound, Rounds
  <2>2. HostRound = r /\ HostRound' = r /\ HostSeen = sheetsSeen[r] /\ HostSeen' = sheetsSeen'[r] /\ HostView = RoundView(r)
    BY <2>1 DEF HostRound, HostSeen, HostView
  <2> HIDE DEF n
  <2>3. n = Cardinality(RoundView(r))
    BY <2>2 DEF n
  <2>4. sheetsSeen' = [sheetsSeen EXCEPT ![r] = n] /\ sheetsSeen[r] # n
    BY <2>3 DEF SyncRoundSheets
  <2>5. HostSeen' = n
    BY <2>2, <2>4
  <2>6. /\ applied[Host] = 0
        /\ \A d \in Players \ {Host} : mainq'[d] = mainq[d]
        /\ mainq'[Host] = mainq[Host] \/ mainq'[Host] = Append(mainq[Host], Event("sheets", n))
        /\ UNCHANGED <<dbRoundNum, dbSheets, puts, applied, roundObserved, roundSeen, disconnects>>
    BY <1>0, <2>3, ConstantFacts DEF SyncRoundSheets, serverVars, TypeOK, StoreTypeOK
  <2> QED
    BY <2>1, <2>2, <2>4, <2>5, <2>6
<1>2. /\ Host \in Players /\ mainq[Host] \in Seq(Events) /\ HostSeen \in Int /\ roundNum[Host] \in Nat
      /\ Top \in Nat /\ dbRoundNum \in Nat /\ puts[Host] \in Seq(Put) /\ NumOfPlayers \in Nat
  BY <1>0, HostTypes, HostSeenType, ConstantFacts
<1>3. n \in Nat /\ n <= NumOfPlayers
  BY <1>0, HostViewIs
<1> HIDE DEF n
<1>4. HostSeen < n
  BY <1>1, <1>2, <1>3 DEF RoundsInv, HostCount, n
<1>5. roundNum[Host] # 0
  BY <1>1 DEF HostRound
<1>6. ~ AllCounted(mainq[Host]) /\ Top = roundNum[Host]
  BY <1>2, <1>3, <1>4, <1>5 DEF RoundsInv, HostCount, HostLeads
<1>7. Top' = Top /\ CanRewind' = CanRewind /\ \A d : Ceiling(d)' = Ceiling(d)
  BY <1>1 DEF Top, CanRewind, Ceiling
<1>8. HostWrites' /\ HostLeads'
  BY <1>1, <1>7 DEF RoundsInv, HostWrites, HostLeads
<1>9. RoundsAscend'
  <2> SUFFICES ASSUME NEW d \in Players
               PROVE  Ascends(mainq'[d], roundNum[d], Ceiling(d))
    BY <1>1, <1>7 DEF RoundsInv, RoundsAscend
  <2>1. Ascends(mainq[d], roundNum[d], Ceiling(d)) /\ roundNum[d] \in Nat /\ Ceiling(d) \in Int
    BY <1>0, DeviceTypes DEF RoundsInv, RoundsAscend
  <2> QED
    BY <1>1, <1>2, <2>1, AscendsCount
<1>10. HostView' = HostView /\ \A d : FiledBy(d)' = FiledBy(d)
  BY <1>1, PendingAre, PendingAreNext
<1>11. FiledOnce'
  BY <1>1, <1>10 DEF RoundsInv, FiledOnce, OneSheetPerRound
<1>12. AtMostOnce(mainq'[Host]) /\ (AllCounted(mainq'[Host]) => n = NumOfPlayers)
  <2>1. AtMostOnce(mainq[Host])
    BY DEF RoundsInv, HostCount
  <2>2. CASE mainq'[Host] = mainq[Host]
    BY <1>6, <2>1, <2>2
  <2>3. CASE mainq'[Host] = Append(mainq[Host], Event("sheets", n))
    <3> DEFINE t == Append(mainq[Host], Event("sheets", n))
    <3>1. IF n = NumOfPlayers THEN ~ AllCounted(mainq[Host]) => AtMostOnce(t)
          ELSE AtMostOnce(t) /\ (AllCounted(t) <=> AllCounted(mainq[Host]))
      BY <1>2, <2>1, CountAdded
    <3>2. mainq'[Host] = t
      BY <2>3
    <3> HIDE DEF t
    <3> QED
      BY <1>6, <3>1, <3>2
  <2> QED
    BY <1>1, <2>2, <2>3
<1>13. HostCount'
  <2>1. SeenOthers' <=> Cardinality(HostView) >= IF HostFiled THEN 2 ELSE 1
    BY <1>1, <1>10 DEF SeenOthers, HostFiled, n
  <2>2. ASSUME CanRewind, SeenOthers', NEW i \in 1..Len(puts[Host]), RoundAt(puts[Host], i)
        PROVE  puts[Host][i].value > roundNum[Host]
    <3>1. roundNum[Host] <= dbRoundNum
      BY <1>1, <2>1, <2>2, OthersInRound
    <3>2. puts[Host][i].value > dbRoundNum /\ puts[Host][i].value \in Nat
      BY <1>1, <1>2, <2>2, PutIs DEF RoundsInv, HostWrites, Numbers
    <3> QED
      BY <1>2, <3>1, <3>2
  <2>3. HostSeen' <= Cardinality(HostView')
    BY <1>1, <1>3, <1>10 DEF n
  <2>4. Top # roundNum[Host] + 1
    BY <1>2, <1>6
  <2> QED
    BY <1>1, <1>6, <1>7, <1>12, <2>2, <2>3, <2>4 DEF HostCount
<1> QED
  BY <1>8, <1>9, <1>11, <1>13 DEF RoundsInv

(* A count that is not complete is handled: nothing happens.               *)
LEMMA CountIgnored ==
    ASSUME Base, RoundsInv, NEW c \in Players, mainq[c] # <<>>,
           mainq' = [mainq EXCEPT ![c] = Tail(@)],
           UNCHANGED <<serverVars, puts, applied, listenVars, disconnects, screen, roundNum, isContentSaved>>
    PROVE  RoundsInv'
<1>0. TypeOK
  BY DEF Base
<1>1. /\ UNCHANGED <<dbRoundNum, dbSheets, puts, applied, roundObserved, roundSeen, HostRound, HostSeen>>
      /\ UNCHANGED <<disconnects, screen, roundNum, isContentSaved>>
      /\ mainq'[c] = Tail(mainq[c]) /\ \A d \in Players \ {c} : mainq'[d] = mainq[d]
  BY <1>0, HostCountFrame DEF serverVars, listenVars, TypeOK, StoreTypeOK
<1>2. Top' = Top /\ CanRewind' = CanRewind /\ \A d : Ceiling(d)' = Ceiling(d)
  BY <1>1 DEF Top, CanRewind, Ceiling
<1>3. HostView' = HostView /\ \A d : FiledBy(d)' = FiledBy(d)
  BY <1>1, PendingAre, PendingAreNext
<1>4. HostWrites' /\ HostLeads'
  BY <1>1, <1>2 DEF RoundsInv, HostWrites, HostLeads
<1>5. FiledOnce'
  BY <1>1, <1>3 DEF RoundsInv, FiledOnce, OneSheetPerRound
<1>6. RoundsAscend'
  <2> SUFFICES ASSUME NEW d \in Players
               PROVE  Ascends(mainq'[d], roundNum[d], Ceiling(d))
    BY <1>1, <1>2 DEF RoundsInv, RoundsAscend
  <2>1. /\ Ascends(mainq[d], roundNum[d], Ceiling(d)) /\ roundNum[d] \in Nat /\ Ceiling(d) \in Int
        /\ mainq[d] \in Seq(Events)
    BY <1>0, DeviceTypes DEF RoundsInv, RoundsAscend
  <2> QED
    BY <1>1, <2>1, AscendsTaken
<1>7. AtMostOnce(mainq'[Host]) /\ (AllCounted(mainq'[Host]) => AllCounted(mainq[Host]))
  <2>1. AtMostOnce(mainq[Host]) /\ mainq[Host] \in Seq(Events) /\ Host \in Players
    BY <1>0, HostTypes DEF RoundsInv, HostCount
  <2> QED
    BY <1>1, <2>1, CountTaken
<1>8. HostCount'
  <2>1. SeenOthers' = SeenOthers
    BY <1>1, <1>3 DEF SeenOthers, HostFiled
  <2> QED
    BY <1>1, <1>2, <1>3, <1>7, <2>1 DEF RoundsInv, HostCount
<1> QED
  BY <1>4, <1>5, <1>6, <1>8 DEF RoundsInv

(* When all the sheets are counted, they are in the database, the host's   *)
(* own possibly behind the writes it has queued.                           *)
LEMMA AllThere ==
    ASSUME SteadyGame, Base, RoundsInv, AllCounted(mainq[Host])
    PROVE  /\ roundNum[Host] \in Rounds /\ Top = roundNum[Host]
           /\ roundObserved[Host] /\ roundSeen[Host] = roundNum[Host]
           /\ HostSeen = NumOfPlayers /\ HostRound = roundNum[Host]
           /\ CanRewind => \A i \in 1..Len(puts[Host]) : ~ RoundAt(puts[Host], i)
           /\ \A p \in Players \ {Host} : Filed(dbSheets, p, roundNum[Host])
           /\ Filed(dbSheets, Host, roundNum[Host]) \/ SheetBefore(puts[Host], Len(puts[Host]) + 1, roundNum[Host])
<1>0. TypeOK /\ DeliveredPutsStored /\ HostCountsItsRound /\ OneSheetPerRound
  BY DEF Base, FilingInv, EventInv, RoundsInv, FiledOnce
<1>1. /\ Host \in Players /\ NumOfPlayers \in Nat \ {0} /\ roundNum[Host] \in Nat /\ puts[Host] \in Seq(Put)
      /\ Len(puts[Host]) \in Nat /\ Top \in Nat /\ disconnects \in Nat /\ NumOfRounds \in Nat
  BY <1>0, HostTypes, ConstantFacts
<1>2. Top = roundNum[Host] /\ HostSeen = NumOfPlayers
  BY DEF RoundsInv, HostCount
<1>3. HostRound # 0
  BY <1>1, <1>2 DEF RoundsInv, HostCount, NotLoaded
<1>4. roundNum[Host] \in Rounds /\ HostRound = roundNum[Host]
  BY <1>3 DEF HostRound
<1>5. roundObserved[Host]
  BY <1>1, <1>4 DEF RoundsInv, HostLeads, Rounds
<1>6. roundSeen[Host] = roundNum[Host]
  <2>1. roundNum[Host] <= roundSeen[Host] \/ roundNum[Host] = 0
    BY <1>1, <1>5 DEF RoundsInv, RoundsAscend
  <2>2. roundNum[Host] # 0
    BY <1>4 DEF Rounds
  <2> QED
    BY <1>1, <1>2, <1>5, <2>1, <2>2 DEF Top, NotLoaded
<1>7. ASSUME CanRewind, NEW i \in 1..Len(puts[Host]), RoundAt(puts[Host], i) PROVE FALSE
  <2>1. NumOfPlayers >= 2
    BY <1>1, <1>7, DisconnectsAssumption DEF CanRewind, SteadyGame
  <2>2. SeenOthers
    BY <1>1, <1>2, <2>1 DEF SeenOthers
  <2>3. puts[Host][i].value > roundNum[Host]
    BY <1>7, <2>2 DEF RoundsInv, HostCount
  <2>4. puts[Host][i].value <= roundNum[Host] /\ puts[Host][i].value \in Nat
    BY <1>1, <1>2, <1>7, PutIs DEF RoundsInv, HostWrites, Numbers
  <2> QED
    BY <1>1, <2>3, <2>4
<1>8. /\ \A p \in Players : \E s \in HostView : s.author = p
      /\ \A s \in HostView : s.number = HostRound /\ (s.author # Host => s \in dbSheets)
  <2>1. /\ Cardinality(HostView) \in Nat /\ Cardinality(HostView) <= NumOfPlayers
        /\ Cardinality(HostView) = NumOfPlayers => \A p \in Players : \E s \in HostView : s.author = p
        /\ \A s \in HostView : s.number = HostRound /\ (s.author # Host => s \in dbSheets)
    BY <1>0, HostViewIs
  <2>2. NumOfPlayers <= Cardinality(HostView)
    BY <1>2 DEF RoundsInv, HostCount
  <2> QED
    BY <1>1, <2>1, <2>2
<1>9. \A p \in Players \ {Host} : Filed(dbSheets, p, roundNum[Host])
  BY <1>4, <1>8 DEF Filed
<1>10. Filed(dbSheets, Host, roundNum[Host]) \/ SheetBefore(puts[Host], Len(puts[Host]) + 1, roundNum[Host])
  <2>1. PICK s \in HostView : s.author = Host
    BY <1>1, <1>8
  <2>2. s.number = roundNum[Host]
    BY <1>4, <1>8
  <2>3. CASE s \in dbSheets
    BY <2>1, <2>2, <2>3 DEF Filed
  <2>4. CASE s \in SheetsIn(puts[Host])
    <3>1. PICK i \in 1..Len(puts[Host]) : SheetAt(puts[Host], i) /\ s = puts[Host][i].value
      BY <2>4 DEF SheetsIn
    <3>2. i \in 1..((Len(puts[Host]) + 1) - 1)
      BY <1>1
    <3> QED
      BY <2>2, <3>1, <3>2 DEF SheetBefore
  <2> QED
    BY <2>3, <2>4, PendingAre DEF View
<1> QED
  BY <1>2, <1>4, <1>5, <1>6, <1>7, <1>9, <1>10

(* The host ends the round.                                                *)
LEMMA RoundEnds ==
    ASSUME SteadyGame, Base, RoundsInv, mainq[Host] # <<>>, Head(mainq[Host]).type = "sheets",
           Head(mainq[Host]).value = NumOfPlayers, UpdateRoundNum(Host, roundNum[Host] + 1, Tail(mainq[Host])),
           UNCHANGED <<screen, roundNum, isContentSaved>>
    PROVE  RoundsInv'
<1> DEFINE hr == roundNum[Host]
<1>0. TypeOK /\ DeliveredPutsStored
  BY DEF Base, FilingInv
<1>1. /\ Host \in Players /\ NumOfPlayers \in Nat \ {0} /\ hr \in Nat /\ puts[Host] \in Seq(Put)
      /\ Len(puts[Host]) \in Nat /\ applied[Host] \in 0..Len(puts[Host])
      /\ dbRoundNum \in Nat /\ mainq[Host] \in Seq(Events)
  BY <1>0, HostTypes, ConstantFacts
<1>2. AllCounted(mainq[Host]) /\ ~ AllCounted(Tail(mainq[Host])) /\ AtMostOnce(Tail(mainq[Host]))
  BY <1>1, CountTaken DEF RoundsInv, HostCount
<1>3. /\ hr \in Rounds /\ Top = hr /\ roundObserved[Host] /\ roundSeen[Host] = hr
      /\ HostSeen = NumOfPlayers /\ HostRound = hr
      /\ CanRewind => \A i \in 1..Len(puts[Host]) : ~ RoundAt(puts[Host], i)
      /\ \A p \in Players \ {Host} : Filed(dbSheets, p, hr)
      /\ Filed(dbSheets, Host, hr) \/ SheetBefore(puts[Host], Len(puts[Host]) + 1, hr)
  BY <1>2, AllThere
<1>4. /\ puts'[Host] = Append(puts[Host], RoundPut(hr + 1))
      /\ mainq'[Host] = Append(Tail(mainq[Host]), Event("roundNum", hr + 1))
      /\ roundSeen'[Host] = hr + 1
      /\ \A d \in Players \ {Host} : puts'[d] = puts[d] /\ mainq'[d] = mainq[d] /\ roundSeen'[d] = roundSeen[d]
      /\ UNCHANGED <<dbRoundNum, dbSheets, applied, roundObserved, HostRound, HostSeen, disconnects>>
  <2>1. roundSeen[Host] # hr + 1
    BY <1>1, <1>3
  <2> QED
    BY <1>0, <1>1, <1>3, <2>1, HostCountFrame DEF UpdateRoundNum, serverVars, TypeOK, StoreTypeOK
<1>5. Top' = hr + 1 /\ CanRewind' = CanRewind
  BY <1>1, <1>3, <1>4 DEF Top, CanRewind, NotLoaded
<1>6. HostWrites'
  <2> DEFINE q == puts[Host]
             n == applied[Host]
             db == dbRoundNum
             D == dbSheets
             top == roundNum[Host]
             rew == CanRewind
  <2>1. /\ q \in Seq(Put) /\ n \in 0..Len(q) /\ db \in Nat /\ top \in Rounds
        /\ Numbers(q, n, db, top, rew) /\ InOrder(q, db, D) /\ Database(db, D)
        /\ rew => \A i \in 1..Len(q) : ~ RoundAt(q, i)
        /\ \A p \in Players \ {Host} : Filed(D, p, top)
        /\ Filed(D, Host, top) \/ SheetBefore(q, Len(q) + 1, top)
    BY <1>1, <1>3 DEF RoundsInv, HostWrites
  <2> HIDE DEF q, n, db, D, top, rew
  <2>2. Numbers(Append(q, RoundPut(top + 1)), n, db, top + 1, rew) /\ InOrder(Append(q, RoundPut(top + 1)), db, D)
    BY <2>1, QueueOfRound, Zenon
  <2>3. puts'[Host] = Append(q, RoundPut(top + 1)) /\ Top' = top + 1
    BY <1>4, <1>5 DEF q, top
  <2>4. Numbers(puts'[Host], n, db, Top', rew) /\ InOrder(puts'[Host], db, D)
    BY <2>2, <2>3, Zenon
  <2>5. \A c \in Players \ {Host} : \A i \in 1..Len(puts'[c]) : SheetAt(puts'[c], i)
    BY <1>4 DEF RoundsInv, HostWrites
  <2> QED
    BY <1>4, <1>5, <2>1, <2>4, <2>5 DEF HostWrites, n, db, D, rew
<1>7. RoundsAscend'
  <2> SUFFICES ASSUME NEW d \in Players
               PROVE  /\ Ascends(mainq'[d], roundNum[d], Ceiling(d)')
                      /\ roundObserved[d] => roundNum[d] <= roundSeen'[d] \/ roundNum[d] = 0
                      /\ d # Host => roundSeen'[d] <= dbRoundNum /\ roundNum[d] <= dbRoundNum
    BY <1>4 DEF RoundsInv, RoundsAscend
  <2>1. CASE d # Host
    <3>1. Ceiling(d)' = Ceiling(d) /\ roundSeen'[d] = roundSeen[d] /\ mainq'[d] = mainq[d]
      BY <1>4, <2>1 DEF Ceiling
    <3> QED
      BY <3>1 DEF RoundsInv, RoundsAscend
  <2>2. CASE d = Host
    <3>1. Ceiling(Host)' = hr + 1 /\ Ceiling(Host) = hr /\ hr + 1 \in Nat /\ hr < hr + 1 /\ hr <= roundSeen'[Host]
      BY <1>1, <1>3, <1>4 DEF Ceiling
    <3>2. Ascends(mainq[Host], hr, hr)
      BY <1>1, <3>1 DEF RoundsInv, RoundsAscend
    <3>3. Ascends(Tail(mainq[Host]), hr, hr) /\ Tail(mainq[Host]) \in Seq(Events)
      BY <1>1, <3>2, AscendsTaken, EventTaken
    <3>4. Ascends(Append(Tail(mainq[Host]), Event("roundNum", hr + 1)), hr, hr + 1)
      <4> DEFINE tl == Tail(mainq[Host])
                 v == hr + 1
      <4>1. tl \in Seq(Events) /\ v \in Nat /\ hr < v /\ hr \in Int /\ Ascends(tl, hr, hr)
        BY <1>1, <3>1, <3>3
      <4> HIDE DEF tl, v
      <4>2. Ascends(Append(tl, Event("roundNum", v)), hr, v)
        BY <1>1, <4>1, AscendsRound, Zenon
      <4> QED
        BY <4>2 DEF tl, v
    <3>5. Ascends(mainq'[Host], hr, Ceiling(Host)')
      BY <1>4, <3>1, <3>4, Zenon
    <3> QED
      BY <2>2, <3>1, <3>5, Zenon
  <2> QED
    BY <2>1, <2>2
<1>8. HostLeads'
  BY <1>3, <1>4, <1>5 DEF RoundsInv, HostLeads
<1>9. SheetsIn(puts'[Host]) = SheetsIn(puts[Host])
  <2>1. SheetsIn(Append(puts[Host], RoundPut(hr + 1))) = SheetsIn(puts[Host])
    BY <1>1, SheetsInQueue, Zenon
  <2> QED
    BY <1>4, <2>1, Zenon
<1>10. HostView' = HostView /\ \A d \in Players : FiledBy(d)' = FiledBy(d)
  BY <1>4, <1>9, PendingAre, PendingAreNext DEF View
<1>11. FiledOnce'
  BY <1>4, <1>10 DEF RoundsInv, FiledOnce, OneSheetPerRound
<1>12. AtMostOnce(mainq'[Host]) /\ ~ AllCounted(mainq'[Host])
  <2> DEFINE t == Append(Tail(mainq[Host]), Event("roundNum", hr + 1))
  <2>1. AtMostOnce(t) /\ (AllCounted(t) <=> AllCounted(Tail(mainq[Host])))
    BY <1>1, <1>2, EventTaken, CountAdded
  <2> HIDE DEF t
  <2>2. mainq'[Host] = t
    BY <1>4 DEF t
  <2> QED
    BY <1>2, <2>1, <2>2
<1>13. HostCount'
  <2>1. SeenOthers' = SeenOthers
    BY <1>1, <1>4, <1>10 DEF SeenOthers, HostFiled
  <2>2. ASSUME CanRewind, NEW i \in 1..Len(puts'[Host]), RoundAt(puts'[Host], i)
        PROVE  puts'[Host][i].value > hr
    <3> DEFINE t == Append(puts[Host], RoundPut(hr + 1))
               k == Len(puts[Host]) + 1
    <3>1. /\ t[k] = RoundPut(hr + 1)
          /\ \A j \in 1..Len(puts[Host]) : t[j] = puts[Host][j]
          /\ \A j \in 1..Len(t) : j \in 1..Len(puts[Host]) \/ j = k
      BY <1>1, PutAppended
    <3>2. puts'[Host] = t
      BY <1>4
    <3> HIDE DEF t, k
    <3>3. i = k
      BY <1>3, <2>2, <3>1, <3>2 DEF RoundAt
    <3> QED
      BY <1>1, <3>1, <3>2, <3>3 DEF RoundPut
  <2> QED
    BY <1>3, <1>4, <1>5, <1>10, <1>12, <2>1, <2>2 DEF RoundsInv, HostCount
<1> QED
  BY <1>6, <1>7, <1>8, <1>11, <1>13 DEF RoundsInv

(* handleDBData_RoundSheets.                                               *)
LEMMA HandleRoundSheetsStep ==
    ASSUME SteadyGame, Base, RoundsInv, NEW c \in Players, HandleRoundSheets(c)
    PROVE  RoundsInv'
<1>1. /\ mainq[c] # <<>> /\ Head(mainq[c]).type = "sheets"
      /\ UNCHANGED <<screen, roundNum, isContentSaved>>
  BY DEF HandleRoundSheets, Pending, roundVars
<1>2. CASE AllSheetsSaved(c, Head(mainq[c]).value)
  <2>1. c = Host /\ Head(mainq[c]).value = NumOfPlayers /\ UpdateRoundNum(c, roundNum[c] + 1, Tail(mainq[c]))
    BY <1>2 DEF HandleRoundSheets, AllSheetsSaved, ForceRoundEnd
  <2> QED
    BY <1>1, <2>1, RoundEnds
<1>3. CASE ~ AllSheetsSaved(c, Head(mainq[c]).value)
  <2>1. /\ mainq' = [mainq EXCEPT ![c] = Tail(@)]
        /\ UNCHANGED <<serverVars, puts, applied, listenVars, disconnects>>
    BY <1>3 DEF HandleRoundSheets
  <2> QED
    BY <1>1, <2>1, CountIgnored
<1> QED
  BY <1>2, <1>3

(* A device moves on to a higher round: the next one, if it is the host's. *)
LEMMA NextRound ==
    ASSUME Base, RoundsInv, NEW c \in Players, HandleRoundNum(c)
    PROVE  LET v == Head(mainq[c]).value IN
           /\ mainq[c] # <<>> /\ v \in Nat /\ roundNum[c] < v /\ v <= Ceiling(c)
           /\ Ascends(Tail(mainq[c]), v, Ceiling(c)) /\ Tail(mainq[c]) \in Seq(Events)
           /\ mainq'[c] = Tail(mainq[c]) /\ roundNum'[c] = v
           /\ \A d \in Players \ {c} : /\ mainq'[d] = mainq[d] /\ roundNum'[d] = roundNum[d]
                                       /\ roundObserved'[d] = roundObserved[d] /\ roundSeen'[d] = roundSeen[d]
                                       /\ screen'[d] = screen[d] /\ isContentSaved'[d] = isContentSaved[d]
           /\ \/ /\ v \in Rounds /\ roundObserved'[c] = roundObserved[c] /\ roundSeen'[c] = roundSeen[c]
                 /\ screen'[c] = screen[c]
              \/ v \notin Rounds /\ ~ roundObserved'[c] /\ roundSeen'[c] = NotLoaded /\ screen'[c] = "Summary"
           /\ IF c = Host THEN HostRound' = (IF v \in Rounds THEN v ELSE 0) /\ HostSeen' = NotLoaded
              ELSE UNCHANGED <<HostRound, HostSeen>>
           /\ UNCHANGED <<dbRoundNum, dbSheets, puts, applied, disconnects>>
<1> DEFINE v == Head(mainq[c]).value
           left == IF c = Host THEN StopObservingRoundSheets(sheetsSeen, roundNum[c]) ELSE sheetsSeen
<1>0. TypeOK /\ HostCountsItsRound
  BY DEF Base, EventInv
<1>1. mainq[c] # <<>> /\ Head(mainq[c]).type = "roundNum"
  BY DEF HandleRoundNum, Pending
<1>2. /\ mainq[c] \in Seq(Events) /\ roundNum[c] \in Nat /\ Ceiling(c) \in Int
      /\ Ascends(mainq[c], roundNum[c], Ceiling(c))
  BY <1>0, DeviceTypes DEF RoundsInv, RoundsAscend
<1>3. Tail(mainq[c]) \in Seq(Events) /\ v \in Nat
  BY <1>1, <1>2, EventTaken, EventIs
<1>4. roundNum[c] < v /\ v <= Ceiling(c) /\ Ascends(Tail(mainq[c]), v, Ceiling(c))
  BY <1>1, <1>2, AscendsTaken
<1>5. /\ mainq' = [mainq EXCEPT ![c] = Tail(@)] /\ mainq \in [Players -> Seq(Events)]
      /\ roundNum' = [roundNum EXCEPT ![c] = v] /\ roundNum \in [Players -> Nat]
      /\ InitializeRound(c, v, left)
      /\ UNCHANGED <<dbRoundNum, dbSheets, puts, applied, disconnects>>
  BY <1>0, <1>2, <1>4 DEF HandleRoundNum, serverVars, TypeOK, StoreTypeOK, ControllerTypeOK
<1>9. c = Host => DOMAIN left = {}
  BY <1>0 DEF HostCountsItsRound, StopObservingRoundSheets
<1>10. c # Host => left = sheetsSeen
  OBVIOUS
<1> HIDE DEF v, left
<1>11. IF c = Host THEN HostRound' = (IF v \in Rounds THEN v ELSE 0) /\ HostSeen' = NotLoaded
       ELSE UNCHANGED <<HostRound, HostSeen>>
  <2>1. CASE c = Host
    <3>1. roundNum'[Host] = v
      BY <1>5, <2>1
    <3>2. v \in Rounds => sheetsSeen'[v] = NotLoaded
      BY <1>5, <1>9, <2>1 DEF InitializeRound, ObserveRoundSheets
    <3> QED
      BY <2>1, <3>1, <3>2 DEF HostRound, HostSeen
  <2>2. CASE c # Host
    <3>1. roundNum'[Host] = roundNum[Host] /\ sheetsSeen' = sheetsSeen
      BY <1>5, <1>10, <2>2, ConstantFacts DEF InitializeRound
    <3> QED
      BY <2>2, <3>1 DEF HostRound, HostSeen
  <2> QED
    BY <2>1, <2>2
<1>6. /\ roundObserved \in [Players -> BOOLEAN] /\ roundSeen \in [Players -> Nat \cup {NotLoaded}]
      /\ screen \in [Players -> {"Sheet", "Summary"}] /\ isContentSaved \in [Players -> BOOLEAN]
  BY <1>0 DEF TypeOK, StoreTypeOK, ControllerTypeOK
<1>7. CASE v \in Rounds
  <2>1. /\ UNCHANGED <<screen, roundObserved, roundSeen>>
        /\ isContentSaved' = [isContentSaved EXCEPT ![c] = FALSE]
    BY <1>5, <1>7 DEF InitializeRound, ResetRoundFlags
  <2> QED
    BY <1>1, <1>2, <1>3, <1>4, <1>5, <1>6, <1>7, <1>11, <2>1 DEF v
<1>8. CASE v \notin Rounds
  <2>1. /\ UNCHANGED isContentSaved
        /\ roundObserved' = [roundObserved EXCEPT ![c] = FALSE]
        /\ roundSeen' = [roundSeen EXCEPT ![c] = NotLoaded]
        /\ screen' = [screen EXCEPT ![c] = "Summary"]
    BY <1>5, <1>8 DEF InitializeRound, StopObservingRoundNum
  <2> QED
    BY <1>1, <1>2, <1>3, <1>4, <1>5, <1>6, <1>8, <1>11, <2>1 DEF v
<1> QED
  BY <1>7, <1>8

(* handleDBData_RoundNum: no round is entered twice, so the sheets of the  *)
(* new one are still to be filed.                                          *)
LEMMA HandleRoundNumStep ==
    ASSUME Base, RoundsInv, NEW c \in Players, HandleRoundNum(c)
    PROVE  RoundsInv'
<1> DEFINE v == Head(mainq[c]).value
<1>0. TypeOK /\ DeliveredPutsStored /\ OneSheetPerRound
  BY DEF Base, FilingInv, RoundsInv, FiledOnce
<1>1. /\ mainq[c] # <<>> /\ v \in Nat /\ roundNum[c] < v /\ v <= Ceiling(c)
      /\ Ascends(Tail(mainq[c]), v, Ceiling(c)) /\ Tail(mainq[c]) \in Seq(Events)
      /\ mainq'[c] = Tail(mainq[c]) /\ roundNum'[c] = v
      /\ \A d \in Players \ {c} : /\ mainq'[d] = mainq[d] /\ roundNum'[d] = roundNum[d]
                                  /\ roundObserved'[d] = roundObserved[d] /\ roundSeen'[d] = roundSeen[d]
                                  /\ screen'[d] = screen[d] /\ isContentSaved'[d] = isContentSaved[d]
      /\ \/ /\ v \in Rounds /\ roundObserved'[c] = roundObserved[c] /\ roundSeen'[c] = roundSeen[c]
            /\ screen'[c] = screen[c]
         \/ v \notin Rounds /\ ~ roundObserved'[c] /\ roundSeen'[c] = NotLoaded /\ screen'[c] = "Summary"
      /\ IF c = Host THEN HostRound' = (IF v \in Rounds THEN v ELSE 0) /\ HostSeen' = NotLoaded
         ELSE UNCHANGED <<HostRound, HostSeen>>
      /\ UNCHANGED <<dbRoundNum, dbSheets, puts, applied, disconnects>>
  BY NextRound
<1> HIDE DEF v
<1>2. /\ Host \in Players /\ roundNum[c] \in Nat /\ roundSeen[c] \in Int /\ roundObserved[c] \in BOOLEAN
      /\ dbRoundNum \in Nat /\ Ceiling(c) \in Int /\ roundNum[Host] \in Nat /\ Top \in Nat /\ NumOfRounds \in Nat
      /\ mainq[Host] \in Seq(Events) /\ mainq[c] \in Seq(Events) /\ roundObserved[Host] \in BOOLEAN
  BY <1>0, HostTypes, DeviceTypes, ConstantFacts
<1>3. c = Host => roundObserved[Host] /\ roundSeen[Host] = v /\ v = roundNum[Host] + 1 /\ Top = v
  <2> SUFFICES ASSUME c = Host
               PROVE  roundObserved[Host] /\ roundSeen[Host] = v /\ v = roundNum[Host] + 1 /\ Top = v
    OBVIOUS
  <2>1. roundObserved[Host]
    BY <1>1, <1>2 DEF Ceiling
  <2>2. v <= roundSeen[Host]
    BY <1>1, <2>1 DEF Ceiling
  <2>3. Top = roundSeen[Host]
    BY <1>1, <1>2, <2>1, <2>2 DEF Top, NotLoaded
  <2> QED
    BY <1>1, <1>2, <2>1, <2>2, <2>3 DEF RoundsInv, HostLeads
<1>4. Top' = Top /\ CanRewind' = CanRewind
  <2>1. CASE c # Host
    BY <1>1, <1>2, <2>1 DEF Top, CanRewind
  <2>2. CASE c = Host
    BY <1>1, <1>2, <1>3, <2>2 DEF Top, CanRewind
  <2> QED
    BY <2>1, <2>2
<1>5. HostWrites'
  BY <1>1, <1>4 DEF RoundsInv, HostWrites
<1>6. HostLeads'
  <2>1. CASE c # Host
    BY <1>1, <1>2, <1>4, <2>1 DEF RoundsInv, HostLeads
  <2>2. CASE c = Host
    <3>1. v \notin Rounds => v > NumOfRounds
      BY <1>1, <1>2 DEF Rounds
    <3> QED
      BY <1>1, <1>2, <1>3, <1>4, <2>2, <3>1 DEF RoundsInv, HostLeads
  <2> QED
    BY <2>1, <2>2
<1>7. RoundsAscend'
  <2> SUFFICES ASSUME NEW d \in Players
               PROVE  /\ Ascends(mainq'[d], roundNum'[d], Ceiling(d)')
                      /\ roundObserved'[d] => roundNum'[d] <= roundSeen'[d] \/ roundNum'[d] = 0
                      /\ d # Host => roundSeen'[d] <= dbRoundNum /\ roundNum'[d] <= dbRoundNum
    BY <1>1 DEF RoundsAscend
  <2>1. CASE d # c
    <3>1. /\ Ceiling(d)' = Ceiling(d) /\ roundSeen'[d] = roundSeen[d] /\ mainq'[d] = mainq[d]
          /\ roundNum'[d] = roundNum[d] /\ roundObserved'[d] = roundObserved[d]
      BY <1>1, <2>1 DEF Ceiling
    <3> QED
      BY <3>1 DEF RoundsInv, RoundsAscend
  <2>2. CASE d = c /\ v \in Rounds
    <3>1. /\ Ceiling(c)' = Ceiling(c) /\ roundSeen'[c] = roundSeen[c] /\ mainq'[c] = Tail(mainq[c])
          /\ roundNum'[c] = v /\ roundObserved'[c] = roundObserved[c]
      BY <1>1, <2>2 DEF Ceiling
    <3>2. Ascends(mainq'[c], roundNum'[c], Ceiling(c)')
      BY <1>1, <3>1, Zenon
    <3>3. roundObserved[c] => v <= roundSeen[c]
      BY <1>1 DEF Ceiling
    <3>4. c # Host => roundSeen[c] <= dbRoundNum /\ v <= dbRoundNum
      BY <1>1, <1>2 DEF Ceiling, RoundsInv, RoundsAscend
    <3> QED
      BY <2>2, <3>1, <3>2, <3>3, <3>4, Zenon
  <2>3. CASE d = c /\ v \notin Rounds
    <3>1. /\ ~ roundObserved'[c] /\ roundSeen'[c] = NotLoaded /\ mainq'[c] = Tail(mainq[c]) /\ roundNum'[c] = v
      BY <1>1, <2>3
    <3>2. CASE c = Host
      <4>1. Ascends(Tail(mainq[c]), v, v)
        BY <1>1, <1>2, <1>3, <3>2 DEF Ceiling
      <4>2. v <= v /\ v \in Int
        BY <1>1
      <4>3. Ascends(Tail(mainq[c]), v, Ceiling(c)')
        BY <1>1, <4>1, <4>2, AscendsNone
      <4>4. Ascends(mainq'[c], roundNum'[c], Ceiling(c)')
        BY <3>1, <4>3, Zenon
      <4> QED
        BY <2>3, <3>1, <3>2, <4>4, Zenon
    <3>3. CASE c # Host
      <4>1. Ceiling(c)' = dbRoundNum
        BY <1>1, <3>1, <3>3 DEF Ceiling
      <4>2. Ceiling(c) <= dbRoundNum
        BY <1>2, <3>3 DEF Ceiling, RoundsInv, RoundsAscend
      <4>3. dbRoundNum \in Int /\ v <= dbRoundNum
        BY <1>1, <1>2, <4>2
      <4>4. Ascends(Tail(mainq[c]), v, dbRoundNum)
        BY <1>1, <1>2, <4>2, <4>3, AscendsHigher, Zenon
      <4>5. Ascends(mainq'[c], roundNum'[c], Ceiling(c)')
        BY <3>1, <4>1, <4>4, Zenon
      <4>6. roundSeen'[c] <= dbRoundNum
        BY <1>2, <3>1 DEF NotLoaded
      <4> QED
        BY <2>3, <3>1, <4>3, <4>5, <4>6, Zenon
    <3> QED
      BY <3>2, <3>3
  <2> QED
    BY <2>1, <2>2, <2>3
<1>8. \A d : FiledBy(d)' = FiledBy(d)
  BY <1>1, PendingAre, PendingAreNext
<1>9. FiledOnce'
  <2>1. OneSheetPerRound'
    BY <1>0, <1>8 DEF OneSheetPerRound
  <2>2. ASSUME NEW d \in Players, NEW t \in FiledBy(d)
        PROVE  /\ t.number <= roundNum'[d] /\ t.number <= NumOfRounds
               /\ t.number = roundNum'[d] /\ screen'[d] = "Sheet" => isContentSaved'[d]
    <3>1. t.number \in Nat
      BY <1>0, OwnSheets
    <3>2. CASE d = c
      BY <1>1, <1>2, <3>1, <3>2 DEF RoundsInv, FiledOnce
    <3>3. CASE d # c
      BY <1>1, <3>3 DEF RoundsInv, FiledOnce
    <3> QED
      BY <3>2, <3>3
  <2> QED
    BY <1>8, <2>1, <2>2 DEF FiledOnce
<1>10. HostCount'
  <2>1. CASE c # Host
    <3>1. /\ mainq'[Host] = mainq[Host] /\ roundNum'[Host] = roundNum[Host]
          /\ UNCHANGED <<HostRound, HostSeen, puts, dbSheets>>
      BY <1>1, <1>2, <2>1
    <3>2. HostView' = HostView
      BY <3>1, PendingAre, PendingAreNext
    <3>3. SeenOthers' = SeenOthers
      BY <1>8, <3>1 DEF SeenOthers, HostFiled
    <3> QED
      BY <1>4, <3>1, <3>2, <3>3 DEF RoundsInv, HostCount
  <2>2. CASE c = Host
    <3>1. HostSeen' = -1 /\ mainq'[Host] = Tail(mainq[Host]) /\ roundNum'[Host] = v
      BY <1>1, <2>2 DEF NotLoaded
    <3>2. Cardinality(HostView') \in Nat
      BY <1>0, <1>1, PendingAreNext, HostTypes, ViewFinite
    <3>3. ~ SeenOthers'
      BY <3>1 DEF SeenOthers
    <3>4. AtMostOnce(Tail(mainq[Host])) /\ (AllCounted(Tail(mainq[Host])) => AllCounted(mainq[Host]))
      BY <1>1, <1>2, <2>2, CountTaken DEF RoundsInv, HostCount
    <3>5. ~ AllCounted(mainq[Host])
      BY <1>2, <1>3, <2>2 DEF RoundsInv, HostCount
    <3>6. Top # roundNum'[Host] + 1
      BY <1>1, <1>3, <2>2, <3>1
    <3>7. HostSeen' <= Cardinality(HostView')
      BY <3>1, <3>2
    <3>8. AtMostOnce(mainq'[Host]) /\ ~ AllCounted(mainq'[Host])
      BY <3>1, <3>4, <3>5
    <3> QED
      BY <1>4, <3>1, <3>3, <3>6, <3>7, <3>8 DEF HostCount, NotLoaded
  <2> QED
    BY <2>1, <2>2
<1> QED
  BY <1>5, <1>6, <1>7, <1>9, <1>10 DEF RoundsInv

-----------------------------------------------------------------------------
(* The invariant holds when the controllers are created ...                *)
LEMMA RoundsInit == Init => RoundsInv
<1> SUFFICES ASSUME Init PROVE RoundsInv
  OBVIOUS
<1>0. /\ dbRoundNum = 1 /\ dbSheets = {} /\ puts = [c \in Players |-> <<>>] /\ applied = [c \in Players |-> 0]
      /\ roundObserved = [c \in Players |-> TRUE] /\ roundSeen = [c \in Players |-> NotLoaded]
      /\ HostRound = 0 /\ HostSeen = NotLoaded /\ mainq = [c \in Players |-> <<>>]
      /\ screen = [c \in Players |-> "Sheet"] /\ roundNum = [c \in Players |-> 0]
  BY ConstantFacts DEF Init, StoreInit, HostRound, HostSeen, Rounds
<1>1. Host \in Players /\ NumOfRounds \in Nat
  BY ConstantFacts
<1>2. Top = 1 /\ Len(<<>>) = 0 /\ \A c \in Players : Len(puts[c]) = 0 /\ Len(mainq[c]) = 0
  BY <1>0, <1>1 DEF Top
<1>3. HostWrites
  <2>1. Numbers(puts[Host], applied[Host], 1, 1, CanRewind) /\ InOrder(puts[Host], 1, {})
    BY <1>1, <1>2 DEF Numbers, InOrder
  <2>2. Database(1, {})
    BY <1>1 DEF Database, Rounds
  <2> QED
    BY <1>0, <1>2, <2>1, <2>2 DEF HostWrites
<1>4. RoundsAscend
  BY <1>0, <1>1, <1>2 DEF RoundsAscend, Ascends, NotLoaded
<1>5. HostLeads
  BY <1>0, <1>1, <1>2 DEF HostLeads
<1>6. \A c \in Players : FiledBy(c) = {}
  BY <1>0, <1>2, PendingAre DEF SheetsIn
<1>7. FiledOnce
  BY <1>6 DEF FiledOnce, OneSheetPerRound
<1>8. HostView = {}
  BY <1>0, <1>1, <1>2, PendingAre DEF View, SheetsIn
<1>9. HostCount
  <2>1. ~ SeenOthers
    BY <1>0 DEF SeenOthers, NotLoaded
  <2>2. Cardinality(HostView) = 0
    BY <1>8, FS_EmptySet
  <2> QED
    BY <1>0, <1>1, <1>2, <2>1, <2>2 DEF HostCount, AtMostOnce, AllCounted, NotLoaded
<1> QED
  BY <1>3, <1>4, <1>5, <1>7, <1>9 DEF RoundsInv

(* ... and every step keeps it.                                            *)
LEMMA RoundsStep ==
    ASSUME SteadyGame, Base, RoundsInv, [Next]_vars
    PROVE  RoundsInv'
<1>1. CASE UNCHANGED vars
  BY <1>1, FrameStep DEF vars, storeVars, roundVars
<1>2. ASSUME NEW c \in Players, Tick(c) PROVE RoundsInv'
  <2>1. CASE TickTimeout(c)
    BY <2>1, SaveSheetStep DEF TickTimeout, Ticking
  <2>2. CASE ~ TickTimeout(c)
    BY <1>2, <2>2, FrameStep DEF Tick, TickRunning, TickStartSheet, TickEnableForce, TickIdle, roundVars
  <2> QED
    BY <2>1, <2>2
<1>3. ASSUME NEW c \in Players, Render(c) \/ Quit(c) \/ Fetch(c) PROVE RoundsInv'
  BY <1>3, FrameStep
     DEF Render, Quit, Fetch, GetReply, GetFails, DownloadFails, HandleReferenceSheet, roundVars
<1>4. ASSUME NEW c \in Players, Done(c) PROVE RoundsInv'
  <2>1. shownView[c] \in SheetViews /\ screen[c] = "Sheet"
    BY <1>4 DEF Done, Target, Base, TypeOK, ControllerTypeOK
  <2> QED
    BY <1>4, <2>1, SaveSheetStep DEF Done
<1>5. ASSUME NEW c \in Players, ForceEnding(c) PROVE FALSE
  BY <1>5 DEF ForceEnding, SteadyGame
<1>6. ASSUME NEW c \in Players, StoreStep(c) PROVE RoundsInv'
  <2>1. UNCHANGED <<screen, roundNum, isContentSaved>>
    BY <1>6 DEF StoreStep, unchangedByStore, roundVars
  <2> QED
    BY <1>6, <2>1, ApplyStep, AckStep, SyncRoundNumStep, SyncRoundSheetsStep DEF StoreStep
<1>7. ASSUME NEW c \in Players, LoseConnection(c) PROVE RoundsInv'
  BY <1>7, DisconnectStep DEF LoseConnection, roundVars
<1> QED
  BY <1>1, <1>2, <1>3, <1>4, <1>5, <1>6, <1>7, HandleRoundNumStep, HandleRoundSheetsStep DEF Next

(* So do the invariants proved before.                                     *)
LEMMA BaseStep ==
    ASSUME Base, [Next]_vars
    PROVE  Base'
BY NextType, FilingStep, EventStep DEF Base

(* The invariant of the rounds holds in every steady game.                 *)
LEMMA RoundsAlways == SteadyGame => (Spec => [](Base /\ RoundsInv))
<1> SUFFICES ASSUME SteadyGame PROVE Spec => [](Base /\ RoundsInv)
  OBVIOUS
<1>1. Init => Base /\ RoundsInv
  BY InitType, FilingInit, EventInit, RoundsInit DEF Base
<1>2. Base /\ RoundsInv /\ [Next]_vars => (Base /\ RoundsInv)'
  BY BaseStep, RoundsStep
<1> QED
  BY <1>1, <1>2, PTL DEF Spec

(* Nobody hands in two sheets for the same round: saveSheet is guarded by  *)
(* isContentSaved, which a new round resets, and no round number comes     *)
(* back, neither from the main queue nor from a write that was sent again. *)
THEOREM OneSheetEach == SteadyGame => (Spec => []OneSheetPerRound)
<1>1. RoundsInv => OneSheetPerRound
  BY DEF RoundsInv, FiledOnce
<1> QED
  BY <1>1, RoundsAlways, PTL

(* No round ends early: once the database has moved past a round, the      *)
(* sheets of all the players are in it, although the host counts its own   *)
(* sheet before the server has it and hears of the others late.            *)
THEOREM NoRoundEndsEarly == SteadyGame => (Spec => []RoundsComplete)
<1>1. RoundsInv => RoundsComplete
  BY DEF RoundsInv, HostWrites, Database, RoundsComplete, Filed
<1> QED
  BY <1>1, RoundsAlways, PTL

(* The players whose sheet of round r is in D.                             *)
Contributed(D, r) == {s.author : s \in {t \in D : t.number = r}}

(* Only the arrival of a write at the server changes the database.         *)
LEMMA DatabaseFrame ==
    ASSUME Next
    PROVE  \/ UNCHANGED <<dbRoundNum, dbSheets>>
           \/ \E c \in Players : ApplyPut(c) /\ UNCHANGED roundNum
<1>1. ASSUME NEW c \in Players, Tick(c) PROVE UNCHANGED <<dbRoundNum, dbSheets>>
  BY <1>1 DEF Tick, TickRunning, TickStartSheet, TickTimeout, TickEnableForce, TickIdle, SaveSheet, SaveSheetEntry,
              storeVars, serverVars
<1>2. ASSUME NEW c \in Players, Render(c) \/ Quit(c) \/ Fetch(c) \/ LoseConnection(c) \/ Done(c)
      PROVE  UNCHANGED <<dbRoundNum, dbSheets>>
  BY <1>2 DEF Render, Quit, Fetch, GetReply, GetFails, DownloadFails, HandleReferenceSheet, LoseConnection,
              Disconnect, Done, SaveSheet, SaveSheetEntry, storeVars, serverVars
<1>3. ASSUME NEW c \in Players, ForceEnding(c) \/ HandleRoundNum(c) \/ HandleRoundSheets(c)
      PROVE  UNCHANGED <<dbRoundNum, dbSheets>>
  BY <1>3 DEF ForceEnding, HandleRoundNum, HandleRoundSheets, ForceRoundEnd, UpdateRoundNum, serverVars
<1>4. ASSUME NEW c \in Players, StoreStep(c)
      PROVE  UNCHANGED <<dbRoundNum, dbSheets>> \/ (ApplyPut(c) /\ UNCHANGED roundNum)
  BY <1>4 DEF StoreStep, AckPut, SyncRoundNum, SyncRoundSheets, serverVars, unchangedByStore, roundVars
<1> QED
  BY <1>1, <1>2, <1>3, <1>4 DEF Next

(* The database moves like the barrier.                                    *)
LEMMA BarrierStep ==
    ASSUME Base, RoundsInv, NEW c \in Players, ApplyPut(c), UNCHANGED roundNum
    PROVE  \/ /\ dbRoundNum' = dbRoundNum
              /\ \/ Contributed(dbSheets', dbRoundNum) = Contributed(dbSheets, dbRoundNum)
                 \/ /\ dbRoundNum <= NumOfRounds /\ c \notin Contributed(dbSheets, dbRoundNum)
                    /\ Contributed(dbSheets', dbRoundNum) = Contributed(dbSheets, dbRoundNum) \cup {c}
           \/ /\ dbRoundNum' = dbRoundNum + 1 /\ dbRoundNum <= NumOfRounds
              /\ Contributed(dbSheets, dbRoundNum) = Players /\ Contributed(dbSheets', dbRoundNum') = {}
<1> DEFINE x == puts[c][applied[c] + 1].value
<1>0. TypeOK /\ DeliveredPutsStored
  BY DEF Base, FilingInv
<1>1. \/ RoundAt(puts[c], applied[c] + 1) /\ dbSheets' = dbSheets
      \/ /\ SheetAt(puts[c], applied[c] + 1) /\ dbRoundNum' = dbRoundNum
         /\ dbSheets' = dbSheets \cup {x} /\ x \in FiledBy(c) /\ x.author = c
  BY <1>0, ApplyEffect
<1> HIDE DEF x
<1>2. /\ dbRoundNum' \in {dbRoundNum, dbRoundNum + 1}
      /\ dbRoundNum' # dbRoundNum => /\ dbSheets' = dbSheets
                                     /\ dbRoundNum \in Rounds /\ Database(dbRoundNum + 1, dbSheets)
  BY ApplyWrites
<1>3. dbRoundNum \in Nat /\ dbSheets \in SUBSET Sheet /\ NumOfRounds \in Nat
  BY <1>0, HostTypes, ConstantFacts
<1>4. CASE dbRoundNum' = dbRoundNum /\ dbSheets' = dbSheets
  BY <1>4
<1>5. CASE dbRoundNum' = dbRoundNum /\ dbSheets' = dbSheets \cup {x} /\ x \in FiledBy(c) /\ x.author = c
  <2>1. CASE x.number # dbRoundNum
    BY <1>5, <2>1 DEF Contributed
  <2>2. CASE x.number = dbRoundNum
    <3>1. dbRoundNum <= NumOfRounds
      BY <1>5, <2>2 DEF RoundsInv, FiledOnce
    <3>2. Contributed(dbSheets', dbRoundNum) = Contributed(dbSheets, dbRoundNum) \cup {c}
      BY <1>5, <2>2 DEF Contributed
    <3> QED
      BY <1>5, <3>1, <3>2
  <2> QED
    BY <2>1, <2>2
<1>6. CASE dbRoundNum' # dbRoundNum
  <2>1. /\ dbRoundNum' = dbRoundNum + 1 /\ dbSheets' = dbSheets /\ dbRoundNum \in Rounds
        /\ Database(dbRoundNum + 1, dbSheets) /\ Database(dbRoundNum, dbSheets)
    BY <1>2, <1>6 DEF RoundsInv, HostWrites
  <2>2. dbRoundNum <= NumOfRounds
    BY <1>3, <2>1 DEF Rounds
  <2>3. Contributed(dbSheets, dbRoundNum) = Players
    <3>1. \A p \in Players : Filed(dbSheets, p, dbRoundNum)
      BY <1>3, <2>1 DEF Database
    <3>2. \A s \in dbSheets : s.author \in Players
      BY <1>3 DEF Sheet
    <3> QED
      BY <3>1, <3>2 DEF Contributed, Filed
  <2>4. \A s \in dbSheets : s.number \in Nat /\ s.number <= dbRoundNum
    BY <1>3, <2>1 DEF Database, Sheet
  <2>5. Contributed(dbSheets, dbRoundNum + 1) = {}
    BY <1>3, <2>4 DEF Contributed
  <2> QED
    BY <2>1, <2>2, <2>3, <2>5
<1> QED
  BY <1>1, <1>2, <1>4, <1>5, <1>6

(* The rounds implement the barrier of RoundBarrier, for any number of     *)
(* players and rounds: roundNum goes up by one, only when every player has *)
(* a sheet of the round in the database, and a new round starts with none. *)
THEOREM RoundsAreABarrier == SteadyGame => (Spec => BarrierSafety)
<1> SUFFICES ASSUME SteadyGame PROVE Spec => BarrierSafety
  OBVIOUS
<1>0. /\ {s.author : s \in SheetsOfRound(dbRoundNum)} = Contributed(dbSheets, dbRoundNum)
      /\ {s.author : s \in SheetsOfRound(dbRoundNum)}' = Contributed(dbSheets', dbRoundNum')
  BY DEF SheetsOfRound, Contributed
<1>1. Init => Barrier!BarrierInit
  <2> SUFFICES ASSUME Init PROVE Barrier!BarrierInit
    OBVIOUS
  <2>1. dbRoundNum = 1 /\ dbSheets = {}
    BY DEF Init, StoreInit
  <2>2. {s.author : s \in SheetsOfRound(dbRoundNum)} = {}
    BY <2>1 DEF SheetsOfRound
  <2> QED
    BY <2>1, <2>2 DEF Barrier!BarrierInit
<1>2. Base /\ RoundsInv /\ [Next]_vars => [Barrier!BarrierNext]_(Barrier!barrierVars)
  <2> SUFFICES ASSUME Base, RoundsInv, [Next]_vars PROVE [Barrier!BarrierNext]_(Barrier!barrierVars)
    OBVIOUS
  <2>1. CASE UNCHANGED <<dbRoundNum, dbSheets>>
    BY <1>0, <2>1 DEF Barrier!barrierVars
  <2>2. ASSUME NEW c \in Players, ApplyPut(c), UNCHANGED roundNum
        PROVE  [Barrier!BarrierNext]_(Barrier!barrierVars)
    <3>1. CASE dbRoundNum' = dbRoundNum /\ Contributed(dbSheets', dbRoundNum) = Contributed(dbSheets, dbRoundNum)
      BY <1>0, <3>1 DEF Barrier!barrierVars
    <3>2. CASE /\ dbRoundNum' = dbRoundNum /\ dbRoundNum <= NumOfRounds /\ c \notin Contributed(dbSheets, dbRoundNum)
               /\ Contributed(dbSheets', dbRoundNum) = Contributed(dbSheets, dbRoundNum) \cup {c}
      <4>1. Barrier!Contribute(c)
        BY <1>0, <3>2 DEF Barrier!Contribute
      <4> QED
        BY <4>1 DEF Barrier!BarrierNext
    <3>3. CASE /\ dbRoundNum' = dbRoundNum + 1 /\ dbRoundNum <= NumOfRounds
               /\ Contributed(dbSheets, dbRoundNum) = Players /\ Contributed(dbSheets', dbRoundNum') = {}
      <4>1. Barrier!Advance
        BY <1>0, <3>3 DEF Barrier!Advance
      <4> QED
        BY <4>1 DEF Barrier!BarrierNext
    <3> QED
      BY <2>2, <3>1, <3>2, <3>3, BarrierStep
  <2>3. CASE UNCHANGED vars
    BY <2>1, <2>3 DEF vars, storeVars
  <2> QED
    BY <2>1, <2>2, <2>3, DatabaseFrame
<1>3. Spec => [](Base /\ RoundsInv)
  BY RoundsAlways
<1> QED
  BY <1>1, <1>2, <1>3, PTL DEF Spec, BarrierSafety, Barrier!BarrierSafety

-----------------------------------------------------------------------------
(* The ring.                                                               *)
LEMMA SmallRemainder ==
    ASSUME NEW n \in Nat \ {0}, NEW x \in 2..(n + 1)
    PROVE  x % n = IF x < n THEN x ELSE IF x - n < n THEN x - n ELSE 0
BY SMT

(* getAuthorNumToGetRefSheet without remainders: the next player in the    *)
(* ring.                                                                   *)
LEMMA RefAuthor ==
    ASSUME NEW c \in Players
    PROVE  AuthorNumToGetRefSheet(c) = IF c = NumOfPlayers THEN 1 ELSE c + 1
<1>1. NumOfPlayers \in Nat \ {0} /\ c + 1 \in 2..(NumOfPlayers + 1) /\ c \in Nat
  BY PlayersAssumption DEF Players
<1>2. (c + 1) % NumOfPlayers = IF c + 1 < NumOfPlayers THEN c + 1
                               ELSE IF c + 1 - NumOfPlayers < NumOfPlayers THEN c + 1 - NumOfPlayers ELSE 0
  BY <1>1, SmallRemainder
<1>3. c <= NumOfPlayers
  BY DEF Players
<1> QED
  BY <1>1, <1>2, <1>3 DEF AuthorNumToGetRefSheet

(* References, and the gets and downloads that lead to them.               *)
Refs ==
    /\ ReferenceFromNeighbour
    /\ \A c \in Players :
         /\ \A r \in Rounds : gets[c][r] > 0 => r < roundNum[c]
         /\ \A s \in downloads[c] : /\ s \in dbSheets /\ s.author = AuthorNumToGetRefSheet(c)
                                    /\ s.number < roundNum[c]

(* Steps that leave references alone.                                      *)
LEMMA RefsFrame ==
    ASSUME Refs, dbSheets \subseteq dbSheets', UNCHANGED <<referenceSheet, gets, downloads, roundNum, screen>>
    PROVE  Refs'
BY DEF Refs, ReferenceFromNeighbour

(* getReferenceSheet.                                                      *)
LEMMA RefsGet ==
    ASSUME Base, Refs, NEW c \in Players, GetReferenceSheet(c), screen[c] = "Sheet",
           UNCHANGED <<dbSheets, downloads, roundNum, screen>>
    PROVE  Refs'
<1>1. /\ referenceSheet \in [Players -> Sheet \cup {NoSheet, PromptSheet}]
      /\ gets \in [Players -> [Rounds -> 0..MaxFetches]] /\ roundNum[c] \in Nat
  BY DEF Base, TypeOK, ControllerTypeOK
<1>2. CASE referenceSheet[c] # NoSheet
  BY <1>2, RefsFrame DEF GetReferenceSheet
<1>3. CASE referenceSheet[c] = NoSheet /\ roundNum[c] > 1
  <2>1. referenceSheet' = referenceSheet
    BY <1>3 DEF GetReferenceSheet
  <2>2. ReferenceFromNeighbour'
    BY <2>1 DEF Refs, ReferenceFromNeighbour
  <2>3. ASSUME NEW d \in Players, NEW r \in Rounds, gets'[d][r] > 0 PROVE r < roundNum[d]
    <3>1. CASE gets' = gets
      BY <2>3, <3>1 DEF Refs
    <3>2. CASE gets' = [gets EXCEPT ![c][roundNum[c] - 1] = @ + 1]
      <4>1. gets'[d][r] = gets[d][r] \/ (d = c /\ r = roundNum[c] - 1)
        BY <1>1, <3>2
      <4> QED
        BY <1>1, <2>3, <4>1 DEF Refs
    <3> QED
      BY <1>3, <3>1, <3>2 DEF GetReferenceSheet
  <2> QED
    BY <2>2, <2>3 DEF Refs
<1>4. CASE referenceSheet[c] = NoSheet /\ ~ (roundNum[c] > 1)
  <2>1. referenceSheet' = [referenceSheet EXCEPT ![c] = PromptSheet] /\ gets' = gets
    BY <1>4 DEF GetReferenceSheet
  <2>2. ReferenceFromNeighbour'
    BY <1>1, <1>4, <2>1 DEF Refs, ReferenceFromNeighbour
  <2> QED
    BY <2>1, <2>2 DEF Refs
<1> QED
  BY <1>2, <1>3, <1>4

(* Answers, failures and downloads.                                        *)
LEMMA RefsFetch ==
    ASSUME Base, Refs, NEW c \in Players, Fetch(c)
    PROVE  Refs'
<1>1. /\ referenceSheet \in [Players -> Sheet \cup {NoSheet, PromptSheet}] /\ downloads \in [Players -> SUBSET Sheet]
      /\ gets \in [Players -> [Rounds -> 0..MaxFetches]] /\ roundNum[c] \in Nat
  BY DEF Base, TypeOK, ControllerTypeOK
<1>2. UNCHANGED <<dbSheets, roundNum, screen>>
  BY DEF Fetch, GetReply, GetFails, DownloadFails, HandleReferenceSheet, storeVars, roundVars
<1>3. ASSUME NEW r \in Rounds, GetReply(c, r) \/ GetFails(c, r) PROVE Refs'
  <2>1. gets' = [gets EXCEPT ![c][r] = @ - 1] /\ gets[c][r] > 0 /\ referenceSheet' = referenceSheet
    BY <1>3 DEF GetReply, GetFails, roundVars
  <2>2. r < roundNum[c]
    BY <2>1 DEF Refs
  <2>3. ASSUME NEW d \in Players, NEW t \in Rounds, gets'[d][t] > 0 PROVE t < roundNum[d]
    <3>1. gets'[d][t] = gets[d][t] \/ (d = c /\ t = r)
      BY <1>1, <2>1
    <3> QED
      BY <2>2, <2>3, <3>1 DEF Refs
  <2>4. ASSUME NEW d \in Players, NEW s \in downloads'[d]
        PROVE  s \in downloads[d] \/ (d = c /\ s \in dbSheets /\ s.number = r /\ s.author = AuthorNumToGetRefSheet(c))
    BY <1>1, <1>3, <2>4 DEF GetReply, GetFails, SheetsOfRound
  <2>5. ReferenceFromNeighbour'
    BY <1>2, <2>1 DEF Refs, ReferenceFromNeighbour
  <2> QED
    BY <1>2, <2>2, <2>3, <2>4, <2>5 DEF Refs
<1>4. ASSUME NEW s \in downloads[c], DownloadFails(c, s) \/ HandleReferenceSheet(c, s) PROVE Refs'
  <2>1. gets' = gets /\ downloads' = [downloads EXCEPT ![c] = @ \ {s}]
    BY <1>4 DEF DownloadFails, HandleReferenceSheet
  <2>2. \A d \in Players : downloads'[d] \subseteq downloads[d]
    BY <1>1, <2>1
  <2>3. s \in dbSheets /\ s.number < roundNum[c] /\ s.author = IF c = NumOfPlayers THEN 1 ELSE c + 1
    BY RefAuthor DEF Refs
  <2>4. referenceSheet' = referenceSheet \/ referenceSheet' = [referenceSheet EXCEPT ![c] = s]
    BY <1>4 DEF DownloadFails, HandleReferenceSheet, roundVars
  <2>5. ReferenceFromNeighbour'
    <3> SUFFICES ASSUME NEW d \in Players, referenceSheet'[d] # NoSheet
                 PROVE  \/ referenceSheet'[d] = PromptSheet /\ (roundNum[d] <= 1 \/ screen[d] = "Summary")
                        \/ /\ referenceSheet'[d] \in dbSheets
                           /\ referenceSheet'[d].author = IF d = NumOfPlayers THEN 1 ELSE d + 1
                           /\ referenceSheet'[d].number < roundNum[d]
      BY <1>2 DEF ReferenceFromNeighbour
    <3>1. referenceSheet'[d] = referenceSheet[d] \/ (d = c /\ referenceSheet'[d] = s)
      BY <1>1, <2>4
    <3> QED
      BY <2>3, <3>1 DEF Refs, ReferenceFromNeighbour
  <2> QED
    BY <1>2, <2>1, <2>2, <2>5 DEF Refs
<1> QED
  BY <1>3, <1>4 DEF Fetch

(* A new round forgets the reference of the old one.                       *)
LEMMA RefsRound ==
    ASSUME Base, RoundsInv, Refs, NEW c \in Players, HandleRoundNum(c)
    PROVE  Refs'
<1> DEFINE v == Head(mainq[c]).value
<1>1. /\ v \in Nat /\ roundNum[c] < v /\ roundNum'[c] = v /\ UNCHANGED dbSheets
      /\ \A d \in Players \ {c} : roundNum'[d] = roundNum[d] /\ screen'[d] = screen[d]
      /\ v \in Rounds \/ (v \notin Rounds /\ screen'[c] = "Summary")
  BY NextRound
<1>2. /\ referenceSheet \in [Players -> Sheet \cup {NoSheet, PromptSheet}]
      /\ roundNum[c] \in Nat
  BY DEF Base, TypeOK, ControllerTypeOK
<1>3. UNCHANGED <<gets, downloads>>
  BY DEF HandleRoundNum, fetchVars
<1>4. referenceSheet' = IF v \in Rounds THEN [referenceSheet EXCEPT ![c] = NoSheet] ELSE referenceSheet
  BY <1>1, <1>2 DEF HandleRoundNum, InitializeRound
<1> HIDE DEF v
<1>5. \A s \in dbSheets : s.number \in Nat
  BY DEF Base, TypeOK, StoreTypeOK, Sheet
<1>6. ReferenceFromNeighbour'
  <2> SUFFICES ASSUME NEW d \in Players, referenceSheet'[d] # NoSheet
               PROVE  \/ referenceSheet'[d] = PromptSheet /\ (roundNum'[d] <= 1 \/ screen'[d] = "Summary")
                      \/ /\ referenceSheet'[d] \in dbSheets
                         /\ referenceSheet'[d].author = IF d = NumOfPlayers THEN 1 ELSE d + 1
                         /\ referenceSheet'[d].number < roundNum'[d]
    BY <1>1 DEF ReferenceFromNeighbour
  <2>1. referenceSheet'[d] = referenceSheet[d]
    BY <1>2, <1>4
  <2>2. CASE d # c
    BY <1>1, <2>1, <2>2 DEF Refs, ReferenceFromNeighbour
  <2>3. CASE d = c
    <3>1. v \notin Rounds
      BY <1>2, <1>4, <2>3
    <3> QED
      BY <1>1, <1>2, <1>5, <2>1, <2>3, <3>1 DEF Refs, ReferenceFromNeighbour
  <2> QED
    BY <2>2, <2>3
<1>7. ASSUME NEW d \in Players, NEW r \in Rounds, gets[d][r] > 0 PROVE r < roundNum'[d]
  BY <1>1, <1>2, <1>7 DEF Refs, Rounds
<1>8. ASSUME NEW d \in Players, NEW s \in downloads[d]
      PROVE  s \in dbSheets /\ s.author = AuthorNumToGetRefSheet(d) /\ s.number < roundNum'[d]
  BY <1>1, <1>2, <1>5, <1>8 DEF Refs
<1> QED
  BY <1>1, <1>3, <1>6, <1>7, <1>8 DEF Refs

(* Every step keeps the references in order.                               *)
LEMMA RefsStep ==
    ASSUME SteadyGame, Base, RoundsInv, Refs, [Next]_vars
    PROVE  Refs'
<1>1. CASE UNCHANGED vars
  BY <1>1, RefsFrame DEF vars, storeVars, roundVars, fetchVars
<1>2. ASSUME NEW c \in Players, Tick(c) PROVE Refs'
  <2>1. UNCHANGED <<dbSheets, downloads, roundNum, screen>> /\ screen[c] = "Sheet"
    BY <1>2 DEF Tick, TickRunning, TickStartSheet, TickTimeout, TickEnableForce, TickIdle, Ticking, SaveSheet,
                SaveSheetEntry, storeVars, serverVars, roundVars, fetchVars
  <2>2. GetReferenceSheet(c) \/ UNCHANGED <<referenceSheet, gets>>
    BY <1>2 DEF Tick, TickRunning, TickStartSheet, TickTimeout, TickEnableForce, TickIdle, roundVars, fetchVars
  <2> QED
    BY <2>1, <2>2, RefsGet, RefsFrame
<1>3. ASSUME NEW c \in Players, Render(c) \/ Quit(c) \/ Done(c) PROVE Refs'
  BY <1>3, RefsFrame DEF Render, Quit, Done, SaveSheet, SaveSheetEntry, storeVars, serverVars, roundVars, fetchVars
<1>4. ASSUME NEW c \in Players, ForceEnding(c) PROVE FALSE
  BY <1>4 DEF ForceEnding, SteadyGame
<1>5. ASSUME NEW c \in Players, HandleRoundSheets(c) PROVE Refs'
  BY <1>5, RefsFrame DEF HandleRoundSheets, ForceRoundEnd, UpdateRoundNum, serverVars, roundVars, fetchVars
<1>6. ASSUME NEW c \in Players, StoreStep(c) PROVE Refs'
  <2>1. UNCHANGED <<referenceSheet, gets, downloads, roundNum, screen>>
    BY <1>6 DEF StoreStep, unchangedByStore, roundVars, fetchVars
  <2>2. dbSheets \subseteq dbSheets'
    BY <1>6 DEF StoreStep, ApplyPut, AckPut, SyncRoundNum, SyncRoundSheets, serverVars
  <2> QED
    BY <2>1, <2>2, RefsFrame
<1>7. ASSUME NEW c \in Players, LoseConnection(c) PROVE Refs'
  <2>1. /\ UNCHANGED <<referenceSheet, downloads, roundNum, screen, dbSheets>>
        /\ gets' = [gets EXCEPT ![c] = [r \in Rounds |-> 0]]
    BY <1>7 DEF LoseConnection, Disconnect, serverVars, roundVars
  <2>2. gets \in [Players -> [Rounds -> 0..MaxFetches]]
    BY DEF Base, TypeOK, ControllerTypeOK
  <2>3. \A d \in Players, r \in Rounds : gets'[d][r] = gets[d][r] \/ gets'[d][r] = 0
    BY <2>1, <2>2
  <2>4. ReferenceFromNeighbour'
    BY <2>1 DEF Refs, ReferenceFromNeighbour
  <2> QED
    BY <2>1, <2>3, <2>4 DEF Refs
<1> QED
  BY <1>1, <1>2, <1>3, <1>4, <1>5, <1>6, <1>7, RefsFetch, RefsRound DEF Next

(* At first there are none.                                                *)
LEMMA RefsInit == Init => Refs
BY DEF Init, Refs, ReferenceFromNeighbour

(* What a player works from is the prompt, in the first round, or a sheet  *)
(* that the next player in the ring filed in an earlier round, however     *)
(* late and in whatever order the answers of the gets arrive.              *)
THEOREM ReferencesFollowTheRing == SteadyGame => (Spec => []ReferenceFromNeighbour)
<1> SUFFICES ASSUME SteadyGame PROVE Spec => []ReferenceFromNeighbour
  OBVIOUS
<1>1. Spec => [](Base /\ RoundsInv)
  BY RoundsAlways
<1>2. Base /\ RoundsInv /\ Refs /\ [Next]_vars => Refs'
  BY RefsStep
<1>3. Refs => ReferenceFromNeighbour
  BY DEF Refs
<1> QED
  BY <1>1, <1>2, <1>3, RefsInit, PTL DEF Spec

=============================================================================
