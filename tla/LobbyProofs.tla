------------------------------ MODULE LobbyProofs ------------------------------
(***************************************************************************)
(* What holds in the lobby for any number of devices, taps and faults.     *)
(*                                                                         *)
(* The queues: their types, and that what a device has not seen            *)
(* acknowledged is, in order, what is on its way (LobbyInv).               *)
(* The host: who asks for the code, who owns the game, and that nobody     *)
(* owns a code that is answered to be free (HostInv).                      *)
(* The numbers: there is one numbering that everything stored, sent,       *)
(* answered and shown agrees with (NumbersInv).                            *)
(* The seats: an undisturbed start goes through four phases, and in the    *)
(* last one every list that a device can get is complete (SeatsInv).       *)
(* The list: a player is at one place on the way from the tap to the       *)
(* waiting room (TapsInv), and who enters it is on the server's list or    *)
(* has a write under way that no other write undoes (ListInv).             *)
(***************************************************************************)
EXTENDS Lobby, SequenceTheorems, FirstOrderInduction

-----------------------------------------------------------------------------
(* Queues.                                                                 *)

(* At most one message of a queue has this op.                             *)
Once(q, op) == \A i, j \in 1..Len(q) : q[i].op = op /\ q[j].op = op => i = j

(* What waits in a queue when a message is added at its end, ...           *)
LEMMA AppendAt ==
    ASSUME NEW S, NEW q \in Seq(S), NEW m \in S
    PROVE  /\ Append(q, m) \in Seq(S) /\ Len(q) \in Nat /\ Len(Append(q, m)) = Len(q) + 1
           /\ \A i \in 1..Len(q) : i \in 1..(Len(q) + 1) /\ Append(q, m)[i] = q[i]
           /\ Append(q, m)[Len(q) + 1] = m
           /\ \A i \in 1..(Len(q) + 1) : i \in 1..Len(q) \/ i = Len(q) + 1
OBVIOUS

(* ... in terms of kinds of message, ...                                   *)
LEMMA WaitsAppend ==
    ASSUME NEW S, NEW q \in Seq(S), NEW m \in S, NEW ops
    PROVE  Waits(Append(q, m), ops) <=> Waits(q, ops) \/ m.op \in ops
<1> DEFINE t == Append(q, m)
           n == Len(q)
<1>1. /\ t \in Seq(S) /\ n \in Nat /\ Len(t) = n + 1
      /\ \A i \in 1..n : i \in 1..(n + 1) /\ t[i] = q[i]
      /\ t[n + 1] = m
      /\ \A i \in 1..(n + 1) : i \in 1..n \/ i = n + 1
  BY AppendAt, Zenon
<1>2. n + 1 \in 1..(n + 1)
  BY <1>1
<1> HIDE DEF t, n
<1>3. Waits(t, ops) <=> Waits(q, ops) \/ m.op \in ops
  BY <1>1, <1>2, Zenon DEF Waits, n
<1> QED
  BY <1>3 DEF t

(* ... when a sequence of messages is added, ...                           *)
LEMMA ConcatAt ==
    ASSUME NEW S, NEW q \in Seq(S), NEW r \in Seq(S)
    PROVE  /\ q \o r \in Seq(S) /\ Len(q) \in Nat /\ Len(r) \in Nat /\ Len(q \o r) = Len(q) + Len(r)
           /\ \A i \in 1..Len(q) : i \in 1..(Len(q) + Len(r)) /\ (q \o r)[i] = q[i]
           /\ \A i \in 1..Len(r) : Len(q) + i \in 1..(Len(q) + Len(r)) /\ (q \o r)[Len(q) + i] = r[i]
           /\ \A i \in 1..(Len(q) + Len(r)) : i \in 1..Len(q) \/ \E j \in 1..Len(r) : i = Len(q) + j
<1>1. /\ q \o r \in Seq(S) /\ Len(q) \in Nat /\ Len(r) \in Nat /\ Len(q \o r) = Len(q) + Len(r)
  OBVIOUS
<1>2. \A i \in 1..Len(q) : i \in 1..(Len(q) + Len(r)) /\ (q \o r)[i] = q[i]
  OBVIOUS
<1>3. \A i \in 1..Len(r) : Len(q) + i \in 1..(Len(q) + Len(r)) /\ (q \o r)[Len(q) + i] = r[i]
  OBVIOUS
<1>4. ASSUME NEW i \in 1..(Len(q) + Len(r)), i \notin 1..Len(q)
      PROVE  \E j \in 1..Len(r) : i = Len(q) + j
  <2>1. i - Len(q) \in 1..Len(r) /\ i = Len(q) + (i - Len(q))
    BY <1>1, <1>4
  <2> QED
    BY <2>1
<1> QED
  BY <1>1, <1>2, <1>3, <1>4

(* The same for several messages.                                          *)
LEMMA WaitsConcat ==
    ASSUME NEW S, NEW q \in Seq(S), NEW r \in Seq(S), NEW ops
    PROVE  Waits(q \o r, ops) <=> Waits(q, ops) \/ Waits(r, ops)
<1> DEFINE t == q \o r
<1>1. /\ t \in Seq(S) /\ Len(q) \in Nat /\ Len(r) \in Nat /\ Len(t) = Len(q) + Len(r)
      /\ \A i \in 1..Len(q) : i \in 1..(Len(q) + Len(r)) /\ t[i] = q[i]
      /\ \A i \in 1..Len(r) : Len(q) + i \in 1..(Len(q) + Len(r)) /\ t[Len(q) + i] = r[i]
      /\ \A i \in 1..(Len(q) + Len(r)) : i \in 1..Len(q) \/ \E j \in 1..Len(r) : i = Len(q) + j
  BY ConcatAt, Zenon
<1> HIDE DEF t
<1>2. ASSUME Waits(t, ops) PROVE Waits(q, ops) \/ Waits(r, ops)
  <2>1. PICK i \in 1..(Len(q) + Len(r)) : t[i].op \in ops
    BY <1>1, <1>2, Zenon DEF Waits
  <2>2. CASE i \in 1..Len(q)
    BY <1>1, <2>1, <2>2, Zenon DEF Waits
  <2>3. CASE \E j \in 1..Len(r) : i = Len(q) + j
    BY <1>1, <2>1, <2>3, Zenon DEF Waits
  <2> QED
    BY <1>1, <2>2, <2>3, Zenon
<1>3. ASSUME Waits(q, ops) PROVE Waits(t, ops)
  BY <1>1, <1>3, Zenon DEF Waits
<1>4. ASSUME Waits(r, ops) PROVE Waits(t, ops)
  BY <1>1, <1>4, Zenon DEF Waits
<1> QED
  BY <1>2, <1>3, <1>4 DEF t

(* ... and when the oldest message is taken out.                           *)
LEMMA TailAt ==
    ASSUME NEW S, NEW q \in Seq(S), q # <<>>
    PROVE  /\ Tail(q) \in Seq(S) /\ Len(Tail(q)) \in Nat /\ Len(q) = Len(Tail(q)) + 1
           /\ 1 \in 1..Len(q) /\ Head(q) = q[1] /\ Head(q) \in S
           /\ \A i \in 1..Len(Tail(q)) : i + 1 \in 1..Len(q) /\ Tail(q)[i] = q[i + 1]
           /\ \A i \in 1..Len(q) : i = 1 \/ \E j \in 1..Len(Tail(q)) : i = j + 1
<1>1. /\ Tail(q) \in Seq(S) /\ Len(Tail(q)) \in Nat /\ Len(q) = Len(Tail(q)) + 1
      /\ 1 \in 1..Len(q) /\ Head(q) = q[1] /\ Head(q) \in S
  OBVIOUS
<1>2. \A i \in 1..Len(Tail(q)) : i + 1 \in 1..Len(q) /\ Tail(q)[i] = q[i + 1]
  OBVIOUS
<1>3. ASSUME NEW i \in 1..Len(q), i # 1
      PROVE  \E j \in 1..Len(Tail(q)) : i = j + 1
  <2>1. i - 1 \in 1..Len(Tail(q)) /\ i = (i - 1) + 1
    BY <1>1, <1>3
  <2> QED
    BY <2>1
<1> QED
  BY <1>1, <1>2, <1>3

(* The same when the oldest one is taken.                                  *)
LEMMA WaitsTail ==
    ASSUME NEW S, NEW q \in Seq(S), q # <<>>, NEW ops
    PROVE  Waits(q, ops) <=> Head(q).op \in ops \/ Waits(Tail(q), ops)
<1> DEFINE t == Tail(q)
           h == Head(q)
<1>1. /\ 1 \in 1..Len(q) /\ h = q[1]
      /\ \A i \in 1..Len(t) : i + 1 \in 1..Len(q) /\ t[i] = q[i + 1]
      /\ \A i \in 1..Len(q) : i = 1 \/ \E j \in 1..Len(t) : i = j + 1
  BY TailAt, Zenon
<1> HIDE DEF t, h
<1>2. Waits(q, ops) <=> h.op \in ops \/ Waits(t, ops)
  BY <1>1, Zenon DEF Waits
<1> QED
  BY <1>2 DEF t, h

(* The same for a message that occurs at most once.                        *)
LEMMA OnceAppend ==
    ASSUME NEW S, NEW q \in Seq(S), NEW m \in S, NEW op, Once(q, op), ~ Waits(q, {op}) \/ m.op # op
    PROVE  Once(Append(q, m), op)
<1> DEFINE t == Append(q, m)
           n == Len(q)
<1>1. /\ t \in Seq(S) /\ n \in Nat /\ Len(t) = n + 1
      /\ \A i \in 1..n : i \in 1..(n + 1) /\ t[i] = q[i]
      /\ t[n + 1] = m
      /\ \A i \in 1..(n + 1) : i \in 1..n \/ i = n + 1
  BY AppendAt, Zenon
<1> HIDE DEF t, n
<1>2. Once(t, op)
  BY <1>1, Zenon DEF Once, Waits, n
<1> QED
  BY <1>2 DEF t

(* It remains the only one when others are added.                          *)
LEMMA OnceConcat ==
    ASSUME NEW S, NEW q \in Seq(S), NEW r \in Seq(S), NEW op, Once(q, op), ~ Waits(r, {op})
    PROVE  Once(q \o r, op)
<1> DEFINE t == q \o r
<1>1. /\ t \in Seq(S) /\ Len(q) \in Nat /\ Len(r) \in Nat /\ Len(t) = Len(q) + Len(r)
      /\ \A i \in 1..Len(q) : i \in 1..(Len(q) + Len(r)) /\ t[i] = q[i]
      /\ \A i \in 1..Len(r) : Len(q) + i \in 1..(Len(q) + Len(r)) /\ t[Len(q) + i] = r[i]
      /\ \A i \in 1..(Len(q) + Len(r)) : i \in 1..Len(q) \/ \E j \in 1..Len(r) : i = Len(q) + j
  BY ConcatAt, Zenon
<1> HIDE DEF t
<1>2. \A i \in 1..Len(t) : t[i].op = op => i \in 1..Len(q) /\ q[i].op = op
  <2> SUFFICES ASSUME NEW i \in 1..Len(t), t[i].op = op
               PROVE  i \in 1..Len(q) /\ q[i].op = op
    OBVIOUS
  <2>1. CASE i \in 1..Len(q)
    BY <1>1, <2>1, Zenon
  <2>2. CASE \E j \in 1..Len(r) : i = Len(q) + j
    <3>1. PICK j \in 1..Len(r) : i = Len(q) + j
      BY <2>2
    <3>2. r[j].op = op
      BY <1>1, <3>1, Zenon
    <3> QED
      BY <3>2 DEF Waits
  <2> QED
    BY <1>1, <2>1, <2>2, Zenon
<1>3. Once(t, op)
  BY <1>2, Zenon DEF Once
<1> QED
  BY <1>3 DEF t

(* When the only one is taken, none is left.                               *)
LEMMA OnceTail ==
    ASSUME NEW S, NEW q \in Seq(S), q # <<>>, NEW op, Once(q, op)
    PROVE  Once(Tail(q), op) /\ (Head(q).op = op => ~ Waits(Tail(q), {op}))
<1> DEFINE t == Tail(q)
           h == Head(q)
<1>1. /\ 1 \in 1..Len(q) /\ h = q[1] /\ Len(t) \in Nat
      /\ \A i \in 1..Len(t) : i + 1 \in 1..Len(q) /\ t[i] = q[i + 1]
  BY TailAt, Zenon
<1> HIDE DEF t, h
<1>2. Once(t, op)
  <2> SUFFICES ASSUME NEW i \in 1..Len(t), NEW j \in 1..Len(t), t[i].op = op, t[j].op = op
               PROVE  i = j
    BY DEF Once
  <2>1. i + 1 = j + 1
    BY <1>1, Zenon DEF Once
  <2> QED
    BY <2>1
<1>3. ASSUME h.op = op, Waits(t, {op}) PROVE FALSE
  <2>1. PICK i \in 1..Len(t) : t[i].op = op
    BY <1>3 DEF Waits
  <2>2. i + 1 = 1
    BY <1>1, <1>3, <2>1, Zenon DEF Once
  <2> QED
    BY <2>2
<1> QED
  BY <1>2, <1>3 DEF t, h

(* None is at most one.                                                    *)
LEMMA OnceNone ==
    ASSUME NEW q, NEW op, ~ Waits(q, {op})
    PROVE  Once(q, op)
BY DEF Once, Waits

-----------------------------------------------------------------------------
(* Types.                                                                  *)

Game == [exists: BOOLEAN, roundNum: 0..1, players: [Id -> Entry]]

(* A write, ...                                                            *)
WriteMsg == {m \in [op: WriteOps, id: Id \cup {NoId}, number: Nat] :
               IF m.op = "setRound" THEN m.number <= 1 ELSE m.id \in Id}

(* ... what a device sends, what comes back, and what waits for its main   *)
(* queue.                                                                  *)
GetMsg(d) == [op: GetOps, id: Mine(d, Id), number: {0}]
OutMsg(d) == WriteMsg \cup GetMsg(d)
InMsg(d) == {a \in [op: GetOps \cup WriteOps, id: Id \cup {NoId}, exists: BOOLEAN, roundNum: 0..1,
                    players: [Id -> Entry]] : a.op \in GetOps => a.id \in Mine(d, Id)}
RoundBlock(d) == [op: {"roundNum"}, id: Mine(d, Id)]
SettingsBlock(d) == [op: {"settings"}, id: Mine(d, Id)]
RosterBlock(d, players) == [op: {"roster"}, id: Mine(d, Id), players: {players}]
BlockOf(d) == RoundBlock(d) \cup SettingsBlock(d)
                \cup [op: {"enter"}, id: Mine(d, Id), isHost: BOOLEAN]
                \cup [op: {"roster"}, id: Mine(d, Id), players: [Id -> Entry]]
Seat(d) == [id: Mine(d, Id), number: Nat, count: Nat]

OnDevices(f) == f = [d \in Devices |-> f[d]]

OutTypes  == OnDevices(outbox)  /\ \A d \in Devices : outbox[d] \in Seq(OutMsg(d))
UnTypes   == OnDevices(unacked) /\ \A d \in Devices : unacked[d] \in Seq(WriteMsg)
InTypes   == OnDevices(inbox)   /\ \A d \in Devices : inbox[d] \in Seq(InMsg(d))
MainTypes == OnDevices(mainq)   /\ \A d \in Devices : mainq[d] \in Seq(BlockOf(d))

QueueTypes == OutTypes /\ UnTypes /\ InTypes /\ MainTypes

RoomTypes ==
    /\ screen \in [Devices -> {"Home", "WaitingRoom", "Sheet"}]
    /\ OnDevices(current) /\ OnDevices(seat)
    /\ \A d \in Devices :
         /\ current[d] \in Mine(d, Id) \cup {NoId}
         /\ screen[d] = "WaitingRoom" => current[d] \in Mine(d, Id)
         /\ (seat[d] = NoSeat /\ screen[d] # "Sheet") \/ seat[d] \in Seat(d)
    /\ hosting \subseteq Id /\ settings \subseteq Id /\ listening \subseteq Id /\ told \subseteq listening

TapTypes ==
    /\ alive \in [Devices -> BOOLEAN]
    /\ taps \in [Devices -> 0..MaxTaps] /\ starts \in 0..MaxStarts /\ faults \in 0..MaxFaults
    /\ disturbed \in BOOLEAN /\ contested \in BOOLEAN /\ getLost \in BOOLEAN

LobbyTypes == db \in Game /\ QueueTypes /\ RoomTypes /\ TapTypes

(* The identities are finitely many.                                       *)
LEMMA FiniteIds == IsFiniteSet(Id)
<1>1. IsFiniteSet(1..MaxTaps)
  BY LobbyAssumption, FS_Interval
<1> QED
  BY <1>1, LobbyAssumption, FS_Product DEF Id

(* So are the players of a game.                                           *)
LEMMA FinitePresent ==
    ASSUME NEW players
    PROVE  Present(players) \subseteq Id /\ IsFiniteSet(Present(players))
             /\ Cardinality(Present(players)) \in Nat
<1>1. Present(players) \subseteq Id
  BY DEF Present
<1> QED
  BY <1>1, FiniteIds, FS_Subset, FS_CardinalityType

(* An order of the elements of a finite set.                               *)
LEMMA OrderIs ==
    ASSUME NEW S, IsFiniteSet(S), NEW order \in SetToSeqs(S)
    PROVE  /\ order \in Seq(S) /\ Len(order) = Cardinality(S) /\ Len(order) \in Nat
           /\ \A i \in 1..Len(order) : order[i] \in S
           /\ \A i, j \in 1..Len(order) : i # j => order[i] # order[j]
<1>1. Cardinality(S) \in Nat
  BY FS_CardinalityType
<1> DEFINE n == Cardinality(S)
<1>2. order \in [1..n -> S] /\ \A i, j \in 1..n : i # j => order[i] # order[j]
  BY Zenon DEF SetToSeqs
<1> HIDE DEF n
<1>3. n \in Nat
  BY <1>1 DEF n
<1>4. order \in Seq(S) /\ Len(order) = n
  BY <1>2, <1>3
<1> QED
  BY <1>2, <1>3, <1>4 DEF n

(* The identities of one device.                                           *)
LEMMA MineAre ==
    ASSUME NEW d \in Devices
    PROVE  /\ Mine(d, Id) \subseteq Id
           /\ NoId \notin Id
           /\ \A id \in Mine(d, Id) : DeviceOf(id) = d
           /\ \A k \in 1..MaxTaps : <<d, k>> \in Mine(d, Id)
<1>1. NoId \notin Id
  BY DEF Id, NoId
<1> QED
  BY <1>1 DEF Mine, Id, DeviceOf

(* A write stores a game.                                                  *)
LEMMA StoredIsGame ==
    ASSUME NEW g \in Game, NEW m \in WriteMsg
    PROVE  Stored(g, m) \in Game
<1>1. m.op \in WriteOps /\ m.number \in Nat /\ (m.op = "setRound" => m.number <= 1)
        /\ (m.op # "setRound" => m.id \in Id)
  BY DEF WriteMsg
<1>2. Absent \in Entry /\ Empty \in [Id -> Entry]
  BY DEF Absent, Entry, Empty
<1>3. g.players \in [Id -> Entry] /\ g.roundNum \in 0..1 /\ g.exists \in BOOLEAN
  BY DEF Game
<1>4. CASE m.op = "setGame"
  <2>1. [Empty EXCEPT ![m.id].joined = TRUE] \in [Id -> Entry]
    BY <1>1, <1>2, <1>4 DEF Entry
  <2>2. Stored(g, m) = [exists |-> TRUE, roundNum |-> 0, players |-> [Empty EXCEPT ![m.id].joined = TRUE]]
    BY <1>4 DEF Stored
  <2> QED
    BY <2>1, <2>2 DEF Game
<1>5. CASE m.op = "setPlayer"
  <2>1. [g.players EXCEPT ![m.id] = [joined |-> TRUE, number |-> 0]] \in [Id -> Entry]
    BY <1>1, <1>3, <1>5 DEF Entry
  <2>2. Stored(g, m) = [g EXCEPT !.players = [g.players EXCEPT ![m.id] = [joined |-> TRUE, number |-> 0]]]
    BY <1>5 DEF Stored
  <2> QED
    BY <2>1, <2>2 DEF Game
<1>6. CASE m.op = "setNumber"
  <2>1. [g.players EXCEPT ![m.id].number = m.number] \in [Id -> Entry]
    BY <1>1, <1>3, <1>6 DEF Entry
  <2>2. Stored(g, m) = [g EXCEPT !.players = [g.players EXCEPT ![m.id].number = m.number]]
    BY <1>6 DEF Stored
  <2> QED
    BY <2>1, <2>2 DEF Game
<1>7. CASE m.op = "remove"
  <2>1. [g.players EXCEPT ![m.id] = Absent] \in [Id -> Entry]
    BY <1>1, <1>2, <1>3, <1>7
  <2>2. Stored(g, m) = [g EXCEPT !.players = [g.players EXCEPT ![m.id] = Absent]]
    BY <1>7 DEF Stored
  <2> QED
    BY <2>1, <2>2 DEF Game
<1>8. CASE m.op = "setRound"
  <2>1. m.number \in 0..1
    BY <1>1, <1>8
  <2>2. Stored(g, m) = [g EXCEPT !.roundNum = m.number]
    BY <1>8 DEF Stored
  <2> QED
    BY <2>1, <2>2 DEF Game
<1> QED
  BY <1>1, <1>4, <1>5, <1>6, <1>7, <1>8 DEF WriteOps

(* What the SDK shows is built up from the server's data, one pending      *)
(* write after the other.                                                  *)
ViewOf(d, View) ==
    /\ LocalView(d) = View[Len(unacked[d])]
    /\ \A i \in 0..Len(unacked[d]) : View[i] = IF i = 0 THEN db ELSE Stored(View[i - 1], unacked[d][i])

(* There are such steps when the games that can come up are in a set G.    *)
LEMMA LocalViewSteps ==
    ASSUME NEW G, NEW d \in Devices, db \in G, unacked[d] \in Seq(WriteMsg),
           \A g \in G : \A i \in 1..Len(unacked[d]) : Stored(g, unacked[d][i]) \in G
    PROVE  \E View : ViewOf(d, View)
<1> DEFINE u == unacked[d]
           N == Len(u)
           Loop(n, f) == \A i \in 0..n : f[i] = IF i = 0 THEN db ELSE Stored(f[i - 1], u[i])
           H == {n \in Nat : n <= N => \E f \in [0..n -> G] : Loop(n, f)}
<1>0. N \in Nat
  OBVIOUS
<1> HIDE DEF N
<1>1. 0 \in H
  <2> DEFINE f == [i \in 0..0 |-> db]
  <2>1. f \in [0..0 -> G] /\ Loop(0, f)
    OBVIOUS
  <2> HIDE DEF f, Loop
  <2> QED
    BY <2>1
<1>2. ASSUME NEW n \in Nat, n \in H PROVE n + 1 \in H
  <2> SUFFICES ASSUME n + 1 <= N
               PROVE  \E f \in [0..(n + 1) -> G] : Loop(n + 1, f)
    <3> HIDE DEF Loop
    <3> QED
      OBVIOUS
  <2>1. PICK f \in [0..n -> G] : Loop(n, f)
    <3>1. n <= N
      BY <1>0
    <3> HIDE DEF Loop
    <3> QED
      BY <1>2, <3>1
  <2> DEFINE last == Stored(f[n], u[n + 1])
             g == [i \in 0..(n + 1) |-> IF i = n + 1 THEN last ELSE f[i]]
  <2>2. last \in G
    <3>1. n + 1 \in 1..Len(unacked[d]) /\ f[n] \in G
      BY <1>0 DEF N
    <3> QED
      BY <3>1, Zenon
  <2>3. g \in [0..(n + 1) -> G]
    <3> HIDE DEF last
    <3> QED
      BY <2>2
  <2>4. ASSUME NEW i \in 0..(n + 1)
        PROVE  g[i] = IF i = 0 THEN db ELSE Stored(g[i - 1], u[i])
    <3>1. CASE i = n + 1
      <4>1. g[i] = last /\ g[i - 1] = f[n] /\ i # 0
        <5> HIDE DEF last
        <5> QED
          BY <3>1
      <4> QED
        BY <3>1, <4>1, Zenon
    <3>2. CASE i # n + 1
      <4>1. i \in 0..n /\ g[i] = f[i] /\ (i # 0 => g[i - 1] = f[i - 1])
        <5> HIDE DEF last
        <5> QED
          BY <3>2
      <4> QED
        BY <4>1, <2>1, Zenon
    <3> QED
      BY <3>1, <3>2
  <2>5. Loop(n + 1, g)
    <3> HIDE DEF g
    <3> QED
      BY <2>4
  <2> HIDE DEF g, Loop
  <2> QED
    BY <2>3, <2>5
<1>3. N \in H
  <2> HIDE DEF H
  <2> QED
    BY <1>0, <1>1, <1>2, InductionOnSets
<1>4. PICK f \in [0..N -> G] : Loop(N, f)
  <2> HIDE DEF Loop
  <2> QED
    BY <1>0, <1>3
<1> DEFINE Body(h) == [i \in 0..N |-> IF i = 0 THEN db ELSE Stored(h[i - 1], u[i])]
           View == CHOOSE h : h = Body(h)
<1>5. f = Body(f)
  BY <1>4, Zenon
<1>6. View = Body(View)
  <2> HIDE DEF Body
  <2> QED
    BY <1>5, Zenon
<1>7. LocalView(d) = View[N]
  BY Zenon DEF LocalView, N
<1> HIDE DEF View
<1>8. \A i \in 0..N : View[i] = IF i = 0 THEN db ELSE Stored(View[i - 1], u[i])
  BY <1>6, Zenon
<1>9. ViewOf(d, View)
  BY <1>7, <1>8, Zenon DEF ViewOf, N
<1> QED
  BY <1>9

(* A set of games that contains the server's data, and with a game also    *)
(* what each pending write makes of it, contains what the SDK shows.       *)
LEMMA LocalViewIn ==
    ASSUME NEW G, NEW d \in Devices, db \in G, unacked[d] \in Seq(WriteMsg),
           \A g \in G : \A i \in 1..Len(unacked[d]) : Stored(g, unacked[d][i]) \in G
    PROVE  LocalView(d) \in G
<1> DEFINE u == unacked[d]
           N == Len(u)
<1>0. N \in Nat
  OBVIOUS
<1>1. PICK View : ViewOf(d, View)
  BY LocalViewSteps, Zenon
<1> HIDE DEF N
<1>7. LocalView(d) = View[N]
  BY <1>1, Zenon DEF ViewOf, N
<1>8. \A i \in 0..N : View[i] = IF i = 0 THEN db ELSE Stored(View[i - 1], u[i])
  BY <1>1, Zenon DEF ViewOf, N
<1> DEFINE K == {n \in Nat : n <= N => View[n] \in G}
<1>9. 0 \in K
  <2>1. 0 \in 0..N
    BY <1>0
  <2> QED
    BY <1>8, <2>1, Zenon
<1>10. ASSUME NEW n \in Nat, n \in K PROVE n + 1 \in K
  <2> SUFFICES ASSUME n + 1 <= N PROVE View[n + 1] \in G
    OBVIOUS
  <2>1. n + 1 \in 0..N /\ n + 1 # 0 /\ (n + 1) - 1 = n /\ n <= N
    BY <1>0
  <2>2. View[n + 1] = Stored(View[n], u[n + 1]) /\ View[n] \in G
    BY <1>8, <1>10, <2>1
  <2>3. n + 1 \in 1..Len(unacked[d])
    BY <1>0 DEF N
  <2> QED
    BY <2>2, <2>3, Zenon
<1>11. N \in K
  <2> HIDE DEF K
  <2> QED
    BY <1>0, <1>9, <1>10, InductionOnSets
<1> QED
  BY <1>0, <1>7, <1>11

(* What a device sees is a game.                                           *)
LEMMA LocalViewIsGame ==
    ASSUME LobbyTypes, NEW d \in Devices
    PROVE  LocalView(d) \in Game
<1>1. db \in Game /\ unacked[d] \in Seq(WriteMsg)
  BY DEF LobbyTypes, QueueTypes, UnTypes
<1>2. \A i \in 1..Len(unacked[d]) : unacked[d][i] \in WriteMsg
  BY <1>1
<1>3. \A g \in Game : \A i \in 1..Len(unacked[d]) : Stored(g, unacked[d][i]) \in Game
  BY <1>2, StoredIsGame
<1> QED
  BY <1>1, <1>3, LocalViewIn, Zenon

-----------------------------------------------------------------------------
(* Steps.                                                                  *)

(* The queue of one device becomes q.                                      *)
IsNow(f, g, d, q) == OnDevices(g) /\ g[d] = q /\ \A e \in Devices : e # d => g[e] = f[e]

OutIs(d, q)  == IsNow(outbox, outbox', d, q)
UnIs(d, q)   == IsNow(unacked, unacked', d, q)
InIs(d, q)   == IsNow(inbox, inbox', d, q)
MainIs(d, q) == IsNow(mainq, mainq', d, q)

(* What is not a step of the connection: device d sends xs, of which the   *)
(* writes ms become pending, may have handled an answer to a get or a      *)
(* block of its main queue, and adds the blocks bs.                        *)
Sends(d, xs, ms) ==
    /\ xs \in Seq(OutMsg(d)) /\ ms \in Seq(WriteMsg)
    /\ xs = ms \/ (ms = <<>> /\ \A i \in 1..Len(xs) : xs[i] \in GetMsg(d))
    /\ OutIs(d, outbox[d] \o xs) /\ UnIs(d, unacked[d] \o ms)
Takes(d) ==
    \/ InIs(d, inbox[d])
    \/ inbox[d] # <<>> /\ IsGet(Head(inbox[d])) /\ InIs(d, Tail(inbox[d]))
Posts(d, bs) ==
    /\ bs \in Seq(BlockOf(d))
    /\ MainIs(d, mainq[d] \o bs) \/ (mainq[d] # <<>> /\ MainIs(d, Tail(mainq[d]) \o bs))

LocalStep(d, xs, ms, bs) == db' = db /\ Sends(d, xs, ms) /\ Takes(d) /\ Posts(d, bs)

(* EXCEPT sets the queue of one device.                                    *)
LEMMA SetIs ==
    ASSUME NEW f, NEW g, OnDevices(f), NEW d \in Devices, NEW x
    PROVE  /\ g = [f EXCEPT ![d] = x] => IsNow(f, g, d, x)
           /\ g = f => IsNow(f, g, d, f[d])
BY DEF OnDevices, IsNow

(* What the operations on the queues do.                                   *)
LEMMA SendsNothing ==
    ASSUME LobbyTypes, NEW d \in Devices, outbox' = outbox, unacked' = unacked
    PROVE  Sends(d, <<>>, <<>>)
<1>1. /\ OnDevices(outbox) /\ outbox[d] \in Seq(OutMsg(d))
      /\ OnDevices(unacked) /\ unacked[d] \in Seq(WriteMsg)
  BY DEF LobbyTypes, QueueTypes, OutTypes, UnTypes
<1>2. OutIs(d, outbox[d]) /\ UnIs(d, unacked[d])
  BY <1>1, SetIs DEF OutIs, UnIs
<1>3. outbox[d] \o <<>> = outbox[d] /\ unacked[d] \o <<>> = unacked[d]
  BY <1>1
<1>4. <<>> \in Seq(OutMsg(d)) /\ <<>> \in Seq(WriteMsg)
  OBVIOUS
<1> QED
  BY <1>2, <1>3, <1>4, Zenon DEF Sends

(* Ask sends one get.                                                      *)
LEMMA AskSends ==
    ASSUME LobbyTypes, NEW d \in Devices, NEW g \in GetMsg(d), Ask(d, g)
    PROVE  Sends(d, <<g>>, <<>>)
<1>1. /\ OnDevices(outbox) /\ outbox[d] \in Seq(OutMsg(d)) /\ g \in OutMsg(d)
      /\ OnDevices(unacked) /\ unacked[d] \in Seq(WriteMsg)
  BY DEF LobbyTypes, QueueTypes, OutTypes, UnTypes, OutMsg
<1>2. OutIs(d, Append(outbox[d], g)) /\ UnIs(d, unacked[d])
  BY <1>1, SetIs DEF OutIs, UnIs, Ask
<1>3. outbox[d] \o <<g>> = Append(outbox[d], g) /\ unacked[d] \o <<>> = unacked[d]
  BY <1>1
<1>4. <<g>> \in Seq(OutMsg(d)) /\ <<>> \in Seq(WriteMsg) /\ \A i \in 1..Len(<<g>>) : <<g>>[i] \in GetMsg(d)
  BY <1>1
<1> QED
  BY <1>2, <1>3, <1>4, Zenon DEF Sends

(* Write sends writes, which become pending.                               *)
LEMMA WriteSends ==
    ASSUME LobbyTypes, NEW d \in Devices, NEW ms \in Seq(WriteMsg), Write(d, ms)
    PROVE  Sends(d, ms, ms)
<1>1. /\ OnDevices(outbox) /\ outbox[d] \in Seq(OutMsg(d))
      /\ OnDevices(unacked) /\ unacked[d] \in Seq(WriteMsg)
  BY DEF LobbyTypes, QueueTypes, OutTypes, UnTypes
<1>2. ms \in Seq(OutMsg(d))
  <2>1. WriteMsg \subseteq OutMsg(d)
    BY DEF OutMsg
  <2>2. \A i \in 1..Len(ms) : ms[i] \in OutMsg(d)
    BY <2>1
  <2> QED
    BY <2>2
<1>3. OutIs(d, outbox[d] \o ms) /\ UnIs(d, unacked[d] \o ms)
  BY <1>1, SetIs DEF OutIs, UnIs, Write
<1> QED
  BY <1>2, <1>3, Zenon DEF Sends

(* No answer is taken.                                                     *)
LEMMA TakesNothing ==
    ASSUME LobbyTypes, NEW d \in Devices, inbox' = inbox
    PROVE  Takes(d)
<1>1. OnDevices(inbox)
  BY DEF LobbyTypes, QueueTypes, InTypes
<1> QED
  BY <1>1, SetIs DEF InIs, Takes

(* The answer to a get is taken.                                           *)
LEMMA TakeTakes ==
    ASSUME LobbyTypes, NEW d \in Devices, NEW ops, ops \subseteq GetOps, Answered(d, ops), TakeAnswer(d)
    PROVE  /\ Takes(d) /\ InIs(d, Tail(inbox[d]))
           /\ inbox[d] # <<>> /\ Head(inbox[d]) \in InMsg(d) /\ Head(inbox[d]).op \in ops
           /\ Head(inbox[d]).id \in Mine(d, Id)
<1>1. OnDevices(inbox) /\ inbox[d] \in Seq(InMsg(d))
  BY DEF LobbyTypes, QueueTypes, InTypes
<1>2. inbox[d] # <<>> /\ Head(inbox[d]).op \in ops
  BY DEF Answered
<1>3. Head(inbox[d]) \in InMsg(d)
  BY <1>1, <1>2
<1>4. InIs(d, Tail(inbox[d]))
  BY <1>1, SetIs DEF InIs, TakeAnswer
<1>5. IsGet(Head(inbox[d])) /\ Head(inbox[d]).id \in Mine(d, Id)
  BY <1>2, <1>3 DEF IsGet, InMsg
<1> QED
  BY <1>2, <1>3, <1>4, <1>5 DEF Takes

(* No block is added.                                                      *)
LEMMA PostsNothing ==
    ASSUME LobbyTypes, NEW d \in Devices, mainq' = mainq
    PROVE  Posts(d, <<>>)
<1>1. OnDevices(mainq) /\ mainq[d] \in Seq(BlockOf(d))
  BY DEF LobbyTypes, QueueTypes, MainTypes
<1>2. MainIs(d, mainq[d]) /\ mainq[d] \o <<>> = mainq[d] /\ <<>> \in Seq(BlockOf(d))
  BY <1>1, SetIs DEF MainIs
<1> QED
  BY <1>2, Zenon DEF Posts

(* Blocks adds blocks, with or without taking the first one.               *)
LEMMA BlocksPost ==
    ASSUME LobbyTypes, NEW d \in Devices, NEW bs \in Seq(BlockOf(d))
    PROVE  /\ Blocks(d, mainq[d] \o bs) => Posts(d, bs)
           /\ mainq[d] # <<>> /\ Blocks(d, Tail(mainq[d]) \o bs) => Posts(d, bs)
           /\ mainq[d] # <<>> /\ Blocks(d, Tail(mainq[d])) => Posts(d, <<>>)
<1>1. OnDevices(mainq) /\ mainq[d] \in Seq(BlockOf(d))
  BY DEF LobbyTypes, QueueTypes, MainTypes
<1>2. \A q : Blocks(d, q) => MainIs(d, q)
  BY <1>1, SetIs DEF MainIs, Blocks
<1>3. mainq[d] # <<>> => Tail(mainq[d]) \o <<>> = Tail(mainq[d])
  BY <1>1
<1>4. <<>> \in Seq(BlockOf(d))
  OBVIOUS
<1> QED
  BY <1>2, <1>3, <1>4, Zenon DEF Posts

(* The blocks that tell the listeners on roundNum come first.              *)
LEMMA HearPosts ==
    ASSUME LobbyTypes, NEW d \in Devices, NEW bs \in Seq(BlockOf(d)), Hear(d, bs)
    PROVE  /\ told' = told \cup Overheard(d) /\ told' \subseteq listening
           /\ \E rs \in Seq(RoundBlock(d)) : rs \o bs \in Seq(BlockOf(d)) /\ Posts(d, rs \o bs)
<1>1. Overheard(d) \subseteq Mine(d, listening) /\ told \subseteq listening /\ listening \subseteq Id
  BY DEF Overheard, Mine, LobbyTypes, RoomTypes
<1>2. Overheard(d) \subseteq Mine(d, Id) /\ Overheard(d) \subseteq Id
  BY <1>1 DEF Mine
<1>3. PICK order \in SetToSeqs(Overheard(d)) :
         /\ told' = told \cup Overheard(d)
         /\ Blocks(d, mainq[d] \o [i \in 1..Len(order) |-> [op |-> "roundNum", id |-> order[i]]] \o bs)
  BY DEF Hear
<1>4. IsFiniteSet(Overheard(d))
  BY <1>2, FiniteIds, FS_Subset
<1>5. Len(order) \in Nat /\ \A i \in 1..Len(order) : order[i] \in Mine(d, Id)
  BY <1>2, <1>4, OrderIs
<1> DEFINE rs == [i \in 1..Len(order) |-> [op |-> "roundNum", id |-> order[i]]]
<1>6. rs \in Seq(RoundBlock(d))
  <2>1. \A i \in 1..Len(order) : [op |-> "roundNum", id |-> order[i]] \in RoundBlock(d)
    BY <1>5 DEF RoundBlock
  <2> QED
    BY <1>5, <2>1
<1>7. rs \in Seq(BlockOf(d))
  <2>1. RoundBlock(d) \subseteq BlockOf(d)
    BY DEF BlockOf
  <2> HIDE DEF rs
  <2>2. \A i \in 1..Len(rs) : rs[i] \in BlockOf(d)
    BY <1>6, <2>1
  <2> QED
    BY <1>6, <2>2
<1>8. Blocks(d, (mainq[d] \o rs) \o bs)
  BY <1>3, Zenon DEF rs
<1> HIDE DEF rs
<1>9. mainq[d] \in Seq(BlockOf(d))
  BY DEF LobbyTypes, QueueTypes, MainTypes
<1>10. (mainq[d] \o rs) \o bs = mainq[d] \o (rs \o bs)
  <2>1. PICK S, x, y : S = BlockOf(d) /\ x = mainq[d] /\ y = rs
    OBVIOUS
  <2>2. x \in Seq(S) /\ y \in Seq(S) /\ bs \in Seq(S)
    BY <1>7, <1>9, <2>1
  <2>3. (x \o y) \o bs = x \o (y \o bs)
    BY ONLY <2>2, ConcatAssociative
  <2> QED
    BY <2>1, <2>3
<1>11. rs \o bs \in Seq(BlockOf(d))
  BY <1>7
<1>12. Posts(d, rs \o bs)
  BY <1>8, <1>10, <1>11, BlocksPost
<1>13. told' \subseteq listening
  BY <1>1, <1>3 DEF Mine
<1> QED
  BY <1>3, <1>6, <1>11, <1>12, <1>13

(* The writes of a start.                                                  *)
LEMMA StartWritesAre ==
    ASSUME NEW players, NEW order \in SetToSeqs(Present(players))
    PROVE  /\ StartWrites(order) \in Seq(WriteMsg)
           /\ Len(order) \in Nat /\ Len(StartWrites(order)) = Len(order) + 1
           /\ \A i \in 1..Len(order) : StartWrites(order)[i] = Msg("setNumber", order[i], i) /\ order[i] \in Id
           /\ StartWrites(order)[Len(order) + 1] = Msg("setRound", NoId, 1)
           /\ \A i, j \in 1..Len(order) : i # j => order[i] # order[j]
<1>1. /\ Len(order) \in Nat /\ \A i \in 1..Len(order) : order[i] \in Id
      /\ \A i, j \in 1..Len(order) : i # j => order[i] # order[j]
  BY FinitePresent, OrderIs
<1> DEFINE n == Len(order)
           q == [i \in 1..n |-> Msg("setNumber", order[i], i)]
           m == Msg("setRound", NoId, 1)
<1>2. \A i \in 1..n : Msg("setNumber", order[i], i) \in WriteMsg
  BY <1>1 DEF Msg, WriteMsg, WriteOps
<1>3. m \in WriteMsg
  BY DEF Msg, WriteMsg, WriteOps
<1> HIDE DEF m, n
<1>4. q \in Seq(WriteMsg) /\ Len(q) = n /\ \A i \in 1..n : q[i] = Msg("setNumber", order[i], i)
  BY <1>1, <1>2 DEF n
<1> HIDE DEF q
<1>5. <<m>> \in Seq(WriteMsg) /\ Len(<<m>>) = 1 /\ <<m>>[1] = m
  BY <1>3
<1>6. q \o <<m>> \in Seq(WriteMsg) /\ Len(q \o <<m>>) = n + 1 /\ (q \o <<m>>)[n + 1] = m
        /\ \A i \in 1..n : (q \o <<m>>)[i] = q[i]
  BY <1>1, <1>4, <1>5 DEF n
<1>7. StartWrites(order) = q \o <<m>>
  BY DEF StartWrites, q, m, n
<1> QED
  BY <1>1, <1>4, <1>6, <1>7 DEF n, m

(* Numbering the players.                                                  *)
LEMMA NumberSends ==
    ASSUME LobbyTypes, NEW d \in Devices, NEW game, NumberPlayers(d, game)
    PROVE  \/ Sends(d, <<>>, <<>>)
           \/ \E order \in SetToSeqs(Present(game.players)) : Sends(d, StartWrites(order), StartWrites(order))
<1>1. CASE UNCHANGED <<outbox, unacked>>
  BY <1>1, SendsNothing
<1>2. CASE \E order \in SetToSeqs(Present(game.players)) : Write(d, StartWrites(order))
  BY <1>2, StartWritesAre, WriteSends
<1> QED
  BY <1>1, <1>2 DEF NumberPlayers

(* A local step keeps the types of the queues.                             *)
LEMMA LocalTypes ==
    ASSUME LobbyTypes, NEW d \in Devices, NEW xs, NEW ms, NEW bs, LocalStep(d, xs, ms, bs)
    PROVE  QueueTypes' /\ db' \in Game
<1>0. /\ \A e \in Devices : /\ outbox[e] \in Seq(OutMsg(e)) /\ unacked[e] \in Seq(WriteMsg)
                            /\ inbox[e] \in Seq(InMsg(e)) /\ mainq[e] \in Seq(BlockOf(e))
      /\ db \in Game
  BY DEF LobbyTypes, QueueTypes, OutTypes, UnTypes, InTypes, MainTypes
<1>1. Sends(d, xs, ms) /\ Takes(d) /\ Posts(d, bs) /\ db' = db
  BY DEF LocalStep
<1>2. outbox[d] \o xs \in Seq(OutMsg(d)) /\ unacked[d] \o ms \in Seq(WriteMsg)
  BY <1>0, <1>1 DEF Sends
<1>3. OutTypes' /\ UnTypes'
  BY <1>0, <1>1, <1>2, Zenon DEF OutTypes, UnTypes, Sends, OutIs, UnIs, IsNow
<1>4. inbox[d] # <<>> => Tail(inbox[d]) \in Seq(InMsg(d))
  BY <1>0
<1>5. InTypes'
  BY <1>0, <1>1, <1>4, Zenon DEF InTypes, Takes, InIs, IsNow
<1>6. /\ mainq[d] \o bs \in Seq(BlockOf(d))
      /\ mainq[d] # <<>> => Tail(mainq[d]) \o bs \in Seq(BlockOf(d))
  BY <1>0, <1>1 DEF Posts
<1>7. MainTypes'
  BY <1>0, <1>1, <1>6, Zenon DEF MainTypes, Posts, MainIs, IsNow
<1> QED
  BY <1>0, <1>1, <1>3, <1>5, <1>7 DEF QueueTypes

-----------------------------------------------------------------------------
(* The writes of a device: acknowledgements on their way back, then writes *)
(* on their way to the server, are in this order the unacknowledged ones.  *)

(* How many of the first i messages of q belong to writes.                 *)
Acks(q, i) == Cardinality({j \in 1..i : q[j].op \in WriteOps})

MirrorOf(in, un, out) ==
    /\ Acks(in, Len(in)) + Acks(out, Len(out)) = Len(un)
    /\ \A i \in 1..Len(in) : in[i].op \in WriteOps => un[Acks(in, i)].op = in[i].op
    /\ \A i \in 1..Len(out) : out[i].op \in WriteOps => un[Acks(in, Len(in)) + Acks(out, i)] = out[i]

Mirror == \A d \in Devices : MirrorOf(inbox[d], unacked[d], outbox[d])

(* Counting one message more.                                              *)
LEMMA AcksStep ==
    ASSUME NEW q, NEW n \in Nat
    PROVE  /\ Acks(q, 0) = 0 /\ Acks(q, n) \in Nat
           /\ q[n + 1].op \in WriteOps => Acks(q, n + 1) = Acks(q, n) + 1
           /\ q[n + 1].op \notin WriteOps => Acks(q, n + 1) = Acks(q, n)
<1> DEFINE S(i) == {j \in 1..i : q[j].op \in WriteOps}
<1>1. \A i \in Nat : IsFiniteSet(S(i)) /\ Acks(q, i) = Cardinality(S(i)) /\ Cardinality(S(i)) \in Nat
  <2> SUFFICES ASSUME NEW i \in Nat
               PROVE  IsFiniteSet(S(i)) /\ Acks(q, i) = Cardinality(S(i)) /\ Cardinality(S(i)) \in Nat
    OBVIOUS
  <2>1. IsFiniteSet(1..i) /\ S(i) \subseteq 1..i
    BY FS_Interval
  <2> QED
    BY <2>1, FS_Subset, FS_CardinalityType DEF Acks
<1>2. S(0) = {}
  OBVIOUS
<1>3. q[n + 1].op \in WriteOps => S(n + 1) = S(n) \cup {n + 1}
  OBVIOUS
<1>4. q[n + 1].op \notin WriteOps => S(n + 1) = S(n)
  OBVIOUS
<1>5. n + 1 \notin S(n) /\ 0 \in Nat /\ n + 1 \in Nat
  OBVIOUS
<1> HIDE DEF S
<1>6. Acks(q, 0) = 0
  BY <1>1, <1>2, <1>5, FS_EmptySet
<1>7. Cardinality(S(n) \cup {n + 1}) = Cardinality(S(n)) + 1
  BY <1>1, <1>5, FS_AddElement
<1> QED
  BY <1>1, <1>3, <1>4, <1>5, <1>6, <1>7

(* Counting fewer messages, or equal ones.                                 *)
LEMMA AcksFewer ==
    ASSUME NEW q, NEW n \in Nat, NEW i \in 0..n
    PROVE  Acks(q, i) \in Nat /\ Acks(q, n) \in Nat /\ Acks(q, i) <= Acks(q, n)
<1> DEFINE S == {j \in 1..i : q[j].op \in WriteOps}
           T == {j \in 1..n : q[j].op \in WriteOps}
<1>1. S \subseteq T /\ i \in Nat
  OBVIOUS
<1>2. IsFiniteSet(T)
  <2>1. IsFiniteSet(1..n) /\ T \subseteq 1..n
    BY FS_Interval
  <2> QED
    BY <2>1, FS_Subset
<1> HIDE DEF S, T
<1>3. IsFiniteSet(S) /\ Cardinality(S) \in Nat /\ Cardinality(T) \in Nat /\ Cardinality(S) <= Cardinality(T)
  BY <1>1, <1>2, FS_Subset, FS_CardinalityType
<1> QED
  BY <1>3 DEF Acks, S, T

(* Queues that start alike count alike.                                    *)
LEMMA AcksSame ==
    ASSUME NEW q, NEW r, NEW n \in Nat, \A j \in 1..n : q[j] = r[j]
    PROVE  \A i \in 0..n : Acks(q, i) = Acks(r, i)
<1> SUFFICES ASSUME NEW i \in 0..n PROVE Acks(q, i) = Acks(r, i)
  OBVIOUS
<1>1. {j \in 1..i : q[j].op \in WriteOps} = {j \in 1..i : r[j].op \in WriteOps}
  OBVIOUS
<1> QED
  BY <1>1 DEF Acks

(* Counting the messages of q after its first k, which are those of r.     *)
Follows(q, k, r, n) == \A j \in 1..n : q[k + j] = r[j]

(* Counting over a concatenation.                                          *)
LEMMA AcksAfter ==
    ASSUME NEW q, NEW r, NEW k \in Nat, NEW n \in Nat, Follows(q, k, r, n)
    PROVE  \A i \in 0..n : Acks(q, k + i) = Acks(q, k) + Acks(r, i)
<1> DEFINE G == {i \in Nat : i <= n => Acks(q, k + i) = Acks(q, k) + Acks(r, i)}
<1>1. 0 \in G
  <2>1. Acks(r, 0) = 0 /\ Acks(q, k) \in Nat /\ k + 0 = k
    BY AcksStep
  <2> QED
    BY <2>1
<1>2. ASSUME NEW i \in Nat, i \in G PROVE i + 1 \in G
  <2> SUFFICES ASSUME i + 1 <= n
               PROVE  Acks(q, k + (i + 1)) = Acks(q, k) + Acks(r, i + 1)
    OBVIOUS
  <2>1. PICK m \in Nat : m = k + i
    OBVIOUS
  <2>2. /\ q[m + 1].op \in WriteOps => Acks(q, m + 1) = Acks(q, m) + 1
        /\ q[m + 1].op \notin WriteOps => Acks(q, m + 1) = Acks(q, m)
    BY AcksStep
  <2>3. /\ r[i + 1].op \in WriteOps => Acks(r, i + 1) = Acks(r, i) + 1
        /\ r[i + 1].op \notin WriteOps => Acks(r, i + 1) = Acks(r, i)
        /\ Acks(r, i) \in Nat /\ Acks(q, k) \in Nat
    BY AcksStep
  <2>4. m + 1 = k + (i + 1) /\ i + 1 \in 1..n /\ q[m + 1] = r[i + 1]
    BY <2>1 DEF Follows
  <2>5. Acks(q, m) = Acks(q, k) + Acks(r, i)
    BY <1>2, <2>1
  <2> QED
    BY <2>2, <2>3, <2>4, <2>5
<1>3. \A i \in Nat : i \in G
  <2> HIDE DEF G
  <2> QED
    BY <1>1, <1>2, InductionOnSets
<1> QED
  BY <1>3

(* A queue of writes counts all its messages.                              *)
LEMMA AcksAll ==
    ASSUME NEW q, NEW n \in Nat, \A j \in 1..n : q[j].op \in WriteOps
    PROVE  \A i \in 0..n : Acks(q, i) = i
<1> SUFFICES ASSUME NEW i \in 0..n PROVE Acks(q, i) = i
  OBVIOUS
<1>1. {j \in 1..i : q[j].op \in WriteOps} = 1..i
  OBVIOUS
<1>2. i \in Nat /\ Cardinality(1..i) = i
  BY FS_Interval
<1> QED
  BY <1>1, <1>2 DEF Acks

(* A queue of gets counts none.                                            *)
LEMMA AcksNone ==
    ASSUME NEW q, NEW n \in Nat, \A j \in 1..n : q[j].op \notin WriteOps
    PROVE  \A i \in 0..n : Acks(q, i) = 0
<1> SUFFICES ASSUME NEW i \in 0..n PROVE Acks(q, i) = 0
  OBVIOUS
<1>1. {j \in 1..i : q[j].op \in WriteOps} = {}
  OBVIOUS
<1> QED
  BY <1>1, FS_EmptySet DEF Acks

(* Counting up to a write counts it.                                       *)
LEMMA AcksAt ==
    ASSUME NEW q, NEW n \in Nat, NEW i \in 1..n, q[i].op \in WriteOps
    PROVE  Acks(q, i) \in Nat /\ 1 <= Acks(q, i) /\ Acks(q, i) <= Acks(q, n) /\ Acks(q, n) \in Nat
<1>1. PICK m \in Nat : i = m + 1
  <2>1. i - 1 \in Nat /\ i = (i - 1) + 1
    OBVIOUS
  <2> QED
    BY <2>1
<1>2. Acks(q, i) = Acks(q, m) + 1 /\ Acks(q, m) \in Nat
  BY <1>1, AcksStep
<1>3. i \in 0..n
  OBVIOUS
<1>4. Acks(q, i) <= Acks(q, n) /\ Acks(q, n) \in Nat
  BY <1>3, AcksFewer
<1> QED
  BY <1>2, <1>4

(* Sending writes, which become pending, or gets keeps the order, ...      *)
LEMMA MirrorSend ==
    ASSUME NEW S, NEW T, NEW U, NEW in \in Seq(S), NEW un \in Seq(T), NEW out \in Seq(U),
           MirrorOf(in, un, out), NEW ms \in Seq(T), NEW xs \in Seq(U),
           \/ xs = ms /\ \A i \in 1..Len(xs) : xs[i].op \in WriteOps
           \/ ms = <<>> /\ \A i \in 1..Len(xs) : xs[i].op \notin WriteOps
    PROVE  MirrorOf(in, un \o ms, out \o xs)
<1> DEFINE o == out \o xs
           u == un \o ms
           n == Len(out)
           m == Len(xs)
           k == Len(in)
           a == Acks(in, k)
<1>1. /\ n \in Nat /\ m \in Nat /\ k \in Nat /\ Len(un) \in Nat /\ Len(ms) \in Nat
      /\ Len(o) = n + m /\ Len(u) = Len(un) + Len(ms)
  OBVIOUS
<1>2. /\ \A i \in 1..n : o[i] = out[i]
      /\ \A i \in 1..m : o[n + i] = xs[i]
      /\ \A i \in 1..Len(un) : u[i] = un[i]
      /\ \A i \in 1..Len(ms) : u[Len(un) + i] = ms[i]
  OBVIOUS
<1>3. \A i \in 1..(n + m) : i \in 1..n \/ \E j \in 1..m : i = n + j
  BY ConcatAt, Zenon
<1>4. a + Acks(out, n) = Len(un)
  BY DEF MirrorOf
<1> HIDE DEF o, u, n, m, k, a
<1>5. \A i \in 0..n : Acks(o, i) = Acks(out, i)
  BY <1>1, <1>2, AcksSame
<1>6. \A i \in 0..m : Acks(o, n + i) = Acks(o, n) + Acks(xs, i)
  <2>1. Follows(o, n, xs, m)
    BY <1>2 DEF Follows
  <2> QED
    BY <1>1, <2>1, AcksAfter
<1>7. a \in Nat /\ Acks(out, n) \in Nat /\ Acks(o, n) = Acks(out, n) /\ n \in 0..n /\ m \in 0..m
  BY <1>1, <1>5, AcksStep DEF a
<1>8. Acks(o, n + m) = Acks(out, n) + Acks(xs, m)
  BY <1>6, <1>7
<1>9. ASSUME NEW i \in 1..k, in[i].op \in WriteOps
      PROVE  u[Acks(in, i)].op = in[i].op
  <2>1. Acks(in, i) \in Nat /\ 1 <= Acks(in, i) /\ Acks(in, i) <= a
    BY <1>1, <1>9, AcksAt DEF a
  <2>2. Acks(in, i) \in 1..Len(un)
    BY <1>1, <1>4, <1>7, <2>1
  <2>3. un[Acks(in, i)].op = in[i].op
    BY <1>9, Zenon DEF MirrorOf, k
  <2> QED
    BY <1>2, <2>2, <2>3, Zenon
<1>10. ASSUME NEW i \in 1..n, out[i].op \in WriteOps
       PROVE  u[a + Acks(o, i)] = o[i]
  <2>1. Acks(out, i) \in Nat /\ 1 <= Acks(out, i) /\ Acks(out, i) <= Acks(out, n)
    BY <1>1, <1>10, AcksAt
  <2>2. a + Acks(out, i) \in 1..Len(un)
    BY <1>1, <1>4, <1>7, <2>1
  <2>3. un[a + Acks(out, i)] = out[i]
    BY <1>10, Zenon DEF MirrorOf, k, n, a
  <2>4. i \in 0..n
    BY <1>1
  <2> QED
    BY <1>2, <1>5, <2>2, <2>3, <2>4, Zenon
<1>11. CASE xs = ms /\ \A i \in 1..m : xs[i].op \in WriteOps
  <2>1. Len(ms) = m /\ Acks(xs, m) = m /\ \A i \in 0..m : Acks(xs, i) = i
    BY <1>1, <1>7, <1>11, AcksAll DEF m
  <2>2. a + Acks(o, Len(o)) = Len(u)
    <3>1. a + (Acks(out, n) + m) = (a + Acks(out, n)) + m
      BY <1>1, <1>7
    <3> QED
      BY <1>1, <1>4, <1>8, <2>1, <3>1, Zenon
  <2>3. ASSUME NEW j \in 1..m
        PROVE  u[a + Acks(o, n + j)] = o[n + j]
    <3>1. j \in 0..m /\ j \in 1..Len(ms)
      BY <1>1, <2>1
    <3>2. Acks(o, n + j) = Acks(out, n) + j
      BY <1>6, <1>7, <2>1, <3>1
    <3>3. a + Acks(o, n + j) = Len(un) + j
      <4>1. j \in Nat /\ a \in Nat /\ Acks(out, n) \in Nat
        BY <1>7, <3>1
      <4>2. a + (Acks(out, n) + j) = (a + Acks(out, n)) + j
        BY <4>1
      <4> QED
        BY <1>4, <3>2, <4>2, Zenon
    <3>4. u[Len(un) + j] = o[n + j]
      BY <1>2, <1>11, <3>1, Zenon
    <3> QED
      BY <3>3, <3>4, Zenon
  <2>4. ASSUME NEW i \in 1..(n + m), o[i].op \in WriteOps
        PROVE  u[a + Acks(o, i)] = o[i]
    <3>1. CASE i \in 1..n
      BY <1>2, <1>10, <2>4, <3>1, Zenon
    <3>2. CASE \E j \in 1..m : i = n + j
      BY <2>3, <3>2, Zenon
    <3> QED
      BY <1>3, <3>1, <3>2, Zenon
  <2>5. MirrorOf(in, u, o)
    BY <1>1, <1>9, <2>2, <2>4, Zenon DEF MirrorOf, k, a
  <2> QED
    BY <2>5 DEF u, o
<1>12. CASE ms = <<>> /\ \A i \in 1..m : xs[i].op \notin WriteOps
  <2>1. Len(ms) = 0 /\ Acks(xs, m) = 0
    BY <1>1, <1>7, <1>12, AcksNone
  <2>2. a + Acks(o, Len(o)) = Len(u)
    BY <1>1, <1>4, <1>7, <1>8, <2>1
  <2>3. ASSUME NEW i \in 1..(n + m), o[i].op \in WriteOps
        PROVE  u[a + Acks(o, i)] = o[i]
    <3>1. CASE i \in 1..n
      BY <1>2, <1>10, <2>3, <3>1, Zenon
    <3>2. CASE \E j \in 1..m : i = n + j
      BY <1>2, <1>12, <2>3, <3>2, Zenon
    <3> QED
      BY <1>3, <3>1, <3>2, Zenon
  <2>4. MirrorOf(in, u, o)
    BY <1>1, <1>9, <2>2, <2>3, Zenon DEF MirrorOf, k, a
  <2> QED
    BY <2>4 DEF u, o
<1> QED
  BY <1>11, <1>12 DEF m

(* ... and so does taking an answer to a get, or an acknowledgement, which *)
(* is that of the oldest unacknowledged write, ...                         *)
LEMMA MirrorTake ==
    ASSUME NEW S, NEW T, NEW U, NEW in \in Seq(S), NEW un \in Seq(T), NEW out \in Seq(U),
           MirrorOf(in, un, out), in # <<>>
    PROVE  /\ Head(in).op \notin WriteOps => MirrorOf(Tail(in), un, out)
           /\ Head(in).op \in WriteOps =>
                MirrorOf(Tail(in), Tail(un), out) /\ un # <<>> /\ Head(un).op = Head(in).op
<1> DEFINE t == Tail(in)
           k == Len(t)
           n == Len(out)
           a == Acks(in, 1)
<1>1. /\ k \in Nat /\ n \in Nat /\ Len(in) = k + 1 /\ Len(un) \in Nat
      /\ Head(in) = in[1] /\ \A i \in 1..k : i + 1 \in 1..Len(in) /\ t[i] = in[i + 1]
  OBVIOUS
<1> HIDE DEF t, k, n
<1>2. \A i \in 0..k : Acks(in, 1 + i) = a + Acks(t, i)
  <2>1. Follows(in, 1, t, k)
    BY <1>1 DEF Follows
  <2>2. 1 \in Nat
    OBVIOUS
  <2> QED
    BY <1>1, <2>1, <2>2, AcksAfter
<1>3. a = IF in[1].op \in WriteOps THEN 1 ELSE 0
  <2>1. /\ Acks(in, 0) = 0
        /\ in[0 + 1].op \in WriteOps => Acks(in, 0 + 1) = Acks(in, 0) + 1
        /\ in[0 + 1].op \notin WriteOps => Acks(in, 0 + 1) = Acks(in, 0)
    BY AcksStep
  <2> QED
    BY <2>1
<1>4. \A i \in 0..k : Acks(t, i) \in Nat /\ Acks(t, i) <= Acks(t, k)
  BY <1>1, AcksFewer
<1>5. Acks(in, Len(in)) = a + Acks(t, k) /\ Acks(in, Len(in)) + Acks(out, n) = Len(un)
  <2>1. k \in 0..k /\ 1 + k = Len(in)
    BY <1>1
  <2> QED
    BY <1>2, <2>1, Zenon DEF MirrorOf, n
<1>6. Acks(out, n) \in Nat /\ \A i \in 0..n : Acks(out, i) \in Nat
  BY <1>1, AcksFewer
<1>7. ASSUME NEW i \in 1..k, t[i].op \in WriteOps
      PROVE  un[a + Acks(t, i)].op = t[i].op /\ 1 <= Acks(t, i) /\ Acks(t, i) \in Nat /\ Acks(t, i) <= Acks(t, k)
  <2>1. i + 1 \in 1..Len(in) /\ t[i] = in[i + 1] /\ i \in 0..k /\ i + 1 = 1 + i
    BY <1>1
  <2>2. un[Acks(in, i + 1)].op = in[i + 1].op
    BY <1>7, <2>1, Zenon DEF MirrorOf
  <2>3. Acks(in, i + 1) = a + Acks(t, i)
    BY <1>2, <2>1, Zenon
  <2>4. Acks(t, i) \in Nat /\ 1 <= Acks(t, i) /\ Acks(t, i) <= Acks(t, k)
    BY <1>1, <1>7, AcksAt
  <2> QED
    BY <2>1, <2>2, <2>3, <2>4, Zenon
<1>8. \A i \in 1..n : out[i].op \in WriteOps => un[(a + Acks(t, k)) + Acks(out, i)] = out[i]
  BY <1>5, Zenon DEF MirrorOf, n
<1>9. ASSUME Head(in).op \notin WriteOps PROVE MirrorOf(t, un, out)
  <2>1. a = 0
    BY <1>1, <1>3, <1>9
  <2>2. Acks(t, k) \in Nat
    BY <1>1, <1>4
  <2>3. Acks(t, k) + Acks(out, n) = Len(un)
    BY <1>5, <2>1, <2>2
  <2>4. \A i \in 1..k : t[i].op \in WriteOps => un[Acks(t, i)].op = t[i].op
    BY <1>7, <2>1
  <2>5. \A i \in 1..n : out[i].op \in WriteOps => un[Acks(t, k) + Acks(out, i)] = out[i]
    BY <1>8, <2>1, <2>2
  <2> QED
    BY <2>3, <2>4, <2>5, Zenon DEF MirrorOf, k, n
<1>10. ASSUME Head(in).op \in WriteOps
       PROVE  MirrorOf(t, Tail(un), out) /\ un # <<>> /\ Head(un).op = Head(in).op
  <2> DEFINE v == Tail(un)
  <2>1. a = 1
    BY <1>1, <1>3, <1>10
  <2>2. Acks(t, k) \in Nat
    BY <1>1, <1>4
  <2>3. Len(un) = 1 + Acks(t, k) + Acks(out, n) /\ Len(un) > 0
    BY <1>5, <1>6, <2>1, <2>2
  <2>4. un # <<>> /\ Head(un) = un[1] /\ Len(v) = Len(un) - 1 /\ \A i \in 1..Len(v) : v[i] = un[i + 1]
    BY <2>3
  <2>5. Head(un).op = Head(in).op
    <3>1. 1 \in 1..Len(in)
      BY <1>1
    <3>2. un[a].op = in[1].op
      BY <1>1, <1>10, <3>1, Zenon DEF MirrorOf
    <3> QED
      BY <1>1, <2>1, <2>4, <3>2
  <2> HIDE DEF v
  <2>6. Acks(t, k) + Acks(out, n) = Len(v)
    BY <1>6, <2>2, <2>3, <2>4
  <2>7. ASSUME NEW i \in 1..k, t[i].op \in WriteOps
        PROVE  v[Acks(t, i)].op = t[i].op
    <3>1. un[1 + Acks(t, i)].op = t[i].op /\ 1 <= Acks(t, i) /\ Acks(t, i) \in Nat /\ Acks(t, i) <= Acks(t, k)
      BY <1>7, <2>1, <2>7
    <3>2. Acks(t, i) \in 1..Len(v) /\ 1 + Acks(t, i) = Acks(t, i) + 1
      BY <1>6, <2>2, <2>6, <3>1
    <3> QED
      BY <2>4, <3>1, <3>2, Zenon
  <2>8. ASSUME NEW i \in 1..n, out[i].op \in WriteOps
        PROVE  v[Acks(t, k) + Acks(out, i)] = out[i]
    <3>1. Acks(out, i) \in Nat /\ 1 <= Acks(out, i) /\ Acks(out, i) <= Acks(out, n)
      BY <1>1, <2>8, AcksAt
    <3>2. /\ Acks(t, k) + Acks(out, i) \in 1..Len(v)
          /\ (a + Acks(t, k)) + Acks(out, i) = (Acks(t, k) + Acks(out, i)) + 1
      BY <1>6, <2>1, <2>2, <2>6, <3>1
    <3>3. un[(a + Acks(t, k)) + Acks(out, i)] = out[i]
      BY <1>8, <2>8, Zenon
    <3> QED
      BY <2>4, <3>2, <3>3, Zenon
  <2>9. MirrorOf(t, v, out)
    BY <2>6, <2>7, <2>8, Zenon DEF MirrorOf, k, n
  <2> QED
    BY <2>4, <2>5, <2>9 DEF v
<1> QED
  BY <1>9, <1>10 DEF t

(* ... the delivery of a message, with the answer a, and a failed get, ... *)
LEMMA MirrorDeliver ==
    ASSUME NEW S, NEW T, NEW U, NEW in \in Seq(S), NEW un \in Seq(T), NEW out \in Seq(U),
           MirrorOf(in, un, out), out # <<>>, NEW a \in S, a.op = Head(out).op
    PROVE  /\ MirrorOf(Append(in, a), un, Tail(out))
           /\ Head(out).op \notin WriteOps => MirrorOf(in, un, Tail(out))
<1> DEFINE t == Tail(out)
           n == Len(t)
           r == Append(in, a)
           k == Len(in)
           b == Acks(out, 1)
<1>1. /\ n \in Nat /\ k \in Nat /\ Len(out) = n + 1 /\ Len(un) \in Nat /\ Len(r) = k + 1
      /\ Head(out) = out[1] /\ \A i \in 1..n : i + 1 \in 1..Len(out) /\ t[i] = out[i + 1]
      /\ \A i \in 1..k : r[i] = in[i]
      /\ r[k + 1] = a
  OBVIOUS
<1> HIDE DEF t, n, r, k
<1>2. \A i \in 0..n : Acks(out, 1 + i) = b + Acks(t, i)
  <2>1. Follows(out, 1, t, n)
    BY <1>1 DEF Follows
  <2>2. 1 \in Nat
    OBVIOUS
  <2> QED
    BY <1>1, <2>1, <2>2, AcksAfter
<1>3. b = IF out[1].op \in WriteOps THEN 1 ELSE 0
  <2>1. /\ Acks(out, 0) = 0
        /\ out[0 + 1].op \in WriteOps => Acks(out, 0 + 1) = Acks(out, 0) + 1
        /\ out[0 + 1].op \notin WriteOps => Acks(out, 0 + 1) = Acks(out, 0)
    BY AcksStep
  <2> QED
    BY <2>1
<1>4. /\ Acks(in, k) \in Nat /\ Acks(t, n) \in Nat
      /\ \A i \in 0..n : Acks(t, i) \in Nat
  BY <1>1, AcksFewer
<1>5. Acks(in, k) + (b + Acks(t, n)) = Len(un)
  <2>1. n \in 0..n /\ 1 + n = Len(out)
    BY <1>1
  <2>2. Acks(out, Len(out)) = b + Acks(t, n)
    BY <1>2, <2>1, Zenon
  <2> QED
    BY <2>2, Zenon DEF MirrorOf, k
<1>6. ASSUME NEW i \in 1..n, t[i].op \in WriteOps
      PROVE  un[Acks(in, k) + (b + Acks(t, i))] = t[i]
  <2>1. i + 1 \in 1..Len(out) /\ t[i] = out[i + 1] /\ i \in 0..n /\ i + 1 = 1 + i
    BY <1>1
  <2>2. un[Acks(in, k) + Acks(out, i + 1)] = out[i + 1]
    BY <1>6, <2>1, Zenon DEF MirrorOf, k
  <2>3. Acks(out, i + 1) = b + Acks(t, i)
    BY <1>2, <2>1, Zenon
  <2> QED
    BY <2>1, <2>2, <2>3, Zenon
<1>7. \A i \in 1..k : in[i].op \in WriteOps => un[Acks(in, i)].op = in[i].op
  BY Zenon DEF MirrorOf, k
<1>8. ASSUME Head(out).op \notin WriteOps PROVE MirrorOf(in, un, t)
  <2>1. b = 0
    BY <1>1, <1>3, <1>8
  <2>2. Acks(in, k) + Acks(t, n) = Len(un)
    BY <1>4, <1>5, <2>1
  <2>3. ASSUME NEW i \in 1..n, t[i].op \in WriteOps
        PROVE  un[Acks(in, k) + Acks(t, i)] = t[i]
    <3>1. i \in 0..n
      BY <1>1
    <3>2. b + Acks(t, i) = Acks(t, i)
      BY <1>4, <2>1, <3>1
    <3> QED
      BY <1>6, <2>3, <3>2, Zenon
  <2> QED
    BY <1>7, <2>2, <2>3, Zenon DEF MirrorOf, k, n
<1>9. \A i \in 0..k : Acks(r, i) = Acks(in, i)
  BY <1>1, AcksSame
<1>10. Acks(r, k) = Acks(in, k)
  BY <1>1, <1>9
<1>11. Acks(r, k + 1) = Acks(in, k) + b
  <2>1. /\ r[k + 1].op \in WriteOps => Acks(r, k + 1) = Acks(r, k) + 1
        /\ r[k + 1].op \notin WriteOps => Acks(r, k + 1) = Acks(r, k)
    BY <1>1, AcksStep
  <2> QED
    BY <1>1, <1>3, <1>4, <1>10, <2>1
<1>12. b \in Nat
  BY <1>3
<1>13. Acks(r, Len(r)) + Acks(t, n) = Len(un)
  BY <1>1, <1>4, <1>5, <1>11, <1>12
<1>14. ASSUME NEW i \in 1..n, t[i].op \in WriteOps
       PROVE  un[Acks(r, Len(r)) + Acks(t, i)] = t[i]
  <2>1. i \in 0..n
    BY <1>1
  <2>2. Acks(r, Len(r)) + Acks(t, i) = Acks(in, k) + (b + Acks(t, i))
    BY <1>1, <1>4, <1>11, <1>12, <2>1
  <2> QED
    BY <1>6, <1>14, <2>2, Zenon
<1>15. ASSUME NEW i \in 1..Len(r), r[i].op \in WriteOps
       PROVE  un[Acks(r, i)].op = r[i].op
  <2>1. CASE i \in 1..k
    <3>1. i \in 0..k /\ r[i] = in[i]
      BY <1>1, <2>1
    <3> QED
      BY <1>7, <1>9, <1>15, <2>1, <3>1, Zenon
  <2>2. CASE i = k + 1
    <3>1. out[1].op = a.op /\ r[i] = a /\ 1 \in 1..Len(out)
      BY <1>1, <2>2
    <3>2. b = 1
      BY <1>3, <1>15, <3>1
    <3>3. un[Acks(in, k) + b] = out[1]
      BY <1>15, <3>1, Zenon DEF MirrorOf, k
    <3> QED
      BY <1>11, <2>2, <3>1, <3>3, Zenon
  <2>3. i \in 1..k \/ i = k + 1
    BY <1>1
  <2> QED
    BY <2>1, <2>2, <2>3
<1>16. MirrorOf(r, un, t)
  BY <1>13, <1>14, <1>15, Zenon DEF MirrorOf, n
<1> QED
  BY <1>8, <1>16 DEF t, r

(* ... and sending all of them again.                                      *)
LEMMA MirrorResend ==
    ASSUME NEW T, NEW un \in Seq(T), \A i \in 1..Len(un) : un[i].op \in WriteOps
    PROVE  MirrorOf(<<>>, un, un)
<1> DEFINE n == Len(un)
           e == <<>>
<1>1. n \in Nat /\ Len(e) = 0
  OBVIOUS
<1> HIDE DEF e, n
<1>2. Acks(e, 0) = 0
  BY <1>1, AcksStep
<1>3. \A i \in 0..n : Acks(un, i) = i
  BY <1>1, AcksAll DEF n
<1>4. Acks(e, Len(e)) + Acks(un, n) = n
  BY <1>1, <1>2, <1>3
<1>5. \A i \in 1..Len(e) : e[i].op \in WriteOps => un[Acks(e, i)].op = e[i].op
  BY <1>1
<1>6. ASSUME NEW i \in 1..n PROVE un[Acks(e, Len(e)) + Acks(un, i)] = un[i]
  <2>1. Acks(e, Len(e)) + Acks(un, i) = i
    BY <1>1, <1>2, <1>3
  <2> QED
    BY <2>1, Zenon
<1>7. MirrorOf(e, un, un)
  BY <1>4, <1>5, <1>6, Zenon DEF MirrorOf, n
<1> QED
  BY <1>7 DEF e

-----------------------------------------------------------------------------
(* The actions, one by one.                                                *)

(* A get of a device.                                                      *)
LEMMA GetIs ==
    ASSUME NEW d \in Devices, NEW op \in GetOps, NEW id \in Mine(d, Id)
    PROVE  Get(op, id) \in GetMsg(d) /\ Get(op, id).op = op
BY DEF Get, Msg, GetMsg

(* A write without a number.                                               *)
LEMMA MsgIs ==
    ASSUME NEW op \in WriteOps \ {"setRound"}, NEW id \in Id
    PROVE  /\ Msg(op, id, 0) \in WriteMsg /\ Msg(op, id, 0).op = op
           /\ <<Msg(op, id, 0)>> \in Seq(WriteMsg)
<1>1. Msg(op, id, 0) \in WriteMsg /\ Msg(op, id, 0).op = op
  BY DEF Msg, WriteMsg, WriteOps
<1> QED
  BY <1>1

(* The identity that a tap makes belongs to the device.                    *)
LEMMA FreshId ==
    ASSUME LobbyTypes, NEW d \in Devices, taps[d] < MaxTaps
    PROVE  <<d, taps[d] + 1>> \in Mine(d, Id)
<1>1. taps[d] + 1 \in 1..MaxTaps
  BY LobbyAssumption DEF LobbyTypes, TapTypes
<1> QED
  BY <1>1, MineAre

(* The device asks for something, and does nothing else with its queues.   *)
LEMMA AskStep ==
    ASSUME LobbyTypes, NEW d \in Devices, NEW g \in GetMsg(d), Ask(d, g),
           db' = db, inbox' = inbox, mainq' = mainq
    PROVE  LocalStep(d, <<g>>, <<>>, <<>>)
BY AskSends, TakesNothing, PostsNothing DEF LocalStep

(* TapHost sends a get.                                                    *)
LEMMA TapHostStep ==
    ASSUME LobbyTypes, NEW d \in Devices, TapHost(d)
    PROVE  /\ Get("host", <<d, taps[d] + 1>>) \in GetMsg(d)
           /\ LocalStep(d, <<Get("host", <<d, taps[d] + 1>>)>>, <<>>, <<>>)
<1>1. Get("host", <<d, taps[d] + 1>>) \in GetMsg(d)
  BY FreshId, GetIs DEF TapHost, GetOps
<1>2. /\ Ask(d, Get("host", <<d, taps[d] + 1>>))
      /\ db' = db /\ inbox' = inbox /\ mainq' = mainq
  BY DEF TapHost
<1> QED
  BY <1>1, <1>2, AskStep

(* TapJoin sends a get.                                                    *)
LEMMA TapJoinStep ==
    ASSUME LobbyTypes, NEW d \in Devices, TapJoin(d)
    PROVE  /\ Get("join", <<d, taps[d] + 1>>) \in GetMsg(d)
           /\ LocalStep(d, <<Get("join", <<d, taps[d] + 1>>)>>, <<>>, <<>>)
<1>1. Get("join", <<d, taps[d] + 1>>) \in GetMsg(d)
  BY FreshId, GetIs DEF TapJoin, GetOps
<1>2. /\ Ask(d, Get("join", <<d, taps[d] + 1>>))
      /\ db' = db /\ inbox' = inbox /\ mainq' = mainq
  BY DEF TapJoin
<1> QED
  BY <1>1, <1>2, AskStep

(* TapStart sends nothing, the writes of a start, or a get.                *)
LEMMA TapStartStep ==
    ASSUME LobbyTypes, NEW d \in Devices, TapStart(d)
    PROVE  \/ LocalStep(d, <<>>, <<>>, <<>>)
           \/ /\ Shadowed(d)
              /\ \E order \in SetToSeqs(Present(LocalView(d).players)) :
                   LocalStep(d, StartWrites(order), StartWrites(order), <<>>)
           \/ /\ Get("start", current[d]) \in GetMsg(d)
              /\ LocalStep(d, <<Get("start", current[d])>>, <<>>, <<>>)
<1>1. db' = db /\ inbox' = inbox /\ mainq' = mainq /\ screen[d] = "WaitingRoom"
  BY DEF TapStart
<1>2. Takes(d) /\ Posts(d, <<>>)
  BY <1>1, TakesNothing, PostsNothing
<1>3. CASE UNCHANGED <<outbox, unacked>>
  BY <1>1, <1>2, <1>3, SendsNothing DEF LocalStep
<1>4. CASE Shadowed(d) /\ NumberPlayers(d, LocalView(d))
  BY <1>1, <1>2, <1>4, NumberSends DEF LocalStep
<1>5. CASE Ask(d, Get("start", current[d]))
  <2>1. current[d] \in Mine(d, Id)
    BY <1>1 DEF LobbyTypes, RoomTypes
  <2>2. Get("start", current[d]) \in GetMsg(d)
    BY <2>1, GetIs DEF GetOps
  <2> QED
    BY <1>1, <1>5, <2>2, AskStep
<1> QED
  BY <1>3, <1>4, <1>5 DEF TapStart

(* TapLeave sends nothing, or the removal of the player.                   *)
LEMMA TapLeaveStep ==
    ASSUME LobbyTypes, NEW d \in Devices, TapLeave(d)
    PROVE  /\ current[d] \in Mine(d, Id)
           /\ \/ LocalStep(d, <<>>, <<>>, <<>>)
              \/ LocalStep(d, <<Msg("remove", current[d], 0)>>, <<Msg("remove", current[d], 0)>>, <<>>)
<1>1. db' = db /\ inbox' = inbox /\ mainq' = mainq /\ screen[d] = "WaitingRoom"
  BY DEF TapLeave
<1>2. Takes(d) /\ Posts(d, <<>>)
  BY <1>1, TakesNothing, PostsNothing
<1>3. current[d] \in Mine(d, Id) /\ current[d] \in Id
  BY <1>1, MineAre DEF LobbyTypes, RoomTypes
<1>4. CASE UNCHANGED <<outbox, unacked>>
  BY <1>1, <1>2, <1>3, <1>4, SendsNothing DEF LocalStep
<1>5. CASE Write(d, <<Msg("remove", current[d], 0)>>)
  <2>1. <<Msg("remove", current[d], 0)>> \in Seq(WriteMsg)
    BY <1>3, MsgIs DEF WriteOps
  <2> QED
    BY <1>1, <1>2, <1>3, <1>5, <2>1, WriteSends DEF LocalStep
<1> QED
  BY <1>4, <1>5 DEF TapLeave

(* The answers to gets.                                                    *)
Enters(id, isHost) == <<[op |-> "enter", id |-> id, isHost |-> isHost]>>

(* The block of moveToState_WaitingRoom.                                   *)
LEMMA EntersAre ==
    ASSUME NEW d \in Devices, NEW id \in Mine(d, Id), NEW isHost \in BOOLEAN
    PROVE  Enters(id, isHost) \in Seq(BlockOf(d))
<1>1. [op |-> "enter", id |-> id, isHost |-> isHost] \in BlockOf(d)
  BY DEF BlockOf
<1> QED
  BY <1>1 DEF Enters

(* HostAnswered: setGame and the waiting room, or nothing.                 *)
LEMMA HostAnsweredStep ==
    ASSUME LobbyTypes, NEW d \in Devices, HostAnswered(d)
    PROVE  /\ inbox[d] # <<>> /\ Head(inbox[d]) \in InMsg(d) /\ Head(inbox[d]).op = "host"
           /\ InIs(d, Tail(inbox[d])) /\ Head(inbox[d]).id \in Mine(d, Id)
           /\ told' \subseteq listening
           /\ \E rs \in Seq(RoundBlock(d)) :
                IF CodeIsFree(Head(inbox[d]))
                  THEN LocalStep(d, <<Msg("setGame", Head(inbox[d]).id, 0)>>,
                                    <<Msg("setGame", Head(inbox[d]).id, 0)>>,
                                    rs \o Enters(Head(inbox[d]).id, TRUE))
                  ELSE LocalStep(d, <<>>, <<>>, rs \o <<>>)
<1> DEFINE a == Head(inbox[d])
<1>1. /\ Takes(d) /\ InIs(d, Tail(inbox[d])) /\ inbox[d] # <<>>
      /\ a \in InMsg(d) /\ a.op = "host" /\ a.id \in Mine(d, Id)
  BY TakeTakes DEF HostAnswered, GetOps
<1>2. db' = db
  BY DEF HostAnswered
<1>3. CASE CodeIsFree(a)
  <2>1. Write(d, <<Msg("setGame", a.id, 0)>>) /\ Hear(d, Enters(a.id, TRUE))
    BY <1>3 DEF HostAnswered, Enters
  <2>2. <<Msg("setGame", a.id, 0)>> \in Seq(WriteMsg) /\ Enters(a.id, TRUE) \in Seq(BlockOf(d))
    BY <1>1, MsgIs, EntersAre, MineAre DEF WriteOps
  <2> HIDE DEF a
  <2>3. Sends(d, <<Msg("setGame", a.id, 0)>>, <<Msg("setGame", a.id, 0)>>)
    BY <2>1, <2>2, WriteSends
  <2>4. PICK rs \in Seq(RoundBlock(d)) : Posts(d, rs \o Enters(a.id, TRUE))
    BY <2>1, <2>2, HearPosts
  <2>5. told' \subseteq listening
    BY <2>1, <2>2, HearPosts
  <2>6. LocalStep(d, <<Msg("setGame", a.id, 0)>>, <<Msg("setGame", a.id, 0)>>, rs \o Enters(a.id, TRUE))
    BY <1>1, <1>2, <2>3, <2>4 DEF LocalStep
  <2> QED
    BY <1>1, <1>3, <2>5, <2>6 DEF a
<1>4. CASE ~ CodeIsFree(a)
  <2>1. Hear(d, <<>>) /\ UNCHANGED <<outbox, unacked>>
    BY <1>4 DEF HostAnswered
  <2>2. <<>> \in Seq(BlockOf(d)) /\ Sends(d, <<>>, <<>>)
    BY <2>1, SendsNothing
  <2> HIDE DEF a
  <2>3. PICK rs \in Seq(RoundBlock(d)) : Posts(d, rs \o <<>>)
    BY <2>1, <2>2, HearPosts
  <2>4. told' \subseteq listening
    BY <2>1, <2>2, HearPosts
  <2>5. LocalStep(d, <<>>, <<>>, rs \o <<>>)
    BY <1>1, <1>2, <2>2, <2>3 DEF LocalStep
  <2> QED
    BY <1>1, <1>4, <2>4, <2>5 DEF a
<1> QED
  BY <1>3, <1>4

(* JoinAnswered: setPlayer and the waiting room, or nothing.               *)
LEMMA JoinAnsweredStep ==
    ASSUME LobbyTypes, NEW d \in Devices, JoinAnswered(d)
    PROVE  /\ inbox[d] # <<>> /\ Head(inbox[d]) \in InMsg(d) /\ Head(inbox[d]).op = "join"
           /\ InIs(d, Tail(inbox[d])) /\ Head(inbox[d]).id \in Mine(d, Id)
           /\ told' \subseteq listening
           /\ \E rs \in Seq(RoundBlock(d)) :
                IF GameExists(Head(inbox[d]))
                  THEN LocalStep(d, <<Msg("setPlayer", Head(inbox[d]).id, 0)>>,
                                    <<Msg("setPlayer", Head(inbox[d]).id, 0)>>,
                                    rs \o Enters(Head(inbox[d]).id, FALSE))
                  ELSE LocalStep(d, <<>>, <<>>, rs \o <<>>)
<1> DEFINE a == Head(inbox[d])
<1>1. /\ Takes(d) /\ InIs(d, Tail(inbox[d])) /\ inbox[d] # <<>>
      /\ a \in InMsg(d) /\ a.op = "join" /\ a.id \in Mine(d, Id)
  BY TakeTakes DEF JoinAnswered, GetOps
<1>2. db' = db
  BY DEF JoinAnswered
<1>3. CASE GameExists(a)
  <2>1. Write(d, <<Msg("setPlayer", a.id, 0)>>) /\ Hear(d, Enters(a.id, FALSE))
    BY <1>3 DEF JoinAnswered, Enters
  <2>2. <<Msg("setPlayer", a.id, 0)>> \in Seq(WriteMsg) /\ Enters(a.id, FALSE) \in Seq(BlockOf(d))
    BY <1>1, MsgIs, EntersAre, MineAre DEF WriteOps
  <2> HIDE DEF a
  <2>3. Sends(d, <<Msg("setPlayer", a.id, 0)>>, <<Msg("setPlayer", a.id, 0)>>)
    BY <2>1, <2>2, WriteSends
  <2>4. PICK rs \in Seq(RoundBlock(d)) : Posts(d, rs \o Enters(a.id, FALSE))
    BY <2>1, <2>2, HearPosts
  <2>5. told' \subseteq listening
    BY <2>1, <2>2, HearPosts
  <2>6. LocalStep(d, <<Msg("setPlayer", a.id, 0)>>, <<Msg("setPlayer", a.id, 0)>>, rs \o Enters(a.id, FALSE))
    BY <1>1, <1>2, <2>3, <2>4 DEF LocalStep
  <2> QED
    BY <1>1, <1>3, <2>5, <2>6 DEF a
<1>4. CASE ~ GameExists(a)
  <2>1. Hear(d, <<>>) /\ UNCHANGED <<outbox, unacked>>
    BY <1>4 DEF JoinAnswered
  <2>2. <<>> \in Seq(BlockOf(d)) /\ Sends(d, <<>>, <<>>)
    BY <2>1, SendsNothing
  <2> HIDE DEF a
  <2>3. PICK rs \in Seq(RoundBlock(d)) : Posts(d, rs \o <<>>)
    BY <2>1, <2>2, HearPosts
  <2>4. told' \subseteq listening
    BY <2>1, <2>2, HearPosts
  <2>5. LocalStep(d, <<>>, <<>>, rs \o <<>>)
    BY <1>1, <1>2, <2>2, <2>3 DEF LocalStep
  <2> QED
    BY <1>1, <1>4, <2>4, <2>5 DEF a
<1> QED
  BY <1>3, <1>4

(* Short queues.                                                           *)
LEMMA SeqOfOne == ASSUME NEW S, NEW x \in S PROVE <<>> \in Seq(S) /\ <<x>> \in Seq(S)
OBVIOUS

(* The block of updateGameSettings, if any.                                *)
LEMMA SettingsBlocksAre ==
    ASSUME NEW d \in Devices, NEW id \in Mine(d, Id), NEW game
    PROVE  SettingsBlocks(id, game) \in Seq(SettingsBlock(d)) /\ SettingsBlocks(id, game) \in Seq(BlockOf(d))
<1> DEFINE b == [op |-> "settings", id |-> id]
<1>1. b \in SettingsBlock(d) /\ b \in BlockOf(d)
  BY DEF BlockOf, SettingsBlock
<1> HIDE DEF b
<1>2. SettingsBlocks(id, game) = <<>> \/ SettingsBlocks(id, game) = <<b>>
  BY DEF SettingsBlocks, b
<1> QED
  BY <1>1, <1>2, SeqOfOne, Zenon

(* The block of handlePlayers, if any.                                     *)
LEMMA RosterBlocksAre ==
    ASSUME NEW d \in Devices, NEW id \in Mine(d, Id), NEW game, game.players \in [Id -> Entry]
    PROVE  /\ RosterBlocks(id, game) \in Seq(RosterBlock(d, game.players))
           /\ RosterBlocks(id, game) \in Seq(BlockOf(d))
<1> DEFINE b == [op |-> "roster", id |-> id, players |-> game.players]
<1>1. b \in RosterBlock(d, game.players) /\ b \in BlockOf(d)
  BY DEF BlockOf, RosterBlock
<1> HIDE DEF b
<1>2. RosterBlocks(id, game) = <<>> \/ RosterBlocks(id, game) = <<b>>
  BY DEF RosterBlocks, b
<1> QED
  BY <1>1, <1>2, SeqOfOne, Zenon

(* SettingsAnswered only posts blocks.                                     *)
LEMMA SettingsAnsweredStep ==
    ASSUME LobbyTypes, NEW d \in Devices, SettingsAnswered(d)
    PROVE  /\ inbox[d] # <<>> /\ Head(inbox[d]).op = "settings" /\ InIs(d, Tail(inbox[d]))
           /\ told' \subseteq listening
           /\ \E rs \in Seq(RoundBlock(d)), ss \in Seq(SettingsBlock(d)) :
                LocalStep(d, <<>>, <<>>, rs \o ss)
<1> DEFINE a == Head(inbox[d])
           ss == SettingsBlocks(a.id, a)
<1>1. /\ Takes(d) /\ InIs(d, Tail(inbox[d])) /\ inbox[d] # <<>>
      /\ a.op = "settings" /\ a.id \in Mine(d, Id)
  BY TakeTakes DEF SettingsAnswered, GetOps
<1>2. db' = db /\ Hear(d, ss) /\ UNCHANGED <<outbox, unacked>>
  BY DEF SettingsAnswered
<1>3. ss \in Seq(SettingsBlock(d)) /\ ss \in Seq(BlockOf(d))
  BY <1>1, SettingsBlocksAre
<1> HIDE DEF a, ss
<1>4. PICK rs \in Seq(RoundBlock(d)) : Posts(d, rs \o ss)
  BY <1>2, <1>3, HearPosts
<1>5. told' \subseteq listening /\ Sends(d, <<>>, <<>>)
  BY <1>2, <1>3, HearPosts, SendsNothing
<1>6. LocalStep(d, <<>>, <<>>, rs \o ss)
  BY <1>1, <1>2, <1>4, <1>5 DEF LocalStep
<1> QED
  BY <1>1, <1>3, <1>5, <1>6 DEF a

(* StartAnswered sends the writes of a start, or nothing.                  *)
LEMMA StartAnsweredStep ==
    ASSUME LobbyTypes, NEW d \in Devices, StartAnswered(d)
    PROVE  /\ inbox[d] # <<>> /\ Head(inbox[d]) \in InMsg(d) /\ Head(inbox[d]).op = "start"
           /\ InIs(d, Tail(inbox[d])) /\ told' \subseteq listening
           /\ \E rs \in Seq(RoundBlock(d)) :
                \/ LocalStep(d, <<>>, <<>>, rs \o <<>>)
                \/ \E order \in SetToSeqs(Present(Head(inbox[d]).players)) :
                     LocalStep(d, StartWrites(order), StartWrites(order), rs \o <<>>)
<1> DEFINE a == Head(inbox[d])
<1>1. /\ Takes(d) /\ InIs(d, Tail(inbox[d])) /\ inbox[d] # <<>>
      /\ a \in InMsg(d) /\ a.op = "start"
  BY TakeTakes DEF StartAnswered, GetOps
<1>2. db' = db /\ Hear(d, <<>>) /\ NumberPlayers(d, a)
  BY DEF StartAnswered
<1>3. <<>> \in Seq(BlockOf(d))
  OBVIOUS
<1> HIDE DEF a
<1>4. PICK rs \in Seq(RoundBlock(d)) : Posts(d, rs \o <<>>)
  BY <1>2, <1>3, HearPosts
<1>5. told' \subseteq listening
  BY <1>2, <1>3, HearPosts
<1>6. \/ Sends(d, <<>>, <<>>)
      \/ \E order \in SetToSeqs(Present(a.players)) : Sends(d, StartWrites(order), StartWrites(order))
  BY <1>2, NumberSends
<1>7. \/ LocalStep(d, <<>>, <<>>, rs \o <<>>)
      \/ \E order \in SetToSeqs(Present(a.players)) :
           LocalStep(d, StartWrites(order), StartWrites(order), rs \o <<>>)
  BY <1>1, <1>2, <1>4, <1>6 DEF LocalStep
<1> QED
  BY <1>1, <1>5, <1>7 DEF a

(* RosterAnswered only posts a block, with the list it was given.          *)
LEMMA RosterAnsweredStep ==
    ASSUME LobbyTypes, NEW d \in Devices, RosterAnswered(d)
    PROVE  /\ inbox[d] # <<>> /\ Head(inbox[d]) \in InMsg(d) /\ Head(inbox[d]).op = "roster"
           /\ InIs(d, Tail(inbox[d]))
           /\ \E bs \in Seq(RosterBlock(d, Head(inbox[d]).players)) :
                LocalStep(d, <<>>, <<>>, bs)
<1> DEFINE a == Head(inbox[d])
           bs == RosterBlocks(a.id, a)
<1>1. /\ Takes(d) /\ InIs(d, Tail(inbox[d])) /\ inbox[d] # <<>>
      /\ a \in InMsg(d) /\ a.op = "roster" /\ a.id \in Mine(d, Id)
  BY TakeTakes DEF RosterAnswered, GetOps
<1>2. db' = db /\ Blocks(d, mainq[d] \o bs) /\ UNCHANGED <<outbox, unacked>>
  BY DEF RosterAnswered
<1>3. a.players \in [Id -> Entry]
  BY <1>1 DEF InMsg
<1>4. bs \in Seq(RosterBlock(d, a.players)) /\ bs \in Seq(BlockOf(d))
  BY <1>1, <1>3, RosterBlocksAre
<1> HIDE DEF a, bs
<1>5. Posts(d, bs) /\ Sends(d, <<>>, <<>>)
  BY <1>2, <1>4, BlocksPost, SendsNothing
<1>6. LocalStep(d, <<>>, <<>>, bs)
  BY <1>1, <1>2, <1>5 DEF LocalStep
<1> QED
  BY <1>1, <1>4, <1>6 DEF a

(* The listeners and the blocks of the main queue.                         *)
LEMMA ToldRoundNumStep ==
    ASSUME LobbyTypes, NEW d \in Devices, NEW id \in listening, ToldRoundNum(d, id)
    PROVE  \E bs \in Seq(RoundBlock(d)) : LocalStep(d, <<>>, <<>>, bs)
<1> DEFINE b == [op |-> "roundNum", id |-> id]
<1>1. id \in Mine(d, Id)
  BY DEF ToldRoundNum, Heard, Mine, LobbyTypes, RoomTypes
<1>2. b \in RoundBlock(d) /\ b \in BlockOf(d)
  BY <1>1 DEF RoundBlock, BlockOf
<1>3. db' = db /\ outbox' = outbox /\ unacked' = unacked /\ inbox' = inbox
  BY DEF ToldRoundNum, netVars
<1>4. Blocks(d, Append(mainq[d], b))
  BY DEF ToldRoundNum, Post
<1> HIDE DEF b
<1>5. mainq[d] \in Seq(BlockOf(d))
  BY DEF LobbyTypes, QueueTypes, MainTypes
<1>6. Append(mainq[d], b) = mainq[d] \o <<b>>
  BY <1>2, <1>5
<1>7. <<b>> \in Seq(RoundBlock(d)) /\ <<b>> \in Seq(BlockOf(d))
  BY <1>2, SeqOfOne, Zenon
<1>8. Posts(d, <<b>>)
  BY <1>4, <1>6, <1>7, BlocksPost
<1>9. LocalStep(d, <<>>, <<>>, <<b>>)
  BY <1>3, <1>8, SendsNothing, TakesNothing DEF LocalStep
<1> QED
  BY <1>7, <1>9

(* ToldPlayers leaves the queues alone.                                    *)
LEMMA ToldPlayersStep ==
    ASSUME LobbyTypes, NEW d \in Devices, NEW id, ToldPlayers(d, id)
    PROVE  LocalStep(d, <<>>, <<>>, <<>>)
<1>1. db' = db /\ outbox' = outbox /\ unacked' = unacked /\ inbox' = inbox /\ mainq' = mainq
  BY DEF ToldPlayers, netVars
<1> QED
  BY <1>1, SendsNothing, TakesNothing, PostsNothing DEF LocalStep

(* The first block of the main queue.                                      *)
LEMMA BlockIs ==
    ASSUME LobbyTypes, NEW d \in Devices, NEW op, Block(d, op)
    PROVE  /\ mainq[d] # <<>> /\ mainq[d] \in Seq(BlockOf(d)) /\ Head(mainq[d]) \in BlockOf(d)
           /\ Head(mainq[d]).op = op /\ Head(mainq[d]).id \in Mine(d, Id)
           /\ op = "enter" => Head(mainq[d]).isHost \in BOOLEAN
           /\ op = "roster" => Head(mainq[d]).players \in [Id -> Entry]
<1>1. mainq[d] \in Seq(BlockOf(d)) /\ mainq[d] # <<>> /\ Head(mainq[d]).op = op
  BY DEF LobbyTypes, QueueTypes, MainTypes, Block
<1>2. PICK b \in BlockOf(d) : b = Head(mainq[d])
  BY <1>1
<1>3. /\ b.id \in Mine(d, Id)
      /\ b.op = "enter" => b.isHost \in BOOLEAN
      /\ b.op = "roster" => b.players \in [Id -> Entry]
  BY DEF BlockOf, RoundBlock, SettingsBlock
<1> QED
  BY <1>1, <1>2, <1>3

(* Enter asks for the settings, or sees them at once.                      *)
LEMMA EnterStep ==
    ASSUME LobbyTypes, NEW d \in Devices, Enter(d)
    PROVE  \/ \E bs \in Seq(SettingsBlock(d)) : LocalStep(d, <<>>, <<>>, bs)
           \/ \E id \in Mine(d, Id) : Get("settings", id) \in GetMsg(d)
                                        /\ LocalStep(d, <<Get("settings", id)>>, <<>>, <<>>)
<1> DEFINE id == Head(mainq[d]).id
           bs == SettingsBlocks(id, LocalView(d))
<1>1. mainq[d] # <<>> /\ id \in Mine(d, Id)
  BY BlockIs DEF Enter
<1>2. db' = db /\ inbox' = inbox
  BY DEF Enter
<1>3. bs \in Seq(SettingsBlock(d)) /\ bs \in Seq(BlockOf(d))
  BY <1>1, SettingsBlocksAre
<1>4. Get("settings", id) \in GetMsg(d)
  BY <1>1, GetIs DEF GetOps
<1>5. \/ Blocks(d, Tail(mainq[d]) \o bs) /\ UNCHANGED <<outbox, unacked>>
      \/ Blocks(d, Tail(mainq[d])) /\ Ask(d, Get("settings", id))
  BY DEF Enter
<1> HIDE DEF id, bs
<1>6. CASE Blocks(d, Tail(mainq[d]) \o bs) /\ UNCHANGED <<outbox, unacked>>
  <2>1. Posts(d, bs)
    BY <1>1, <1>3, <1>6, BlocksPost
  <2>2. LocalStep(d, <<>>, <<>>, bs)
    BY <1>2, <1>6, <2>1, SendsNothing, TakesNothing DEF LocalStep
  <2> QED
    BY <1>3, <2>2
<1>7. CASE Blocks(d, Tail(mainq[d])) /\ Ask(d, Get("settings", id))
  <2>1. Posts(d, <<>>)
    BY <1>1, <1>3, <1>7, BlocksPost
  <2>2. LocalStep(d, <<Get("settings", id)>>, <<>>, <<>>)
    BY <1>2, <1>4, <1>7, <2>1, AskSends, TakesNothing DEF LocalStep
  <2> QED
    BY <1>1, <1>4, <2>2
<1> QED
  BY <1>5, <1>6, <1>7

(* UpdateGameSettings only takes its block.                                *)
LEMMA UpdateGameSettingsStep ==
    ASSUME LobbyTypes, NEW d \in Devices, UpdateGameSettings(d)
    PROVE  LocalStep(d, <<>>, <<>>, <<>>)
<1>1. mainq[d] # <<>> /\ Blocks(d, Tail(mainq[d])) /\ <<>> \in Seq(BlockOf(d))
  BY BlockIs DEF UpdateGameSettings
<1>2. db' = db /\ inbox' = inbox /\ outbox' = outbox /\ unacked' = unacked
  BY DEF UpdateGameSettings, netVars
<1> QED
  BY <1>1, <1>2, BlocksPost, SendsNothing, TakesNothing DEF LocalStep

(* CheckRoundNum asks for the players, or sees them at once, or does nothing. *)
LEMMA CheckRoundNumStep ==
    ASSUME LobbyTypes, NEW d \in Devices, CheckRoundNum(d)
    PROVE  \/ LocalStep(d, <<>>, <<>>, <<>>)
           \/ Shadowed(d) /\ \E bs \in Seq(RosterBlock(d, LocalView(d).players)) : LocalStep(d, <<>>, <<>>, bs)
           \/ \E id \in Mine(d, Id) : Get("roster", id) \in GetMsg(d)
                                        /\ LocalStep(d, <<Get("roster", id)>>, <<>>, <<>>)
<1> DEFINE id == Head(mainq[d]).id
           bs == RosterBlocks(id, LocalView(d))
<1>1. mainq[d] # <<>> /\ id \in Mine(d, Id)
  BY BlockIs DEF CheckRoundNum
<1>2. db' = db /\ inbox' = inbox
  BY DEF CheckRoundNum
<1>3. LocalView(d).players \in [Id -> Entry]
  BY LocalViewIsGame DEF Game
<1>4. bs \in Seq(RosterBlock(d, LocalView(d).players)) /\ bs \in Seq(BlockOf(d))
  BY <1>1, <1>3, RosterBlocksAre
<1>5. Get("roster", id) \in GetMsg(d)
  BY <1>1, GetIs DEF GetOps
<1>6. \/ Blocks(d, Tail(mainq[d])) /\ UNCHANGED <<outbox, unacked>>
      \/ Shadowed(d) /\ Blocks(d, Tail(mainq[d]) \o bs) /\ UNCHANGED <<outbox, unacked>>
      \/ Blocks(d, Tail(mainq[d])) /\ Ask(d, Get("roster", id))
  BY DEF CheckRoundNum
<1> HIDE DEF id, bs
<1>7. CASE Blocks(d, Tail(mainq[d])) /\ UNCHANGED <<outbox, unacked>>
  <2>1. Posts(d, <<>>)
    BY <1>1, <1>4, <1>7, BlocksPost
  <2> QED
    BY <1>2, <1>7, <2>1, SendsNothing, TakesNothing DEF LocalStep
<1>8. CASE Shadowed(d) /\ Blocks(d, Tail(mainq[d]) \o bs) /\ UNCHANGED <<outbox, unacked>>
  <2>1. Posts(d, bs)
    BY <1>1, <1>4, <1>8, BlocksPost
  <2>2. LocalStep(d, <<>>, <<>>, bs)
    BY <1>2, <1>8, <2>1, SendsNothing, TakesNothing DEF LocalStep
  <2> QED
    BY <1>4, <1>8, <2>2
<1>9. CASE Blocks(d, Tail(mainq[d])) /\ Ask(d, Get("roster", id))
  <2>1. Posts(d, <<>>)
    BY <1>1, <1>4, <1>9, BlocksPost
  <2>2. LocalStep(d, <<Get("roster", id)>>, <<>>, <<>>)
    BY <1>2, <1>5, <1>9, <2>1, AskSends, TakesNothing DEF LocalStep
  <2> QED
    BY <1>1, <1>5, <2>2
<1> QED
  BY <1>6, <1>7, <1>8, <1>9

(* HandlePlayers only takes its block.                                     *)
LEMMA HandlePlayersStep ==
    ASSUME LobbyTypes, NEW d \in Devices, HandlePlayers(d)
    PROVE  LocalStep(d, <<>>, <<>>, <<>>)
<1>1. mainq[d] # <<>> /\ Blocks(d, Tail(mainq[d])) /\ <<>> \in Seq(BlockOf(d))
  BY BlockIs DEF HandlePlayers
<1>2. db' = db /\ inbox' = inbox /\ outbox' = outbox /\ unacked' = unacked
  BY DEF HandlePlayers, netVars
<1> QED
  BY <1>1, <1>2, BlocksPost, SendsNothing, TakesNothing DEF LocalStep

(* The steps of the connection.                                            *)
LEMMA AnswerIs ==
    ASSUME NEW d \in Devices, db \in Game, NEW m \in OutMsg(d)
    PROVE  /\ Answer(m) \in InMsg(d) /\ Answer(m).op = m.op
           /\ Answer(m).exists = (IsGet(m) /\ db.exists)
           /\ Answer(m).players \in {db.players, Empty}
<1>1. db.exists \in BOOLEAN /\ db.roundNum \in 0..1 /\ db.players \in [Id -> Entry]
  BY DEF Game
<1>2. Empty \in [Id -> Entry]
  BY DEF Empty, Absent, Entry
<1>3. m.op \in GetOps \cup WriteOps /\ m.id \in Id \cup {NoId} /\ (m.op \in GetOps => m.id \in Mine(d, Id))
  <2>1. CASE m \in WriteMsg
    BY <2>1 DEF WriteMsg, WriteOps, GetOps
  <2>2. CASE m \in GetMsg(d)
    BY <2>2, MineAre DEF GetMsg
  <2> QED
    BY <2>1, <2>2 DEF OutMsg
<1> DEFINE e == (IsGet(m) /\ db.exists)
           r == IF IsGet(m) /\ m.op # "roster" THEN db.roundNum ELSE 0
           p == IF m.op \in {"start", "roster"} THEN db.players ELSE Empty
<1>4. e \in BOOLEAN /\ r \in 0..1 /\ p \in {db.players, Empty} /\ p \in [Id -> Entry]
  BY <1>1, <1>2
<1>5. Answer(m) = [op |-> m.op, id |-> m.id, exists |-> e, roundNum |-> r, players |-> p]
  BY DEF Answer
<1> HIDE DEF e, r, p
<1>6. Answer(m) \in InMsg(d)
  BY <1>3, <1>4, <1>5 DEF InMsg
<1>7. Answer(m).op = m.op /\ Answer(m).exists = e /\ Answer(m).players = p
  BY <1>5
<1> QED
  BY <1>4, <1>6, <1>7 DEF e

(* Deliver moves a message to the server and its answer to the inbox.      *)
LEMMA DeliverStep ==
    ASSUME LobbyTypes, NEW d \in Devices, Deliver(d)
    PROVE  /\ outbox[d] # <<>> /\ Head(outbox[d]) \in OutMsg(d)
           /\ OutIs(d, Tail(outbox[d])) /\ InIs(d, Append(inbox[d], Answer(Head(outbox[d]))))
           /\ Answer(Head(outbox[d])) \in InMsg(d)
           /\ unacked' = unacked /\ mainq' = mainq
           /\ db' = IF IsGet(Head(outbox[d])) THEN db ELSE Stored(db, Head(outbox[d]))
           /\ QueueTypes' /\ db' \in Game
<1> DEFINE m == Head(outbox[d])
           a == Answer(m)
<1>1. /\ OnDevices(outbox) /\ OnDevices(inbox) /\ db \in Game
      /\ \A e \in Devices : outbox[e] \in Seq(OutMsg(e)) /\ inbox[e] \in Seq(InMsg(e))
  BY DEF LobbyTypes, QueueTypes, OutTypes, InTypes
<1>2. outbox[d] # <<>> /\ m \in OutMsg(d)
  BY <1>1 DEF Deliver
<1>3. a \in InMsg(d)
  BY <1>1, <1>2, AnswerIs
<1>4. OutIs(d, Tail(outbox[d])) /\ InIs(d, Append(inbox[d], a))
  BY <1>1, SetIs DEF OutIs, InIs, Deliver
<1>5. unacked' = unacked /\ mainq' = mainq /\ db' = IF IsGet(m) THEN db ELSE Stored(db, m)
  BY DEF Deliver
<1> HIDE DEF m, a
<1>6. Tail(outbox[d]) \in Seq(OutMsg(d)) /\ Append(inbox[d], a) \in Seq(InMsg(d))
  BY <1>1, <1>2, <1>3
<1>7. OutTypes' /\ InTypes'
  BY <1>1, <1>4, <1>6, Zenon DEF OutTypes, InTypes, OutIs, InIs, IsNow
<1>8. UnTypes' /\ MainTypes'
  BY <1>5 DEF LobbyTypes, QueueTypes, UnTypes, MainTypes, OnDevices
<1>9. db' \in Game
  <2>1. CASE IsGet(m)
    BY <1>1, <1>5, <2>1
  <2>2. CASE ~ IsGet(m)
    <3>1. m \in WriteMsg
      BY <1>2, <2>2 DEF OutMsg, GetMsg, IsGet
    <3> QED
      BY <1>1, <1>5, <2>2, <3>1, StoredIsGame
  <2> QED
    BY <2>1, <2>2
<1> QED
  BY <1>2, <1>3, <1>4, <1>5, <1>7, <1>8, <1>9 DEF QueueTypes, m, a

(* GetFails drops a get.                                                   *)
LEMMA GetFailsStep ==
    ASSUME LobbyTypes, NEW d \in Devices, GetFails(d)
    PROVE  /\ outbox[d] # <<>> /\ Head(outbox[d]) \in OutMsg(d) /\ Head(outbox[d]).op \in GetOps
           /\ OutIs(d, Tail(outbox[d]))
           /\ unacked' = unacked /\ mainq' = mainq /\ inbox' = inbox /\ db' = db
           /\ QueueTypes' /\ db' \in Game
<1>1. OnDevices(outbox) /\ \A e \in Devices : outbox[e] \in Seq(OutMsg(e))
  BY DEF LobbyTypes, QueueTypes, OutTypes
<1>2. outbox[d] # <<>> /\ Head(outbox[d]) \in OutMsg(d) /\ Head(outbox[d]).op \in GetOps
  BY <1>1 DEF GetFails, IsGet
<1>3. OutIs(d, Tail(outbox[d]))
  BY <1>1, SetIs DEF OutIs, GetFails
<1>4. unacked' = unacked /\ mainq' = mainq /\ inbox' = inbox /\ db' = db
  BY DEF GetFails
<1>5. Tail(outbox[d]) \in Seq(OutMsg(d))
  BY <1>1, <1>2
<1>6. OutTypes'
  BY <1>1, <1>3, <1>5, Zenon DEF OutTypes, OutIs, IsNow
<1>7. UnTypes' /\ MainTypes' /\ InTypes' /\ db' \in Game
  BY <1>4 DEF LobbyTypes, QueueTypes, UnTypes, MainTypes, InTypes, OnDevices
<1> QED
  BY <1>2, <1>3, <1>4, <1>6, <1>7 DEF QueueTypes

(* LoseConnection empties the inbox and sends the pending writes again.    *)
LEMMA LoseConnectionStep ==
    ASSUME LobbyTypes, NEW d \in Devices, LoseConnection(d)
    PROVE  /\ OutIs(d, unacked[d]) /\ InIs(d, <<>>)
           /\ unacked' = unacked /\ mainq' = mainq /\ db' = db
           /\ QueueTypes' /\ db' \in Game
<1>1. /\ OnDevices(outbox) /\ OnDevices(inbox)
      /\ \A e \in Devices : /\ outbox[e] \in Seq(OutMsg(e)) /\ inbox[e] \in Seq(InMsg(e))
                            /\ unacked[e] \in Seq(WriteMsg)
  BY DEF LobbyTypes, QueueTypes, OutTypes, InTypes, UnTypes
<1>2. OutIs(d, unacked[d]) /\ InIs(d, <<>>)
  BY <1>1, SetIs DEF OutIs, InIs, LoseConnection, Resent
<1>3. unacked' = unacked /\ mainq' = mainq /\ db' = db
  BY DEF LoseConnection
<1>4. unacked[d] \in Seq(OutMsg(d)) /\ <<>> \in Seq(InMsg(d))
  <2>1. WriteMsg \subseteq OutMsg(d)
    BY DEF OutMsg
  <2>2. \A i \in 1..Len(unacked[d]) : unacked[d][i] \in OutMsg(d)
    BY <1>1, <2>1
  <2> QED
    BY <1>1, <2>2
<1>5. OutTypes' /\ InTypes'
  BY <1>1, <1>2, <1>4, Zenon DEF OutTypes, InTypes, OutIs, InIs, IsNow
<1>6. UnTypes' /\ MainTypes' /\ db' \in Game
  BY <1>3 DEF LobbyTypes, QueueTypes, UnTypes, MainTypes, OnDevices
<1> QED
  BY <1>2, <1>3, <1>5, <1>6 DEF QueueTypes

(* The oldest unacknowledged write is the one that is acknowledged.        *)
LEMMA AckWriteStep ==
    ASSUME LobbyTypes, Mirror, NEW d \in Devices, AckWrite(d)
    PROVE  /\ inbox[d] # <<>> /\ Head(inbox[d]).op \in WriteOps
           /\ unacked[d] # <<>> /\ Head(unacked[d]).op = Head(inbox[d]).op
           /\ InIs(d, Tail(inbox[d])) /\ UnIs(d, Tail(unacked[d]))
           /\ outbox' = outbox /\ mainq' = mainq /\ db' = db
           /\ QueueTypes' /\ db' \in Game
<1>1. /\ OnDevices(unacked) /\ OnDevices(inbox)
      /\ \A e \in Devices : /\ outbox[e] \in Seq(OutMsg(e)) /\ inbox[e] \in Seq(InMsg(e))
                            /\ unacked[e] \in Seq(WriteMsg)
  BY DEF LobbyTypes, QueueTypes, OutTypes, InTypes, UnTypes
<1>2. inbox[d] # <<>> /\ Head(inbox[d]).op \in WriteOps
  BY DEF AckWrite, Answered
<1>3. unacked[d] # <<>> /\ Head(unacked[d]).op = Head(inbox[d]).op
  <2>1. MirrorOf(inbox[d], unacked[d], outbox[d])
    BY DEF Mirror
  <2> QED
    BY <1>1, <1>2, <2>1, MirrorTake
<1>4. InIs(d, Tail(inbox[d])) /\ UnIs(d, Tail(unacked[d]))
  BY <1>1, SetIs DEF InIs, UnIs, AckWrite, TakeAnswer
<1>5. outbox' = outbox /\ mainq' = mainq /\ db' = db
  BY DEF AckWrite
<1>6. Tail(inbox[d]) \in Seq(InMsg(d)) /\ Tail(unacked[d]) \in Seq(WriteMsg)
  BY <1>1, <1>2, <1>3
<1>7. InTypes' /\ UnTypes'
  BY <1>1, <1>4, <1>6, Zenon DEF InTypes, UnTypes, InIs, UnIs, IsNow
<1>8. OutTypes' /\ MainTypes' /\ db' \in Game
  BY <1>5 DEF LobbyTypes, QueueTypes, OutTypes, MainTypes, OnDevices
<1> QED
  BY <1>2, <1>3, <1>4, <1>5, <1>7, <1>8 DEF QueueTypes

-----------------------------------------------------------------------------
(* The types and the order of the writes are preserved.                    *)

(* A step is one of the connection of a device, or a local one.            *)
IsLocal(d) == \E xs, ms, bs : LocalStep(d, xs, ms, bs)

(* Every step is of one of these kinds.                                    *)
LEMMA StepIs ==
    ASSUME LobbyTypes, Next
    PROVE  \E d \in Devices : IsLocal(d) \/ Deliver(d) \/ GetFails(d) \/ LoseConnection(d) \/ AckWrite(d)
<1>1. PICK d \in Devices : Tap(d) \/ Work(d) \/ GetFails(d) \/ LoseConnection(d)
  BY DEF Next
<1>2. CASE Tap(d)
  BY <1>2, TapHostStep, TapJoinStep, TapStartStep, TapLeaveStep DEF Tap, IsLocal
<1>3. CASE Complete(d)
  <2>1. CASE HostAnswered(d)
    BY <2>1, HostAnsweredStep DEF IsLocal
  <2>2. CASE JoinAnswered(d)
    BY <2>2, JoinAnsweredStep DEF IsLocal
  <2>3. CASE SettingsAnswered(d) \/ StartAnswered(d) \/ RosterAnswered(d)
    BY <2>3, SettingsAnsweredStep, StartAnsweredStep, RosterAnsweredStep DEF IsLocal
  <2> QED
    BY <1>3, <2>1, <2>2, <2>3 DEF Complete
<1>4. CASE Listen(d)
  BY <1>4, ToldRoundNumStep, ToldPlayersStep DEF Listen, IsLocal
<1>5. CASE Main(d)
  BY <1>5, EnterStep, UpdateGameSettingsStep, CheckRoundNumStep, HandlePlayersStep DEF Main, IsLocal
<1> QED
  BY <1>1, <1>2, <1>3, <1>4, <1>5 DEF Work

(* The queues keep their types.                                            *)
LEMMA QueueTypesStep ==
    ASSUME LobbyTypes, Mirror, Next
    PROVE  QueueTypes' /\ db' \in Game
<1>1. PICK d \in Devices : IsLocal(d) \/ Deliver(d) \/ GetFails(d) \/ LoseConnection(d) \/ AckWrite(d)
  BY StepIs
<1>2. CASE IsLocal(d)
  BY <1>2, LocalTypes DEF IsLocal
<1>3. CASE Deliver(d)
  BY <1>3, DeliverStep
<1>4. CASE GetFails(d)
  BY <1>4, GetFailsStep
<1>5. CASE LoseConnection(d)
  BY <1>5, LoseConnectionStep
<1>6. CASE AckWrite(d)
  BY <1>6, AckWriteStep
<1> QED
  BY <1>1, <1>2, <1>3, <1>4, <1>5, <1>6

(* The writes keep their order.                                            *)
LEMMA MirrorStep ==
    ASSUME LobbyTypes, Mirror, Next
    PROVE  Mirror'
<1>0. \A e \in Devices : /\ outbox[e] \in Seq(OutMsg(e)) /\ inbox[e] \in Seq(InMsg(e))
                         /\ unacked[e] \in Seq(WriteMsg) /\ MirrorOf(inbox[e], unacked[e], outbox[e])
  BY DEF LobbyTypes, QueueTypes, OutTypes, InTypes, UnTypes, Mirror
<1>1. PICK d \in Devices : IsLocal(d) \/ Deliver(d) \/ GetFails(d) \/ LoseConnection(d) \/ AckWrite(d)
  BY StepIs
<1>2. CASE IsLocal(d)
  <2>1. PICK xs, ms, bs : LocalStep(d, xs, ms, bs)
    BY <1>2 DEF IsLocal
  <2>2. /\ xs \in Seq(OutMsg(d)) /\ ms \in Seq(WriteMsg)
        /\ OutIs(d, outbox[d] \o xs) /\ UnIs(d, unacked[d] \o ms)
    BY <2>1 DEF LocalStep, Sends
  <2>3. \/ xs = ms /\ \A i \in 1..Len(xs) : xs[i].op \in WriteOps
        \/ ms = <<>> /\ \A i \in 1..Len(xs) : xs[i].op \notin WriteOps
    <3>1. CASE xs = ms
      <4>1. \A m \in WriteMsg : m.op \in WriteOps
        BY DEF WriteMsg
      <4>2. \A i \in 1..Len(ms) : ms[i] \in WriteMsg
        BY <2>2
      <4> QED
        BY <3>1, <4>1, <4>2, Zenon
    <3>2. CASE ms = <<>> /\ \A i \in 1..Len(xs) : xs[i] \in GetMsg(d)
      <4>1. \A m \in GetMsg(d) : m.op \notin WriteOps
        BY DEF GetMsg, GetOps, WriteOps
      <4> QED
        BY <3>2, <4>1, Zenon
    <3> QED
      BY <2>1, <3>1, <3>2 DEF LocalStep, Sends
  <2>4. MirrorOf(inbox[d], unacked[d] \o ms, outbox[d] \o xs)
    BY <1>0, <2>2, <2>3, MirrorSend
  <2>5. /\ unacked[d] \o ms \in Seq(WriteMsg) /\ outbox[d] \o xs \in Seq(OutMsg(d))
    BY <1>0, <2>2
  <2>6. inbox[d] # <<>> /\ IsGet(Head(inbox[d])) => MirrorOf(Tail(inbox[d]), unacked[d] \o ms, outbox[d] \o xs)
    <3> SUFFICES ASSUME inbox[d] # <<>>, IsGet(Head(inbox[d]))
                 PROVE  MirrorOf(Tail(inbox[d]), unacked[d] \o ms, outbox[d] \o xs)
      OBVIOUS
    <3>1. Head(inbox[d]).op \notin WriteOps
      BY DEF IsGet, GetOps, WriteOps
    <3>2. PICK u, o : u = unacked[d] \o ms /\ o = outbox[d] \o xs
      OBVIOUS
    <3>3. MirrorOf(Tail(inbox[d]), u, o)
      BY <1>0, <2>4, <2>5, <3>1, <3>2, MirrorTake
    <3> QED
      BY <3>2, <3>3
  <2>7. MirrorOf(inbox'[d], unacked'[d], outbox'[d])
    BY <2>1, <2>2, <2>4, <2>6, Zenon DEF LocalStep, Takes, OutIs, UnIs, InIs, IsNow
  <2>8. \A e \in Devices : e # d => inbox'[e] = inbox[e] /\ unacked'[e] = unacked[e] /\ outbox'[e] = outbox[e]
    BY <2>1, <2>2, Zenon DEF LocalStep, Takes, OutIs, UnIs, InIs, IsNow
  <2> QED
    BY <1>0, <2>7, <2>8 DEF Mirror
<1>3. CASE Deliver(d)
  <2>1. /\ outbox[d] # <<>> /\ OutIs(d, Tail(outbox[d])) /\ unacked' = unacked
        /\ InIs(d, Append(inbox[d], Answer(Head(outbox[d]))))
        /\ Head(outbox[d]) \in OutMsg(d) /\ Answer(Head(outbox[d])) \in InMsg(d)
    BY <1>3, DeliverStep
  <2>2. Answer(Head(outbox[d])).op = Head(outbox[d]).op
    BY DEF Answer
  <2>3. MirrorOf(Append(inbox[d], Answer(Head(outbox[d]))), unacked[d], Tail(outbox[d]))
    BY <1>0, <2>1, <2>2, MirrorDeliver
  <2> QED
    BY <1>0, <2>1, <2>3 DEF Mirror, OutIs, InIs, IsNow
<1>4. CASE GetFails(d)
  <2>1. /\ outbox[d] # <<>> /\ OutIs(d, Tail(outbox[d])) /\ unacked' = unacked /\ inbox' = inbox
        /\ Head(outbox[d]) \in OutMsg(d) /\ Head(outbox[d]).op \in GetOps
    BY <1>4, GetFailsStep
  <2>2. Head(outbox[d]).op \notin WriteOps /\ db \in Game
    BY <2>1 DEF GetOps, WriteOps, LobbyTypes
  <2>3. Answer(Head(outbox[d])) \in InMsg(d) /\ Answer(Head(outbox[d])).op = Head(outbox[d]).op
    BY <2>1, <2>2, AnswerIs
  <2>4. MirrorOf(inbox[d], unacked[d], Tail(outbox[d]))
    BY <1>0, <2>1, <2>2, <2>3, MirrorDeliver
  <2> QED
    BY <1>0, <2>1, <2>4 DEF Mirror, OutIs, IsNow
<1>5. CASE LoseConnection(d)
  <2>1. OutIs(d, unacked[d]) /\ InIs(d, <<>>) /\ unacked' = unacked
    BY <1>5, LoseConnectionStep
  <2>2. \A i \in 1..Len(unacked[d]) : unacked[d][i].op \in WriteOps
    <3>1. \A m \in WriteMsg : m.op \in WriteOps
      BY DEF WriteMsg
    <3>2. \A i \in 1..Len(unacked[d]) : unacked[d][i] \in WriteMsg
      BY <1>0
    <3> QED
      BY <3>1, <3>2, Zenon
  <2>3. MirrorOf(<<>>, unacked[d], unacked[d])
    BY <1>0, <2>2, MirrorResend
  <2> QED
    BY <1>0, <2>1, <2>3 DEF Mirror, OutIs, InIs, IsNow
<1>6. CASE AckWrite(d)
  <2>1. /\ inbox[d] # <<>> /\ Head(inbox[d]).op \in WriteOps
        /\ InIs(d, Tail(inbox[d])) /\ UnIs(d, Tail(unacked[d])) /\ outbox' = outbox
    BY <1>6, AckWriteStep
  <2>2. MirrorOf(Tail(inbox[d]), Tail(unacked[d]), outbox[d])
    BY <1>0, <2>1, MirrorTake
  <2> QED
    BY <1>0, <2>1, <2>2 DEF Mirror, InIs, UnIs, IsNow
<1> QED
  BY <1>1, <1>2, <1>3, <1>4, <1>5, <1>6

(* The waiting rooms.                                                      *)
LEMMA RoomTypesStep ==
    ASSUME LobbyTypes, Next
    PROVE  RoomTypes'
<1>1. PICK d \in Devices : Tap(d) \/ Work(d) \/ GetFails(d) \/ LoseConnection(d)
  BY DEF Next
<1>2. RoomTypes /\ told \subseteq listening
  BY DEF LobbyTypes, RoomTypes
<1>3. CASE UNCHANGED roomVars /\ listening' = listening /\ told' \subseteq listening
  BY <1>2, <1>3 DEF RoomTypes, roomVars, OnDevices
<1>4. CASE TapHost(d) \/ TapJoin(d) \/ TapStart(d) \/ Deliver(d) \/ GetFails(d) \/ LoseConnection(d)
           \/ AckWrite(d) \/ RosterAnswered(d) \/ \E id \in listening : ToldPlayers(d, id)
  BY <1>2, <1>3, <1>4 DEF TapHost, TapJoin, TapStart, Deliver, GetFails, LoseConnection, AckWrite,
                          RosterAnswered, ToldPlayers, listenVars
<1>5. CASE HostAnswered(d)
  BY <1>3, <1>5, HostAnsweredStep DEF HostAnswered
<1>6. CASE JoinAnswered(d)
  BY <1>3, <1>6, JoinAnsweredStep DEF JoinAnswered
<1>7. CASE SettingsAnswered(d)
  BY <1>3, <1>7, SettingsAnsweredStep DEF SettingsAnswered
<1>8. CASE StartAnswered(d)
  BY <1>3, <1>8, StartAnsweredStep DEF StartAnswered
<1>9. CASE \E id \in listening : ToldRoundNum(d, id)
  BY <1>2, <1>3, <1>9 DEF ToldRoundNum
<1>10. StopObserving(d) => told' \subseteq listening' /\ listening' \subseteq listening
  BY <1>2 DEF StopObserving, Mine
<1>11. CASE TapLeave(d)
  <2>1. /\ current' = current /\ hosting' = hosting /\ settings' = settings /\ seat' = seat
        /\ screen' = [screen EXCEPT ![d] = "Home"]
        /\ told' \subseteq listening' /\ listening' \subseteq listening
    BY <1>2, <1>10, <1>11 DEF TapLeave, listenVars
  <2> QED
    BY <1>2, <2>1 DEF RoomTypes, OnDevices
<1>12. CASE Enter(d)
  <2> DEFINE id == Head(mainq[d]).id
  <2>1. id \in Mine(d, Id) /\ id \in Id
    BY <1>12, BlockIs, MineAre DEF Enter
  <2>2. /\ screen' = [screen EXCEPT ![d] = "WaitingRoom"] /\ current' = [current EXCEPT ![d] = id]
        /\ hosting' \subseteq hosting \cup {id} /\ listening' = listening \cup {id}
        /\ settings' = settings /\ seat' = seat /\ told' = told
    BY <1>12 DEF Enter
  <2> HIDE DEF id
  <2>3. OnDevices(current') /\ current'[d] = id /\ \A e \in Devices : e # d => current'[e] = current[e]
    BY <1>2, <2>2 DEF RoomTypes, OnDevices
  <2>4. screen' \in [Devices -> {"Home", "WaitingRoom", "Sheet"}] /\ screen'[d] = "WaitingRoom"
          /\ \A e \in Devices : e # d => screen'[e] = screen[e]
    BY <1>2, <2>2 DEF RoomTypes
  <2>5. OnDevices(seat')
    BY <1>2, <2>2 DEF RoomTypes, OnDevices
  <2>6. \A e \in Devices :
         /\ current'[e] \in Mine(e, Id) \cup {NoId}
         /\ screen'[e] = "WaitingRoom" => current'[e] \in Mine(e, Id)
    BY <1>2, <2>1, <2>3, <2>4 DEF RoomTypes
  <2>7. \A e \in Devices : (seat'[e] = NoSeat /\ screen'[e] # "Sheet") \/ seat'[e] \in Seat(e)
    BY <1>2, <2>2, <2>4 DEF RoomTypes
  <2>8. /\ hosting' \subseteq Id /\ settings' \subseteq Id /\ listening' \subseteq Id /\ told' \subseteq listening'
    BY <1>2, <2>1, <2>2 DEF RoomTypes
  <2> QED
    BY <2>3, <2>4, <2>5, <2>6, <2>7, <2>8 DEF RoomTypes
<1>13. CASE UpdateGameSettings(d)
  <2>1. Head(mainq[d]).id \in Id
    BY <1>13, BlockIs, MineAre DEF UpdateGameSettings
  <2>2. /\ screen' = screen /\ current' = current /\ hosting' = hosting /\ seat' = seat
        /\ settings' = settings \cup {Head(mainq[d]).id} /\ listening' = listening /\ told' = told
    BY <1>13 DEF UpdateGameSettings, listenVars
  <2> QED
    BY <1>2, <2>1, <2>2 DEF RoomTypes, OnDevices
<1>14. CASE CheckRoundNum(d)
  <2>1. /\ screen' = screen /\ current' = current /\ hosting' = hosting /\ seat' = seat
        /\ settings' = settings /\ told' \subseteq listening' /\ listening' \subseteq listening
    BY <1>2, <1>10, <1>14 DEF CheckRoundNum, listenVars, roomVars
  <2> QED
    BY <1>2, <2>1 DEF RoomTypes, OnDevices
<1>15. CASE HandlePlayers(d)
  <2> DEFINE id == Head(mainq[d]).id
             players == Head(mainq[d]).players
             s == [id |-> id, number |-> players[id].number, count |-> Cardinality(Present(players))]
  <2>1. id \in Mine(d, Id) /\ id \in Id /\ players \in [Id -> Entry]
    BY <1>15, BlockIs, MineAre DEF HandlePlayers
  <2>2. current' = current /\ hosting' = hosting /\ settings' = settings /\ listening' = listening /\ told' = told
    BY <1>15 DEF HandlePlayers, listenVars
  <2>3. \/ screen' = screen /\ seat' = seat
        \/ screen' = [screen EXCEPT ![d] = "Sheet"] /\ seat' = [seat EXCEPT ![d] = s]
    BY <1>15 DEF HandlePlayers
  <2>4. s \in Seat(d)
    <3>1. players[id].number \in Nat
      BY <2>1 DEF Entry
    <3> QED
      BY <2>1, <3>1, FinitePresent DEF Seat
  <2> HIDE DEF s, id, players
  <2>5. CASE screen' = screen /\ seat' = seat
    BY <1>2, <2>2, <2>5 DEF RoomTypes, OnDevices
  <2>6. CASE screen' = [screen EXCEPT ![d] = "Sheet"] /\ seat' = [seat EXCEPT ![d] = s]
    <3>1. OnDevices(seat') /\ seat'[d] = s /\ \A e \in Devices : e # d => seat'[e] = seat[e]
      BY <1>2, <2>6 DEF RoomTypes, OnDevices
    <3>2. screen' \in [Devices -> {"Home", "WaitingRoom", "Sheet"}] /\ screen'[d] = "Sheet"
            /\ \A e \in Devices : e # d => screen'[e] = screen[e]
      BY <1>2, <2>6 DEF RoomTypes
    <3>3. OnDevices(current')
      BY <1>2, <2>2 DEF RoomTypes, OnDevices
    <3>4. \A e \in Devices :
           /\ current'[e] \in Mine(e, Id) \cup {NoId}
           /\ screen'[e] = "WaitingRoom" => current'[e] \in Mine(e, Id)
      BY <1>2, <2>2, <3>2 DEF RoomTypes
    <3>5. \A e \in Devices : (seat'[e] = NoSeat /\ screen'[e] # "Sheet") \/ seat'[e] \in Seat(e)
      BY <1>2, <2>4, <3>1, <3>2 DEF RoomTypes
    <3> QED
      BY <1>2, <2>2, <3>1, <3>2, <3>3, <3>4, <3>5 DEF RoomTypes
  <2> QED
    BY <2>3, <2>5, <2>6
<1> QED
  BY <1>1, <1>4, <1>5, <1>6, <1>7, <1>8, <1>9, <1>11, <1>12, <1>13, <1>14, <1>15
    DEF Tap, Work, Complete, Listen, Main

(* The taps and the faults.                                                *)
LEMMA TapTypesStep ==
    ASSUME LobbyTypes, Next
    PROVE  TapTypes'
<1>1. PICK d \in Devices : Tap(d) \/ Work(d) \/ GetFails(d) \/ LoseConnection(d)
  BY DEF Next
<1>2. TapTypes /\ MaxTaps \in Nat /\ MaxStarts \in Nat /\ MaxFaults \in Nat
  BY LobbyAssumption DEF LobbyTypes
<1>3. CASE UNCHANGED <<alive, taps, starts, faults, disturbed, contested, getLost>>
  BY <1>2, <1>3 DEF TapTypes
<1>4. CASE AckWrite(d) \/ HostAnswered(d) \/ JoinAnswered(d) \/ SettingsAnswered(d) \/ StartAnswered(d)
           \/ RosterAnswered(d) \/ Deliver(d) \/ Enter(d) \/ UpdateGameSettings(d) \/ CheckRoundNum(d)
           \/ \E id \in listening : ToldRoundNum(d, id)
  BY <1>3, <1>4 DEF AckWrite, HostAnswered, JoinAnswered, SettingsAnswered, StartAnswered, RosterAnswered,
                    Deliver, Enter, UpdateGameSettings, CheckRoundNum, ToldRoundNum, tapVars, faultVars
<1>5. CASE TapHost(d)
  <2>1. alive' = alive /\ starts' = starts /\ faults' = faults /\ getLost' = getLost
    BY <1>5 DEF TapHost, faultVars
  <2>2. disturbed' \in BOOLEAN /\ contested' \in BOOLEAN
    BY <1>5 DEF TapHost
  <2>3. taps' \in [Devices -> 0..MaxTaps]
    BY <1>2, <1>5 DEF TapHost, TapTypes
  <2> QED
    BY <1>2, <2>1, <2>2, <2>3 DEF TapTypes
<1>6. CASE TapJoin(d)
  <2>1. alive' = alive /\ starts' = starts /\ faults' = faults /\ getLost' = getLost /\ contested' = contested
    BY <1>6 DEF TapJoin, faultVars
  <2>2. disturbed' \in BOOLEAN
    BY <1>6 DEF TapJoin
  <2>3. taps' \in [Devices -> 0..MaxTaps]
    BY <1>2, <1>6 DEF TapJoin, TapTypes
  <2> QED
    BY <1>2, <2>1, <2>2, <2>3 DEF TapTypes
<1>7. CASE TapStart(d)
  <2>1. alive' = alive /\ taps' = taps /\ faults' = faults /\ getLost' = getLost /\ contested' = contested
    BY <1>7 DEF TapStart, faultVars
  <2>2. disturbed' \in BOOLEAN
    BY <1>7 DEF TapStart
  <2>3. starts' \in 0..MaxStarts
    BY <1>2, <1>7 DEF TapStart, TapTypes
  <2> QED
    BY <1>2, <2>1, <2>2, <2>3 DEF TapTypes
<1>8. CASE TapLeave(d)
  <2>1. /\ alive' = alive /\ taps' = taps /\ starts' = starts
        /\ faults' = faults /\ getLost' = getLost /\ contested' = contested
    BY <1>8 DEF TapLeave, faultVars, tapVars
  <2>2. disturbed' \in BOOLEAN
    BY <1>8 DEF TapLeave
  <2> QED
    BY <1>2, <2>1, <2>2 DEF TapTypes
<1>9. CASE GetFails(d)
  <2>1. alive' = alive /\ taps' = taps /\ starts' = starts /\ disturbed' = disturbed /\ contested' = contested
    BY <1>9 DEF GetFails, tapVars
  <2>2. getLost' \in BOOLEAN
    BY <1>9 DEF GetFails
  <2>3. faults' \in 0..MaxFaults
    BY <1>2, <1>9 DEF GetFails, TapTypes
  <2> QED
    BY <1>2, <2>1, <2>2, <2>3 DEF TapTypes
<1>10. CASE LoseConnection(d)
  <2>1. alive' = alive /\ taps' = taps /\ starts' = starts /\ disturbed' = disturbed
    BY <1>10 DEF LoseConnection, tapVars
  <2>2. getLost' \in BOOLEAN /\ contested' \in BOOLEAN
    BY <1>10 DEF LoseConnection
  <2>3. faults' \in 0..MaxFaults
    BY <1>2, <1>10 DEF LoseConnection, TapTypes
  <2> QED
    BY <1>2, <2>1, <2>2, <2>3 DEF TapTypes
<1>11. CASE HandlePlayers(d) \/ \E id \in listening : ToldPlayers(d, id)
  <2>1. /\ taps' = taps /\ starts' = starts /\ faults' = faults
        /\ disturbed' = disturbed /\ contested' = contested /\ getLost' = getLost
    BY <1>11 DEF HandlePlayers, ToldPlayers, tapVars, faultVars
  <2>2. alive' = alive \/ alive' = [alive EXCEPT ![d] = FALSE]
    BY <1>11 DEF HandlePlayers, ToldPlayers
  <2> QED
    BY <1>2, <2>1, <2>2 DEF TapTypes
<1> QED
  BY <1>1, <1>4, <1>5, <1>6, <1>7, <1>8, <1>9, <1>10, <1>11 DEF Tap, Work, Complete, Listen, Main

(* The types of the state and the order of the writes of each device.      *)
LobbyInv == LobbyTypes /\ Mirror

(* The invariant holds at first ...                                        *)
LEMMA LobbyInit ==
    ASSUME Init
    PROVE  LobbyInv
<1>1. db \in Game
  BY DEF Init, Game, Empty, Absent, Entry
<1>2. QueueTypes
  <2>1. \A S : <<>> \in Seq(S)
    OBVIOUS
  <2> QED
    BY <2>1, Zenon DEF Init, QueueTypes, OutTypes, UnTypes, InTypes, MainTypes, OnDevices
<1>3. RoomTypes
  BY DEF Init, RoomTypes, OnDevices, NoId
<1>4. TapTypes
  <2>1. taps \in [Devices -> 0..MaxTaps] /\ starts \in 0..MaxStarts /\ faults \in 0..MaxFaults
    BY LobbyAssumption DEF Init
  <2>2. /\ alive \in [Devices -> BOOLEAN]
        /\ disturbed \in BOOLEAN /\ contested \in BOOLEAN /\ getLost \in BOOLEAN
    BY DEF Init
  <2> QED
    BY <2>1, <2>2 DEF TapTypes
<1>5. Mirror
  <2>1. MirrorOf(<<>>, <<>>, <<>>)
    <3>1. <<>> \in Seq(WriteMsg) /\ \A i \in 1..Len(<<>>) : <<>>[i].op \in WriteOps
      OBVIOUS
    <3> QED
      BY <3>1, MirrorResend
  <2>2. \A d \in Devices : inbox[d] = <<>> /\ unacked[d] = <<>> /\ outbox[d] = <<>>
    BY DEF Init
  <2> QED
    BY <2>1, <2>2, Zenon DEF Mirror
<1> QED
  BY <1>1, <1>2, <1>3, <1>4, <1>5 DEF LobbyInv, LobbyTypes

(* ... and is preserved.                                                   *)
LEMMA LobbyNext ==
    ASSUME LobbyInv, [Next]_lobbyVars
    PROVE  LobbyInv'
<1>1. CASE Next
  <2>1. LobbyTypes /\ Mirror
    BY DEF LobbyInv
  <2> QED
    BY <1>1, <2>1, QueueTypesStep, MirrorStep, RoomTypesStep, TapTypesStep DEF LobbyInv, LobbyTypes
<1>2. CASE UNCHANGED lobbyVars
  <2>1. UNCHANGED <<db, outbox, unacked, inbox, mainq, screen, current, hosting, settings, seat, listening, told,
                    alive, taps, starts, faults, getLost, disturbed, contested>>
    BY <1>2 DEF lobbyVars, netVars, roomVars, listenVars, tapVars, faultVars
  <2>2. QueueTypes'
    BY <2>1 DEF LobbyInv, LobbyTypes, QueueTypes, OutTypes, UnTypes, InTypes, MainTypes, OnDevices
  <2>3. RoomTypes'
    BY <2>1 DEF LobbyInv, LobbyTypes, RoomTypes, OnDevices
  <2>4. TapTypes' /\ db' \in Game
    BY <2>1 DEF LobbyInv, LobbyTypes, TapTypes
  <2>5. Mirror'
    BY <2>1 DEF LobbyInv, Mirror
  <2> QED
    BY <2>2, <2>3, <2>4, <2>5 DEF LobbyInv, LobbyTypes
<1> QED
  BY <1>1, <1>2

(* In every behaviour of the lobby the queues of a device are well typed,  *)
(* and the acknowledgements (AckWrite) and the writes under way (Deliver)  *)
(* are, in this order, its unacknowledged writes, however often            *)
(* restoreState sends them again.                                          *)
THEOREM QueuesInOrder == Spec => []LobbyInv
<1>1. Init => LobbyInv
  BY LobbyInit
<1>2. LobbyInv /\ [Next]_lobbyVars => LobbyInv'
  BY LobbyNext
<1> QED
  BY <1>1, <1>2, PTL DEF Spec

(* It implies the type invariant of the model.                             *)
LEMMA TypesFromQueues ==
    ASSUME LobbyInv
    PROVE  TypeOK
<1>1. LobbyTypes /\ Mirror
  BY DEF LobbyInv
<1>2. /\ db \in [exists: BOOLEAN, roundNum: 0..1, players: [Id -> Entry]]
      /\ screen \in [Devices -> {"Home", "WaitingRoom", "Sheet"}]
      /\ hosting \subseteq Id /\ settings \subseteq Id /\ listening \subseteq Id /\ told \subseteq listening
  BY <1>1 DEF LobbyTypes, RoomTypes, Game
<1>3. current \in [Devices -> Id \cup {NoId}]
  <2>1. \A d \in Devices : current[d] \in Id \cup {NoId}
    BY <1>1, MineAre DEF LobbyTypes, RoomTypes
  <2>2. current = [d \in Devices |-> current[d]]
    BY <1>1, Zenon DEF LobbyTypes, RoomTypes, OnDevices
  <2> QED
    BY <2>1, <2>2
<1>4. /\ taps \in [Devices -> 0..MaxTaps] /\ starts \in 0..MaxStarts /\ faults \in 0..MaxFaults
      /\ alive \in [Devices -> BOOLEAN]
      /\ disturbed \in BOOLEAN /\ contested \in BOOLEAN /\ getLost \in BOOLEAN
  BY <1>1 DEF LobbyTypes, TapTypes
<1>5. ASSUME NEW d \in Devices
      PROVE  /\ Cardinality({i \in 1..Len(inbox[d]) : inbox[d][i].op \in WriteOps})
                  + Cardinality({i \in 1..Len(outbox[d]) : ~ IsGet(outbox[d][i])}) = Len(unacked[d])
             /\ \A i \in 1..Len(inbox[d]) : IsGet(inbox[d][i]) => inbox[d][i].id \in Mine(d, Id)
             /\ \A i \in 1..Len(mainq[d]) : mainq[d][i].id \in Mine(d, Id)
             /\ seat[d] = NoSeat \/ seat[d].id \in Mine(d, Id)
  <2>1. /\ outbox[d] \in Seq(OutMsg(d)) /\ inbox[d] \in Seq(InMsg(d)) /\ mainq[d] \in Seq(BlockOf(d))
        /\ MirrorOf(inbox[d], unacked[d], outbox[d])
    BY <1>1 DEF LobbyTypes, QueueTypes, OutTypes, InTypes, MainTypes, Mirror
  <2>2. {i \in 1..Len(outbox[d]) : ~ IsGet(outbox[d][i])}
          = {i \in 1..Len(outbox[d]) : outbox[d][i].op \in WriteOps}
    <3>1. \A m \in OutMsg(d) : ~ IsGet(m) <=> m.op \in WriteOps
      BY DEF OutMsg, WriteMsg, GetMsg, IsGet, GetOps, WriteOps
    <3>2. \A i \in 1..Len(outbox[d]) : outbox[d][i] \in OutMsg(d)
      BY <2>1
    <3> QED
      BY <3>1, <3>2
  <2>3. Cardinality({i \in 1..Len(inbox[d]) : inbox[d][i].op \in WriteOps})
          + Cardinality({i \in 1..Len(outbox[d]) : ~ IsGet(outbox[d][i])}) = Len(unacked[d])
    BY <2>1, <2>2, Zenon DEF MirrorOf, Acks
  <2>4. \A i \in 1..Len(inbox[d]) : IsGet(inbox[d][i]) => inbox[d][i].id \in Mine(d, Id)
    <3>1. \A a \in InMsg(d) : IsGet(a) => a.id \in Mine(d, Id)
      BY DEF InMsg, IsGet
    <3>2. \A i \in 1..Len(inbox[d]) : inbox[d][i] \in InMsg(d)
      BY <2>1
    <3> QED
      BY <3>1, <3>2, Zenon
  <2>5. \A i \in 1..Len(mainq[d]) : mainq[d][i].id \in Mine(d, Id)
    <3>1. \A b \in BlockOf(d) : b.id \in Mine(d, Id)
      BY DEF BlockOf, RoundBlock, SettingsBlock
    <3>2. \A i \in 1..Len(mainq[d]) : mainq[d][i] \in BlockOf(d)
      BY <2>1
    <3> QED
      BY <3>1, <3>2, Zenon
  <2>6. seat[d] = NoSeat \/ seat[d].id \in Mine(d, Id)
    BY <1>1 DEF LobbyTypes, RoomTypes, Seat
  <2> QED
    BY <2>3, <2>4, <2>5, <2>6
<1> QED
  BY <1>2, <1>3, <1>4, <1>5 DEF TypeOK

(* The types that the model states: among others a device has as many      *)
(* unacknowledged writes (FPersistentConnection's outstandingPuts) as      *)
(* writes and acknowledgements are under way, and handles events only for  *)
(* its own waiting rooms.                                                  *)
THEOREM LobbyTypesOK == Spec => []TypeOK
BY QueuesInOrder, TypesFromQueues, PTL

-----------------------------------------------------------------------------
(* Messages of a set in a queue.                                           *)

(* Some message of a queue is in X.                                        *)
Has(q, X) == \E i \in 1..Len(q) : q[i] \in X

(* When a message is added, ...                                            *)
LEMMA HasAppend ==
    ASSUME NEW S, NEW q \in Seq(S), NEW m \in S, NEW X
    PROVE  Has(Append(q, m), X) <=> Has(q, X) \/ m \in X
<1> DEFINE t == Append(q, m)
           n == Len(q)
<1>1. /\ t \in Seq(S) /\ n \in Nat /\ Len(t) = n + 1
      /\ \A i \in 1..n : i \in 1..(n + 1) /\ t[i] = q[i]
      /\ t[n + 1] = m
      /\ \A i \in 1..(n + 1) : i \in 1..n \/ i = n + 1
  BY AppendAt, Zenon
<1>2. n + 1 \in 1..(n + 1)
  BY <1>1
<1> HIDE DEF t, n
<1>3. Has(t, X) <=> Has(q, X) \/ m \in X
  BY <1>1, <1>2, Zenon DEF Has, n
<1> QED
  BY <1>3 DEF t

(* ... or several, ...                                                     *)
LEMMA HasConcat ==
    ASSUME NEW S, NEW q \in Seq(S), NEW r \in Seq(S), NEW X, Has(q \o r, X)
    PROVE  Has(q, X) \/ Has(r, X)
<1> DEFINE t == q \o r
<1>1. /\ t \in Seq(S) /\ Len(q) \in Nat /\ Len(r) \in Nat /\ Len(t) = Len(q) + Len(r)
      /\ \A i \in 1..Len(q) : i \in 1..(Len(q) + Len(r)) /\ t[i] = q[i]
      /\ \A i \in 1..Len(r) : Len(q) + i \in 1..(Len(q) + Len(r)) /\ t[Len(q) + i] = r[i]
      /\ \A i \in 1..(Len(q) + Len(r)) : i \in 1..Len(q) \/ \E j \in 1..Len(r) : i = Len(q) + j
  BY ConcatAt, Zenon
<1>2. Has(t, X)
  OBVIOUS
<1> HIDE DEF t
<1>3. PICK i \in 1..(Len(q) + Len(r)) : t[i] \in X
  BY <1>1, <1>2, Zenon DEF Has
<1>4. CASE i \in 1..Len(q)
  BY <1>1, <1>3, <1>4, Zenon DEF Has
<1>5. CASE \E j \in 1..Len(r) : i = Len(q) + j
  BY <1>1, <1>3, <1>5, Zenon DEF Has
<1> QED
  BY <1>1, <1>4, <1>5, Zenon

(* ... and when the oldest one is taken.                                   *)
LEMMA HasTail ==
    ASSUME NEW S, NEW q \in Seq(S), q # <<>>, NEW X
    PROVE  /\ Has(Tail(q), X) => Has(q, X)
           /\ Head(q) \in X => Has(q, X)
<1> DEFINE t == Tail(q)
           h == Head(q)
<1>1. /\ 1 \in 1..Len(q) /\ h = q[1]
      /\ \A i \in 1..Len(t) : i + 1 \in 1..Len(q) /\ t[i] = q[i + 1]
  BY TailAt, Zenon
<1> HIDE DEF t, h
<1>2. Has(t, X) => Has(q, X)
  BY <1>1, Zenon DEF Has
<1>3. h \in X => Has(q, X)
  BY <1>1, Zenon DEF Has
<1> QED
  BY <1>2, <1>3 DEF t, h


-----------------------------------------------------------------------------
(* Questions: a get of one kind, on its way to the server and back.        *)

Asked(e, op) == Waits(outbox[e], {op}) \/ Waits(inbox[e], {op})

(* The device waits for at most one answer of this kind.                   *)
AskedOnce(e, op) ==
    /\ Once(outbox[e], op) /\ Once(inbox[e], op)
    /\ ~ (Waits(outbox[e], {op}) /\ Waits(inbox[e], {op}))

(* No such get is added.                                                   *)
NotAsked(e, op) ==
    /\ Waits(outbox'[e], {op}) => Waits(outbox[e], {op})
    /\ Waits(inbox'[e], {op}) => Waits(inbox[e], {op})
    /\ Once(outbox[e], op) => Once(outbox'[e], op)
    /\ Once(inbox[e], op) => Once(inbox'[e], op)

(* Then there is still at most one.                                        *)
LEMMA AskedOnceKept ==
    ASSUME NEW e, NEW op, NotAsked(e, op)
    PROVE  /\ AskedOnce(e, op) => AskedOnce(e, op)'
           /\ Asked(e, op)' => Asked(e, op)
BY DEF AskedOnce, Asked, NotAsked

(* Nothing is asked where the queues are left alone.                       *)
LEMMA AskedSame ==
    ASSUME NEW e, NEW op, outbox'[e] = outbox[e], inbox'[e] = inbox[e]
    PROVE  NotAsked(e, op)
BY DEF NotAsked

(* A local step asks only what it sends.                                   *)
LEMMA LocalAsks ==
    ASSUME LobbyTypes, NEW d \in Devices, NEW xs, NEW ms, NEW bs, LocalStep(d, xs, ms, bs),
           NEW op, ~ Waits(xs, {op})
    PROVE  \A e \in Devices : NotAsked(e, op)
<1>0. outbox[d] \in Seq(OutMsg(d)) /\ inbox[d] \in Seq(InMsg(d))
  BY DEF LobbyTypes, QueueTypes, OutTypes, InTypes
<1>1. Sends(d, xs, ms) /\ Takes(d)
  BY DEF LocalStep
<1>2. xs \in Seq(OutMsg(d)) /\ outbox'[d] = outbox[d] \o xs
  BY <1>1 DEF Sends, OutIs, IsNow
<1>3. Waits(outbox'[d], {op}) => Waits(outbox[d], {op})
  BY <1>0, <1>2, WaitsConcat
<1>4. Once(outbox[d], op) => Once(outbox'[d], op)
  BY <1>0, <1>2, OnceConcat
<1>5. /\ Waits(inbox'[d], {op}) => Waits(inbox[d], {op})
      /\ Once(inbox[d], op) => Once(inbox'[d], op)
  <2>1. CASE InIs(d, inbox[d])
    BY <2>1 DEF InIs, IsNow
  <2>2. CASE inbox[d] # <<>> /\ InIs(d, Tail(inbox[d]))
    <3>1. inbox'[d] = Tail(inbox[d])
      BY <2>2 DEF InIs, IsNow
    <3>2. Waits(inbox'[d], {op}) => Waits(inbox[d], {op})
      BY <1>0, <2>2, <3>1, WaitsTail
    <3>3. Once(inbox[d], op) => Once(inbox'[d], op)
      BY <1>0, <2>2, <3>1, OnceTail
    <3> QED
      BY <3>2, <3>3
  <2> QED
    BY <1>1, <2>1, <2>2 DEF Takes
<1>6. \A e \in Devices : e # d => outbox'[e] = outbox[e] /\ inbox'[e] = inbox[e]
  BY <1>1 DEF Sends, Takes, OutIs, InIs, IsNow
<1>7. NotAsked(d, op)
  BY <1>3, <1>4, <1>5 DEF NotAsked
<1> QED
  BY <1>6, <1>7, AskedSame, Zenon

(* Faults and acknowledgements ask nothing.                                *)
LEMMA NetworkAsks ==
    ASSUME LobbyTypes, Mirror, NEW d \in Devices, GetFails(d) \/ LoseConnection(d) \/ AckWrite(d),
           NEW op \in GetOps
    PROVE  \A e \in Devices : NotAsked(e, op)
<1>0. /\ outbox[d] \in Seq(OutMsg(d)) /\ unacked[d] \in Seq(WriteMsg) /\ inbox[d] \in Seq(InMsg(d))
  BY DEF LobbyTypes, QueueTypes, OutTypes, UnTypes, InTypes
<1>1. CASE GetFails(d)
  <2>1. /\ outbox[d] # <<>> /\ outbox'[d] = Tail(outbox[d]) /\ inbox' = inbox
        /\ \A e \in Devices : e # d => outbox'[e] = outbox[e]
    BY <1>1, GetFailsStep DEF OutIs, IsNow
  <2>2. Waits(Tail(outbox[d]), {op}) => Waits(outbox[d], {op})
    BY <1>0, <2>1, WaitsTail
  <2>3. Once(outbox[d], op) => Once(Tail(outbox[d]), op)
    BY <1>0, <2>1, OnceTail
  <2>4. NotAsked(d, op)
    BY <2>1, <2>2, <2>3 DEF NotAsked
  <2> QED
    BY <2>1, <2>4, AskedSame
<1>2. CASE LoseConnection(d)
  <2>1. /\ outbox'[d] = unacked[d] /\ inbox'[d] = <<>>
        /\ \A e \in Devices : e # d => outbox'[e] = outbox[e] /\ inbox'[e] = inbox[e]
    BY <1>2, LoseConnectionStep DEF OutIs, InIs, IsNow
  <2>2. ~ Waits(unacked[d], {op})
    <3>1. \A m \in WriteMsg : m.op \notin {op}
      BY DEF WriteMsg, WriteOps, GetOps
    <3>2. \A i \in 1..Len(unacked[d]) : unacked[d][i] \in WriteMsg
      BY <1>0
    <3> QED
      BY <3>1, <3>2, Zenon DEF Waits
  <2>3. ~ Waits(<<>>, {op})
    BY DEF Waits
  <2>4. NotAsked(d, op)
    BY <2>1, <2>2, <2>3, OnceNone DEF NotAsked
  <2> QED
    BY <2>1, <2>4, AskedSame
<1>3. CASE AckWrite(d)
  <2>1. /\ inbox[d] # <<>> /\ inbox'[d] = Tail(inbox[d]) /\ outbox' = outbox
        /\ \A e \in Devices : e # d => inbox'[e] = inbox[e]
    BY <1>3, AckWriteStep DEF InIs, IsNow
  <2>2. Waits(Tail(inbox[d]), {op}) => Waits(inbox[d], {op})
    BY <1>0, <2>1, WaitsTail
  <2>3. Once(inbox[d], op) => Once(Tail(inbox[d]), op)
    BY <1>0, <2>1, OnceTail
  <2>4. NotAsked(d, op)
    BY <2>1, <2>2, <2>3 DEF NotAsked
  <2> QED
    BY <2>1, <2>4, AskedSame
<1> QED
  BY <1>1, <1>2, <1>3

(* A message of another kind is delivered, or the get is answered.         *)
LEMMA DeliverAsks ==
    ASSUME LobbyTypes, NEW d \in Devices, Deliver(d), NEW op
    PROVE  /\ \A e \in Devices : e # d => NotAsked(e, op)
           /\ Head(outbox[d]).op # op => NotAsked(d, op)
           /\ Head(outbox[d]).op = op => /\ Waits(outbox[d], {op})
                                         /\ AskedOnce(d, op) => AskedOnce(d, op)' /\ ~ Waits(outbox'[d], {op})
<1>0. outbox[d] \in Seq(OutMsg(d)) /\ inbox[d] \in Seq(InMsg(d))
  BY DEF LobbyTypes, QueueTypes, OutTypes, InTypes
<1>1. PICK m, a : m = Head(outbox[d]) /\ a = Answer(m)
  OBVIOUS
<1>2. /\ outbox[d] # <<>> /\ a \in InMsg(d)
      /\ outbox'[d] = Tail(outbox[d]) /\ inbox'[d] = Append(inbox[d], a)
      /\ \A e \in Devices : e # d => outbox'[e] = outbox[e] /\ inbox'[e] = inbox[e]
  BY <1>1, DeliverStep DEF OutIs, InIs, IsNow
<1>3. a.op = m.op
  BY <1>1 DEF Answer
<1>4. \A e \in Devices : e # d => NotAsked(e, op)
  BY <1>2, AskedSame, Zenon
<1>5. Waits(outbox[d], {op}) <=> m.op \in {op} \/ Waits(outbox'[d], {op})
  BY <1>0, <1>1, <1>2, WaitsTail
<1>6. Once(outbox[d], op) => Once(outbox'[d], op) /\ (m.op = op => ~ Waits(outbox'[d], {op}))
  BY <1>0, <1>1, <1>2, OnceTail
<1>7. Waits(inbox'[d], {op}) <=> Waits(inbox[d], {op}) \/ a.op \in {op}
  BY <1>0, <1>2, WaitsAppend
<1>8. Once(inbox[d], op) /\ (~ Waits(inbox[d], {op}) \/ a.op # op) => Once(inbox'[d], op)
  BY <1>0, <1>2, OnceAppend
<1>9. m.op # op => NotAsked(d, op)
  BY <1>3, <1>5, <1>6, <1>7, <1>8 DEF NotAsked
<1>10. m.op = op /\ AskedOnce(d, op) => AskedOnce(d, op)' /\ ~ Waits(outbox'[d], {op})
  BY <1>3, <1>5, <1>6, <1>7, <1>8 DEF AskedOnce
<1> QED
  BY <1>1, <1>4, <1>5, <1>9, <1>10

-----------------------------------------------------------------------------
(* One host.                                                               *)

(* The device was told that the code is free; is about to show its waiting *)
(* room as the host; hosts; owns the game; its game is stored.             *)
FreeAnswers(d)   == {a \in InMsg(d) : a.op = "host" /\ ~ a.exists}
FoundFree(d)     == Has(inbox[d], FreeAnswers(d))
HostBlocks(d)    == {b \in BlockOf(d) : b.op = "enter" /\ b.isHost}
EntersAsHost(d)  == Has(mainq[d], HostBlocks(d))
IsHosting(d)     == \E id \in hosting : DeviceOf(id) = d
Owner(d)         == Shadowed(d) \/ EntersAsHost(d) \/ IsHosting(d)
GameIsStored(d)  == Waits(inbox[d], {"setGame"})

(* A device asks at most once, before it owns the game.                    *)
AsksOnce(d) ==
    /\ AskedOnce(d, "host")
    /\ Asked(d, "host") => ~ Owner(d)
    /\ taps[d] = 0 => ~ Asked(d, "host") /\ ~ Owner(d)

(* Unless the code is contested, one device claims it, one owns it, an     *)
(* owner's game is stored or about to be, and nobody owns a code that is   *)
(* answered to be free.                                                    *)
OneClaim == \A d, e \in Devices : Claiming(d) /\ Claiming(e) => d = e
OneOwner == \A d, e \in Devices : Owner(d) /\ Owner(e) => d = e
OwnerStores == \A d \in Devices : Owner(d) => Shadowed(d) \/ db.exists
FreeIsFree == \A d, e \in Devices : FoundFree(d) => ~ Owner(e)

HostInv ==
    /\ \A d \in Devices : AsksOnce(d)
    /\ \A d \in Devices : GameIsStored(d) => db.exists
    /\ ~ contested => OneClaim /\ OneOwner /\ OwnerStores /\ FreeIsFree

(* A step that adds no question, answer, setGame or host, and after which  *)
(* an owner's game is still stored or about to be.                         *)
Quiet(e) ==
    /\ NotAsked(e, "host")
    /\ Shadowed(e)' => Shadowed(e)
    /\ Owner(e)' => Owner(e)
    /\ Shadowed(e) => Shadowed(e)' \/ db'.exists
    /\ FoundFree(e)' => FoundFree(e)
    /\ GameIsStored(e)' => GameIsStored(e) \/ db'.exists
    /\ taps'[e] = 0 => taps[e] = 0

Fewer ==
    /\ \A e \in Devices : Quiet(e)
    /\ db.exists => db'.exists
    /\ contested => contested'

(* Such a step preserves the invariant.                                    *)
LEMMA HostKept ==
    ASSUME HostInv, Fewer
    PROVE  HostInv'
<1>1. ASSUME NEW e \in Devices
      PROVE  AsksOnce(e)'
  <2>1. AsksOnce(e) /\ Quiet(e)
    BY DEF HostInv, Fewer
  <2> QED
    BY <2>1, AskedOnceKept DEF AsksOnce, Quiet
<1>2. ASSUME NEW e \in Devices
      PROVE  GameIsStored(e)' => db'.exists
  BY DEF HostInv, Fewer, Quiet
<1>3. ASSUME ~ contested'
      PROVE  OneClaim' /\ OneOwner' /\ OwnerStores' /\ FreeIsFree'
  <2>1. OneClaim /\ OneOwner /\ OwnerStores /\ FreeIsFree
    BY <1>3 DEF HostInv, Fewer
  <2>2. \A e \in Devices : /\ Claiming(e)' => Claiming(e)
                           /\ Owner(e)' => Owner(e)
                           /\ FoundFree(e)' => FoundFree(e)
                           /\ Shadowed(e) => Shadowed(e)' \/ db'.exists
    BY DEF Fewer, Quiet, NotAsked, Claiming
  <2>3. db.exists => db'.exists
    BY DEF Fewer
  <2> QED
    BY <2>1, <2>2, <2>3 DEF OneClaim, OneOwner, OwnerStores, FreeIsFree
<1> QED
  BY <1>1, <1>2, <1>3 DEF HostInv

(* A message in a queue of one, or of several of a kind.                   *)
LEMMA WaitsOne ==
    ASSUME NEW S, NEW x \in S, NEW ops, x.op \notin ops
    PROVE  ~ Waits(<<x>>, ops) /\ ~ Waits(<<>>, ops)
<1>1. Len(<<x>>) = 1 /\ <<x>>[1] = x /\ Len(<<>>) = 0
  OBVIOUS
<1>2. \A i \in 1..1 : i = 1
  OBVIOUS
<1>3. \A i \in 1..0 : FALSE
  OBVIOUS
<1> QED
  BY <1>1, <1>2, <1>3 DEF Waits

(* No message of these is in X.                                            *)
LEMMA HasNone ==
    ASSUME NEW T, NEW q \in Seq(T), NEW X, \A x \in T : x \notin X
    PROVE  ~ Has(q, X)
<1>1. \A i \in 1..Len(q) : q[i] \in T
  OBVIOUS
<1> QED
  BY <1>1, Zenon DEF Has

(* A queue of one message.                                                 *)
LEMMA HasOne ==
    ASSUME NEW x, NEW X, x \notin X
    PROVE  ~ Has(<<x>>, X)
<1>1. Len(<<x>>) = 1 /\ <<x>>[1] = x
  OBVIOUS
<1>2. \A i \in 1..1 : i = 1
  OBVIOUS
<1> QED
  BY <1>1, <1>2 DEF Has

(* An empty queue.                                                         *)
LEMMA EmptyHasNone ==
    ASSUME NEW X
    PROVE  ~ Waits(<<>>, X) /\ ~ Has(<<>>, X)
BY DEF Waits, Has

(* The blocks that do not enter as the host.                               *)
LEMMA NoHostBlocks ==
    ASSUME NEW d \in Devices, NEW p
    PROVE  /\ \A bs \in Seq(RoundBlock(d)) : ~ Has(bs, HostBlocks(d))
           /\ \A bs \in Seq(SettingsBlock(d)) : ~ Has(bs, HostBlocks(d))
           /\ \A bs \in Seq(RosterBlock(d, p)) : ~ Has(bs, HostBlocks(d))
           /\ ~ Has(<<>>, HostBlocks(d))
           /\ \A id : ~ Has(Enters(id, FALSE), HostBlocks(d))
<1>1. /\ \A b \in RoundBlock(d) : b \notin HostBlocks(d)
      /\ \A b \in SettingsBlock(d) : b \notin HostBlocks(d)
      /\ \A b \in RosterBlock(d, p) : b \notin HostBlocks(d)
      /\ \A id : [op |-> "enter", id |-> id, isHost |-> FALSE] \notin HostBlocks(d)
  BY DEF RoundBlock, SettingsBlock, RosterBlock, HostBlocks
<1>2. /\ \A bs \in Seq(RoundBlock(d)) : ~ Has(bs, HostBlocks(d))
      /\ \A bs \in Seq(SettingsBlock(d)) : ~ Has(bs, HostBlocks(d))
      /\ \A bs \in Seq(RosterBlock(d, p)) : ~ Has(bs, HostBlocks(d))
  BY <1>1, HasNone
<1>3. ~ Has(<<>>, HostBlocks(d))
  BY EmptyHasNone
<1>4. ASSUME NEW id
      PROVE  ~ Has(Enters(id, FALSE), HostBlocks(d))
  <2>1. PICK b : b = [op |-> "enter", id |-> id, isHost |-> FALSE]
    OBVIOUS
  <2>2. b \notin HostBlocks(d) /\ Enters(id, FALSE) = <<b>>
    BY <1>1, <2>1 DEF Enters
  <2> QED
    BY <2>2, HasOne
<1> QED
  BY <1>2, <1>3, <1>4

(* A local step without such messages is quiet.                            *)
LEMMA LocalIsQuiet ==
    ASSUME LobbyTypes, NEW d \in Devices, NEW xs, NEW ms, NEW bs, LocalStep(d, xs, ms, bs),
           ~ Waits(xs, {"host"}), ~ Waits(ms, {"setGame"}), ~ Has(bs, HostBlocks(d)),
           \A e \in Devices : IsHosting(e)' => IsHosting(e) \/ (e = d /\ EntersAsHost(d)),
           \A e \in Devices : taps'[e] = 0 => taps[e] = 0,
           contested' = contested
    PROVE  Fewer
<1>0. /\ unacked[d] \in Seq(WriteMsg)
      /\ inbox[d] \in Seq(InMsg(d)) /\ mainq[d] \in Seq(BlockOf(d))
  BY DEF LobbyTypes, QueueTypes, UnTypes, InTypes, MainTypes
<1>1. Sends(d, xs, ms) /\ Takes(d) /\ Posts(d, bs) /\ db' = db
  BY DEF LocalStep
<1>2. /\ xs \in Seq(OutMsg(d)) /\ ms \in Seq(WriteMsg)
      /\ OutIs(d, outbox[d] \o xs) /\ UnIs(d, unacked[d] \o ms)
  BY <1>1 DEF Sends
<1>3. \A e \in Devices : NotAsked(e, "host")
  BY LocalAsks
<1>4. Waits(unacked'[d], {"setGame"}) <=> Waits(unacked[d], {"setGame"})
  <2>1. unacked'[d] = unacked[d] \o ms
    BY <1>2 DEF UnIs, IsNow
  <2> QED
    BY <1>0, <1>2, <2>1, WaitsConcat
<1>5. /\ Waits(inbox'[d], {"setGame"}) => Waits(inbox[d], {"setGame"})
      /\ Has(inbox'[d], FreeAnswers(d)) => Has(inbox[d], FreeAnswers(d))
  <2>1. CASE InIs(d, inbox[d])
    BY <2>1 DEF InIs, IsNow
  <2>2. CASE inbox[d] # <<>> /\ InIs(d, Tail(inbox[d]))
    <3>1. inbox'[d] = Tail(inbox[d])
      BY <2>2 DEF InIs, IsNow
    <3> QED
      BY <1>0, <2>2, <3>1, WaitsTail, HasTail
  <2> QED
    BY <1>1, <2>1, <2>2 DEF Takes
<1>6. Has(mainq'[d], HostBlocks(d)) => Has(mainq[d], HostBlocks(d))
  <2>0. bs \in Seq(BlockOf(d))
    BY <1>1 DEF Posts
  <2>1. CASE MainIs(d, mainq[d] \o bs)
    <3>1. mainq'[d] = mainq[d] \o bs
      BY <2>1 DEF MainIs, IsNow
    <3> QED
      BY <1>0, <2>0, <3>1, HasConcat
  <2>2. CASE mainq[d] # <<>> /\ MainIs(d, Tail(mainq[d]) \o bs)
    <3>1. mainq'[d] = Tail(mainq[d]) \o bs /\ Tail(mainq[d]) \in Seq(BlockOf(d))
      BY <1>0, <2>2 DEF MainIs, IsNow
    <3>2. PICK t : t = Tail(mainq[d])
      OBVIOUS
    <3>3. Has(t, HostBlocks(d)) => Has(mainq[d], HostBlocks(d))
      BY <1>0, <2>2, <3>2, HasTail
    <3>4. Has(t \o bs, HostBlocks(d)) => Has(t, HostBlocks(d)) \/ Has(bs, HostBlocks(d))
      BY <2>0, <3>1, <3>2, HasConcat
    <3> QED
      BY <3>1, <3>2, <3>3, <3>4
  <2> QED
    BY <1>1, <2>1, <2>2 DEF Posts
<1>7. \A e \in Devices : e # d => /\ outbox'[e] = outbox[e] /\ unacked'[e] = unacked[e]
                                  /\ inbox'[e] = inbox[e] /\ mainq'[e] = mainq[e]
  BY <1>1, <1>2 DEF Takes, Posts, OutIs, UnIs, InIs, MainIs, IsNow
<1>8. ASSUME NEW e \in Devices
      PROVE  Quiet(e)
  <2>1. /\ Waits(unacked'[e], {"setGame"}) <=> Waits(unacked[e], {"setGame"})
        /\ Waits(inbox'[e], {"setGame"}) => Waits(inbox[e], {"setGame"})
        /\ Has(inbox'[e], FreeAnswers(e)) => Has(inbox[e], FreeAnswers(e))
        /\ Has(mainq'[e], HostBlocks(e)) => Has(mainq[e], HostBlocks(e))
    BY <1>4, <1>5, <1>6, <1>7, Zenon
  <2>2. IsHosting(e)' => IsHosting(e) \/ EntersAsHost(e)
    OBVIOUS
  <2>3. /\ Shadowed(e)' <=> Shadowed(e)
        /\ FoundFree(e)' => FoundFree(e)
        /\ EntersAsHost(e)' => EntersAsHost(e)
        /\ GameIsStored(e)' => GameIsStored(e)
    BY <2>1 DEF Shadowed, FoundFree, EntersAsHost, GameIsStored
  <2>4. Owner(e)' => Owner(e)
    BY <2>2, <2>3 DEF Owner
  <2>5. taps'[e] = 0 => taps[e] = 0
    OBVIOUS
  <2> QED
    BY <1>3, <2>3, <2>4, <2>5 DEF Quiet
<1> QED
  BY <1>1, <1>8 DEF Fewer

(* The writes of a start are neither questions nor setGame.                *)
LEMMA StartOnlyNumbers ==
    ASSUME NEW players, NEW order \in SetToSeqs(Present(players))
    PROVE  \A op \in {"host", "setGame", "start"} : ~ Waits(StartWrites(order), {op})
<1> DEFINE q == StartWrites(order)
           n == Len(order)
<1>1. /\ n \in Nat /\ Len(q) = n + 1
      /\ \A i \in 1..n : q[i] = Msg("setNumber", order[i], i)
      /\ q[n + 1] = Msg("setRound", NoId, 1)
  BY StartWritesAre
<1> HIDE DEF q, n
<1>2. \A i \in 1..Len(q) : i \in 1..n \/ i = n + 1
  BY <1>1
<1>3. \A i \in 1..Len(q) : q[i].op \in {"setNumber", "setRound"}
  <2>1. /\ \A id, i : Msg("setNumber", id, i).op \in {"setNumber", "setRound"}
        /\ Msg("setRound", NoId, 1).op \in {"setNumber", "setRound"}
    BY DEF Msg
  <2> SUFFICES ASSUME NEW i \in 1..Len(q)
               PROVE  q[i].op \in {"setNumber", "setRound"}
    OBVIOUS
  <2>2. CASE i \in 1..n
    <3>1. q[i] = Msg("setNumber", order[i], i)
      BY <1>1, <2>2, Zenon
    <3> QED
      BY <2>1, <3>1
  <2>3. CASE i = n + 1
    <3>1. q[i] = Msg("setRound", NoId, 1)
      BY <1>1, <2>3, Zenon
    <3> QED
      BY <2>1, <3>1
  <2> QED
    BY <1>2, <2>2, <2>3, Zenon
<1>4. \A op \in {"host", "setGame", "start"} : ~ Waits(q, {op})
  BY <1>3 DEF Waits
<1> QED
  BY <1>4 DEF q

(* The hosts stay the same.                                                *)
LEMMA HostSame ==
    ASSUME hosting' = hosting
    PROVE  \A e \in Devices : IsHosting(e)' => IsHosting(e)
BY DEF IsHosting

(* The taps on Join, Start and Leave.                                      *)
LEMMA OtherTaps ==
    ASSUME LobbyTypes, NEW d \in Devices, TapJoin(d) \/ TapStart(d) \/ TapLeave(d)
    PROVE  Fewer
<1>1. hosting' = hosting /\ contested' = contested
  BY DEF TapJoin, TapStart, TapLeave, roomVars
<1>2. \A e \in Devices : IsHosting(e)' => IsHosting(e)
  BY <1>1, HostSame
<1>3. \A e \in Devices : taps'[e] = 0 => taps[e] = 0
  BY DEF LobbyTypes, TapTypes, TapJoin, TapStart, TapLeave, tapVars
<1>4. /\ ~ Waits(<<>>, {"host"}) /\ ~ Waits(<<>>, {"setGame"}) /\ ~ Has(<<>>, HostBlocks(d))
  BY EmptyHasNone, SeqOfOne
<1>5. CASE TapJoin(d)
  <2>1. PICK m : m = Get("join", <<d, taps[d] + 1>>)
    OBVIOUS
  <2>2. m \in GetMsg(d) /\ m.op = "join" /\ LocalStep(d, <<m>>, <<>>, <<>>)
    BY <1>5, <2>1, TapJoinStep DEF Get, Msg
  <2>3. ~ Waits(<<m>>, {"host"})
    BY <2>2, WaitsOne
  <2> QED
    BY <1>1, <1>2, <1>3, <1>4, <2>2, <2>3, LocalIsQuiet
<1>6. CASE TapStart(d)
  <2>1. CASE LocalStep(d, <<>>, <<>>, <<>>)
    BY <1>1, <1>2, <1>3, <1>4, <2>1, LocalIsQuiet
  <2>2. CASE \E order \in SetToSeqs(Present(LocalView(d).players)) :
               LocalStep(d, StartWrites(order), StartWrites(order), <<>>)
    <3>0. PICK p : p = LocalView(d).players
      OBVIOUS
    <3>1. PICK order \in SetToSeqs(Present(p)) : LocalStep(d, StartWrites(order), StartWrites(order), <<>>)
      BY <2>2, <3>0
    <3>2. ~ Waits(StartWrites(order), {"host"}) /\ ~ Waits(StartWrites(order), {"setGame"})
      BY StartOnlyNumbers
    <3> QED
      BY <1>1, <1>2, <1>3, <1>4, <3>1, <3>2, LocalIsQuiet
  <2>3. CASE Get("start", current[d]) \in GetMsg(d) /\ LocalStep(d, <<Get("start", current[d])>>, <<>>, <<>>)
    <3>1. PICK m : m = Get("start", current[d])
      OBVIOUS
    <3>2. m \in GetMsg(d) /\ m.op = "start" /\ LocalStep(d, <<m>>, <<>>, <<>>)
      BY <2>3, <3>1 DEF Get, Msg
    <3>3. ~ Waits(<<m>>, {"host"})
      BY <3>2, WaitsOne
    <3> QED
      BY <1>1, <1>2, <1>3, <1>4, <3>2, <3>3, LocalIsQuiet
  <2> QED
    BY <1>6, <2>1, <2>2, <2>3, TapStartStep
<1>7. CASE TapLeave(d)
  <2>1. CASE LocalStep(d, <<>>, <<>>, <<>>)
    BY <1>1, <1>2, <1>3, <1>4, <2>1, LocalIsQuiet
  <2>2. CASE LocalStep(d, <<Msg("remove", current[d], 0)>>, <<Msg("remove", current[d], 0)>>, <<>>)
    <3>1. PICK m : m = Msg("remove", current[d], 0)
      OBVIOUS
    <3>2. m.op = "remove" /\ LocalStep(d, <<m>>, <<m>>, <<>>)
      BY <2>2, <3>1 DEF Msg
    <3>3. ~ Waits(<<m>>, {"host"}) /\ ~ Waits(<<m>>, {"setGame"})
      BY <3>2, WaitsOne
    <3> QED
      BY <1>1, <1>2, <1>3, <1>4, <3>2, <3>3, LocalIsQuiet
  <2> QED
    BY <1>7, <2>1, <2>2, TapLeaveStep
<1> QED
  BY <1>5, <1>6, <1>7

(* rs \o bs has no host's block when bs has none.                          *)
LEMMA HeardBlocks ==
    ASSUME NEW d \in Devices, NEW rs \in Seq(RoundBlock(d)), NEW bs \in Seq(BlockOf(d)), ~ Has(bs, HostBlocks(d))
    PROVE  ~ Has(rs \o bs, HostBlocks(d))
<1>1. rs \in Seq(BlockOf(d))
  <2>1. RoundBlock(d) \subseteq BlockOf(d)
    BY DEF BlockOf
  <2>2. \A i \in 1..Len(rs) : rs[i] \in BlockOf(d)
    BY <2>1
  <2> QED
    BY <2>2
<1>2. ~ Has(rs, HostBlocks(d))
  BY NoHostBlocks
<1> QED
  BY <1>1, <1>2, HasConcat

(* The answers other than that the code is free.                           *)
LEMMA OtherAnswers ==
    ASSUME LobbyTypes, NEW d \in Devices,
           \/ HostAnswered(d) /\ ~ CodeIsFree(Head(inbox[d]))
           \/ JoinAnswered(d) \/ SettingsAnswered(d) \/ StartAnswered(d) \/ RosterAnswered(d)
    PROVE  Fewer
<1>1. hosting' = hosting /\ contested' = contested /\ taps' = taps
  BY DEF HostAnswered, JoinAnswered, SettingsAnswered, StartAnswered, RosterAnswered, roomVars, tapVars
<1>2. \A e \in Devices : IsHosting(e)' => IsHosting(e)
  BY <1>1, HostSame
<1>3. \A e \in Devices : taps'[e] = 0 => taps[e] = 0
  BY <1>1
<1>4. /\ ~ Waits(<<>>, {"host"}) /\ ~ Waits(<<>>, {"setGame"}) /\ ~ Has(<<>>, HostBlocks(d))
      /\ <<>> \in Seq(BlockOf(d))
  BY EmptyHasNone, SeqOfOne
<1>5. \A rs \in Seq(RoundBlock(d)) : LocalStep(d, <<>>, <<>>, rs \o <<>>) => Fewer
  BY <1>1, <1>2, <1>3, <1>4, HeardBlocks, LocalIsQuiet
<1>6. CASE HostAnswered(d) /\ ~ CodeIsFree(Head(inbox[d]))
  BY <1>5, <1>6, HostAnsweredStep
<1>7. CASE JoinAnswered(d)
  <2>1. PICK a : a = Head(inbox[d])
    OBVIOUS
  <2>2. PICK rs \in Seq(RoundBlock(d)) :
          \/ LocalStep(d, <<Msg("setPlayer", a.id, 0)>>, <<Msg("setPlayer", a.id, 0)>>, rs \o Enters(a.id, FALSE))
          \/ LocalStep(d, <<>>, <<>>, rs \o <<>>)
    BY <1>7, <2>1, JoinAnsweredStep
  <2>3. CASE LocalStep(d, <<Msg("setPlayer", a.id, 0)>>, <<Msg("setPlayer", a.id, 0)>>, rs \o Enters(a.id, FALSE))
    <3>1. PICK m : m = Msg("setPlayer", a.id, 0)
      OBVIOUS
    <3>2. m.op = "setPlayer"
      BY <3>1 DEF Msg
    <3>3. ~ Waits(<<m>>, {"host"}) /\ ~ Waits(<<m>>, {"setGame"})
      BY <3>2, WaitsOne
    <3>4. a.id \in Mine(d, Id)
      BY <1>7, <2>1, JoinAnsweredStep
    <3>5. Enters(a.id, FALSE) \in Seq(BlockOf(d)) /\ ~ Has(Enters(a.id, FALSE), HostBlocks(d))
      BY <3>4, EntersAre, NoHostBlocks
    <3>6. ~ Has(rs \o Enters(a.id, FALSE), HostBlocks(d))
      BY <3>5, HeardBlocks
    <3>7. LocalStep(d, <<m>>, <<m>>, rs \o Enters(a.id, FALSE))
      BY <2>3, <3>1
    <3> QED
      BY <1>1, <1>2, <1>3, <3>3, <3>6, <3>7, LocalIsQuiet
  <2> QED
    BY <1>5, <2>2, <2>3
<1>8. CASE SettingsAnswered(d)
  <2>1. PICK rs \in Seq(RoundBlock(d)), ss \in Seq(SettingsBlock(d)) : LocalStep(d, <<>>, <<>>, rs \o ss)
    BY <1>8, SettingsAnsweredStep
  <2>2. ss \in Seq(BlockOf(d)) /\ ~ Has(ss, HostBlocks(d))
    <3>1. SettingsBlock(d) \subseteq BlockOf(d)
      BY DEF BlockOf
    <3>2. \A i \in 1..Len(ss) : ss[i] \in BlockOf(d)
      BY <3>1
    <3>3. ss \in Seq(BlockOf(d))
      BY <3>2
    <3> QED
      BY <3>3, NoHostBlocks, Zenon
  <2>3. ~ Has(rs \o ss, HostBlocks(d))
    BY <2>2, HeardBlocks
  <2> QED
    BY <1>1, <1>2, <1>3, <1>4, <2>1, <2>3, LocalIsQuiet
<1>9. CASE StartAnswered(d)
  <2>0. PICK p : p = Head(inbox[d]).players
    OBVIOUS
  <2>1. PICK rs \in Seq(RoundBlock(d)) :
          \/ LocalStep(d, <<>>, <<>>, rs \o <<>>)
          \/ \E order \in SetToSeqs(Present(p)) : LocalStep(d, StartWrites(order), StartWrites(order), rs \o <<>>)
    BY <1>9, <2>0, StartAnsweredStep
  <2>2. ~ Has(rs \o <<>>, HostBlocks(d))
    BY <1>4, HeardBlocks
  <2>3. ASSUME NEW order \in SetToSeqs(Present(p)), LocalStep(d, StartWrites(order), StartWrites(order), rs \o <<>>)
        PROVE  Fewer
    <3>1. ~ Waits(StartWrites(order), {"host"}) /\ ~ Waits(StartWrites(order), {"setGame"})
      BY StartOnlyNumbers
    <3> QED
      BY <1>1, <1>2, <1>3, <2>2, <2>3, <3>1, LocalIsQuiet
  <2> QED
    BY <1>5, <2>1, <2>3
<1>10. CASE RosterAnswered(d)
  <2>0. PICK p : p = Head(inbox[d]).players
    OBVIOUS
  <2>1. PICK bs \in Seq(RosterBlock(d, p)) : LocalStep(d, <<>>, <<>>, bs)
    BY <1>10, <2>0, RosterAnsweredStep
  <2>2. ~ Has(bs, HostBlocks(d))
    BY NoHostBlocks
  <2> QED
    BY <1>1, <1>2, <1>3, <1>4, <2>1, <2>2, LocalIsQuiet
<1> QED
  BY <1>6, <1>7, <1>8, <1>9, <1>10

(* The listeners and the main queue: Enter makes a host of an owner.       *)
LEMMA OtherWork ==
    ASSUME LobbyTypes, NEW d \in Devices, Listen(d) \/ Main(d)
    PROVE  Fewer
<1>1. contested' = contested /\ taps' = taps
  BY DEF Listen, ToldRoundNum, ToldPlayers, Main, Enter, UpdateGameSettings, CheckRoundNum, HandlePlayers, tapVars
<1>2. \A e \in Devices : taps'[e] = 0 => taps[e] = 0
  BY <1>1
<1>3. /\ ~ Waits(<<>>, {"host"}) /\ ~ Waits(<<>>, {"setGame"}) /\ ~ Has(<<>>, HostBlocks(d))
  BY EmptyHasNone
<1>4. \A e \in Devices : IsHosting(e)' => IsHosting(e) \/ (e = d /\ EntersAsHost(d))
  <2>1. CASE hosting' = hosting
    BY <2>1, HostSame
  <2>2. CASE Enter(d)
    <3>1. PICK b \in BlockOf(d) : b = Head(mainq[d])
      BY <2>2, BlockIs DEF Enter
    <3>2. /\ mainq[d] # <<>> /\ mainq[d] \in Seq(BlockOf(d)) /\ b.op = "enter" /\ b.id \in Mine(d, Id)
      BY <2>2, <3>1, BlockIs DEF Enter
    <3>3. hosting' = IF b.isHost THEN hosting \cup {b.id} ELSE hosting
      BY <2>2, <3>1 DEF Enter
    <3>4. b.isHost => EntersAsHost(d)
      <4> SUFFICES ASSUME b.isHost PROVE EntersAsHost(d)
        OBVIOUS
      <4>1. b \in HostBlocks(d)
        BY <3>2 DEF HostBlocks
      <4> QED
        BY <3>1, <3>2, <4>1, HasTail DEF EntersAsHost
    <3>5. DeviceOf(b.id) = d
      BY <3>2 DEF Mine
    <3> QED
      BY <3>3, <3>4, <3>5 DEF IsHosting
  <2> QED
    BY <2>1, <2>2
       DEF Listen, ToldRoundNum, ToldPlayers, Main, UpdateGameSettings, CheckRoundNum, HandlePlayers,
           roomVars
<1>5. CASE LocalStep(d, <<>>, <<>>, <<>>)
  BY <1>1, <1>2, <1>3, <1>4, <1>5, LocalIsQuiet
<1>6. ASSUME NEW bs, LocalStep(d, <<>>, <<>>, bs), ~ Has(bs, HostBlocks(d))
      PROVE  Fewer
  BY <1>1, <1>2, <1>3, <1>4, <1>6, LocalIsQuiet
<1>7. ASSUME NEW op \in {"settings", "roster"}, NEW id, LocalStep(d, <<Get(op, id)>>, <<>>, <<>>)
      PROVE  Fewer
  <2>1. PICK m : m = Get(op, id)
    OBVIOUS
  <2>2. m.op # "host" /\ LocalStep(d, <<m>>, <<>>, <<>>)
    BY <1>7, <2>1 DEF Get, Msg
  <2>3. ~ Waits(<<m>>, {"host"})
    BY <2>2, WaitsOne
  <2> QED
    BY <1>1, <1>2, <1>3, <1>4, <2>2, <2>3, LocalIsQuiet
<1>8. CASE Listen(d)
  <2>1. CASE \E id \in listening : ToldRoundNum(d, id)
    BY <1>6, <2>1, ToldRoundNumStep, NoHostBlocks
  <2>2. CASE \E id \in listening : ToldPlayers(d, id)
    BY <1>5, <2>2, ToldPlayersStep
  <2> QED
    BY <1>8, <2>1, <2>2 DEF Listen
<1>9. CASE Enter(d)
  BY <1>6, <1>7, <1>9, EnterStep, NoHostBlocks
<1>10. CASE UpdateGameSettings(d) \/ HandlePlayers(d)
  BY <1>5, <1>10, UpdateGameSettingsStep, HandlePlayersStep
<1>11. CASE CheckRoundNum(d)
  BY <1>5, <1>6, <1>7, <1>11, CheckRoundNumStep, NoHostBlocks
<1> QED
  BY <1>8, <1>9, <1>10, <1>11 DEF Main

(* The steps of the connection.                                            *)
LEMMA StoredExists ==
    ASSUME NEW g \in Game, NEW m \in WriteMsg
    PROVE  /\ Stored(g, m).exists \in BOOLEAN
           /\ g.exists => Stored(g, m).exists
           /\ m.op = "setGame" => Stored(g, m).exists
<1>1. m.op \in WriteOps
  BY DEF WriteMsg
<1>2. CASE m.op = "setGame"
  BY <1>2 DEF Stored
<1>3. CASE m.op # "setGame"
  <2>1. Stored(g, m).exists = g.exists
    BY <1>1, <1>3 DEF Stored, WriteOps, Game
  <2> QED
    BY <1>3, <2>1 DEF Game
<1> QED
  BY <1>2, <1>3

(* Faults and acknowledgements: an acknowledged setGame is stored.         *)
LEMMA HostNetwork ==
    ASSUME LobbyTypes, Mirror, HostInv, NEW d \in Devices,
           GetFails(d) \/ LoseConnection(d) \/ AckWrite(d)
    PROVE  Fewer
<1>0. unacked[d] \in Seq(WriteMsg) /\ inbox[d] \in Seq(InMsg(d))
  BY DEF LobbyTypes, QueueTypes, UnTypes, InTypes
<1>1. hosting' = hosting /\ taps' = taps
  BY DEF GetFails, LoseConnection, AckWrite, roomVars, tapVars
<1>2. \A e \in Devices : (IsHosting(e)' <=> IsHosting(e)) /\ (taps'[e] = 0 => taps[e] = 0)
  BY <1>1 DEF IsHosting
<1>3. mainq' = mainq /\ db' = db /\ (contested => contested')
  <2>1. mainq' = mainq /\ db' = db
    BY GetFailsStep, LoseConnectionStep, AckWriteStep
  <2>2. contested => contested'
    BY DEF GetFails, LoseConnection, AckWrite
  <2> QED
    BY <2>1, <2>2
<1>4. \A e \in Devices : EntersAsHost(e)' <=> EntersAsHost(e)
  BY <1>3 DEF EntersAsHost
<1>5. \A e \in Devices : NotAsked(e, "host")
  BY NetworkAsks DEF GetOps
<1>6. /\ Waits(inbox'[d], {"setGame"}) => Waits(inbox[d], {"setGame"})
      /\ Has(inbox'[d], FreeAnswers(d)) => Has(inbox[d], FreeAnswers(d))
      /\ \A e \in Devices : e # d => inbox'[e] = inbox[e]
  <2>1. CASE GetFails(d)
    BY <2>1, GetFailsStep
  <2>2. CASE LoseConnection(d)
    <3>1. inbox'[d] = <<>> /\ \A e \in Devices : e # d => inbox'[e] = inbox[e]
      BY <2>2, LoseConnectionStep DEF InIs, IsNow
    <3>2. ~ Waits(<<>>, {"setGame"}) /\ ~ Has(<<>>, FreeAnswers(d))
      BY EmptyHasNone
    <3> QED
      BY <3>1, <3>2
  <2>3. CASE AckWrite(d)
    <3>1. inbox[d] # <<>> /\ inbox'[d] = Tail(inbox[d]) /\ \A e \in Devices : e # d => inbox'[e] = inbox[e]
      BY <2>3, AckWriteStep DEF InIs, IsNow
    <3>2. Waits(Tail(inbox[d]), {"setGame"}) => Waits(inbox[d], {"setGame"})
      BY <1>0, <3>1, WaitsTail
    <3>3. Has(Tail(inbox[d]), FreeAnswers(d)) => Has(inbox[d], FreeAnswers(d))
      BY <1>0, <3>1, HasTail
    <3> QED
      BY <3>1, <3>2, <3>3
  <2> QED
    BY <2>1, <2>2, <2>3
<1>7. /\ Waits(unacked'[d], {"setGame"}) => Waits(unacked[d], {"setGame"})
      /\ Waits(unacked[d], {"setGame"}) => Waits(unacked'[d], {"setGame"}) \/ db.exists
      /\ \A e \in Devices : e # d => unacked'[e] = unacked[e]
  <2>1. CASE unacked' = unacked
    BY <2>1
  <2>2. CASE AckWrite(d)
    <3>1. /\ unacked[d] # <<>> /\ unacked'[d] = Tail(unacked[d]) /\ \A e \in Devices : e # d => unacked'[e] = unacked[e]
          /\ inbox[d] # <<>> /\ Head(unacked[d]).op = Head(inbox[d]).op
      BY <2>2, AckWriteStep DEF UnIs, IsNow
    <3>2. Waits(unacked[d], {"setGame"}) <=> Head(unacked[d]).op \in {"setGame"} \/ Waits(Tail(unacked[d]), {"setGame"})
      BY <1>0, <3>1, WaitsTail
    <3>3. Head(inbox[d]).op \in {"setGame"} => GameIsStored(d)
      BY <1>0, <3>1, WaitsTail DEF GameIsStored
    <3>4. GameIsStored(d) => db.exists
      BY DEF HostInv
    <3> QED
      BY <3>1, <3>2, <3>3, <3>4
  <2> QED
    BY <2>1, <2>2, GetFailsStep, LoseConnectionStep
<1>8. ASSUME NEW e \in Devices
      PROVE  Quiet(e)
  <2>1. /\ Waits(unacked'[e], {"setGame"}) => Waits(unacked[e], {"setGame"})
        /\ Waits(unacked[e], {"setGame"}) => Waits(unacked'[e], {"setGame"}) \/ db.exists
        /\ Waits(inbox'[e], {"setGame"}) => Waits(inbox[e], {"setGame"})
        /\ Has(inbox'[e], FreeAnswers(e)) => Has(inbox[e], FreeAnswers(e))
    BY <1>6, <1>7, Zenon
  <2>2. /\ Shadowed(e)' => Shadowed(e)
        /\ Shadowed(e) => Shadowed(e)' \/ db'.exists
        /\ FoundFree(e)' => FoundFree(e)
        /\ GameIsStored(e)' => GameIsStored(e)
    BY <1>3, <2>1 DEF Shadowed, FoundFree, GameIsStored
  <2>3. Owner(e)' => Owner(e)
    BY <1>2, <1>4, <2>2 DEF Owner
  <2> QED
    BY <1>2, <1>5, <2>2, <2>3 DEF Quiet
<1> QED
  BY <1>3, <1>8 DEF Fewer

(* A tap on Host, the server's answer, and the answer taken.               *)
LEMMA TapHostKeeps ==
    ASSUME LobbyTypes, HostInv, NEW d \in Devices, TapHost(d)
    PROVE  HostInv'
<1>1. PICK m : m = Get("host", <<d, taps[d] + 1>>)
  OBVIOUS
<1>2. m \in GetMsg(d) /\ m \in OutMsg(d) /\ m.op = "host"
  BY <1>1, TapHostStep DEF Get, Msg, OutMsg
<1>3. /\ OnDevices(outbox) /\ outbox[d] \in Seq(OutMsg(d))
  BY DEF LobbyTypes, QueueTypes, OutTypes
<1>4. /\ outbox'[d] = Append(outbox[d], m) /\ \A e \in Devices : e # d => outbox'[e] = outbox[e]
  BY <1>1, <1>3 DEF TapHost, Ask, OnDevices
<1>5. /\ unacked' = unacked /\ inbox' = inbox /\ mainq' = mainq /\ hosting' = hosting /\ db' = db
      /\ contested' = (contested \/ \E e \in Devices : Claiming(e))
      /\ taps[d] = 0
  BY DEF TapHost, Ask, roomVars
<1>6. taps'[d] # 0 /\ \A e \in Devices : e # d => taps'[e] = taps[e]
  BY <1>5 DEF TapHost, LobbyTypes, TapTypes
<1>7. \A e \in Devices : /\ Shadowed(e)' <=> Shadowed(e)
                         /\ Owner(e)' <=> Owner(e)
                         /\ FoundFree(e)' <=> FoundFree(e)
                         /\ GameIsStored(e)' <=> GameIsStored(e)
  BY <1>5 DEF Shadowed, Owner, EntersAsHost, IsHosting, FoundFree, GameIsStored
<1>8. ~ Asked(d, "host") /\ ~ Owner(d) /\ AskedOnce(d, "host")
  BY <1>5 DEF HostInv, AsksOnce
<1>9. AskedOnce(d, "host")'
  <2>1. Once(outbox'[d], "host")
    BY <1>2, <1>3, <1>4, <1>8, OnceAppend DEF Asked, AskedOnce
  <2> QED
    BY <1>5, <1>8, <2>1 DEF Asked, AskedOnce
<1>10. ASSUME NEW e \in Devices
       PROVE  AsksOnce(e)'
  <2>1. CASE e = d
    BY <1>6, <1>7, <1>8, <1>9, <2>1 DEF AsksOnce
  <2>2. CASE e # d
    <3>1. AsksOnce(e)
      BY DEF HostInv
    <3> QED
      BY <1>4, <1>5, <1>6, <1>7, <2>2, <3>1 DEF AsksOnce, AskedOnce, Asked
  <2> QED
    BY <2>1, <2>2
<1>11. \A e \in Devices : GameIsStored(e)' => db'.exists
  BY <1>5, <1>7 DEF HostInv
<1>12. ASSUME ~ contested'
       PROVE  OneClaim' /\ OneOwner' /\ OwnerStores' /\ FreeIsFree'
  <2>1. \A e \in Devices : ~ Claiming(e)
    BY <1>5, <1>12
  <2>2. OneOwner /\ OwnerStores /\ FreeIsFree
    BY <1>5, <1>12 DEF HostInv
  <2>3. \A e \in Devices : e # d => ~ Claiming(e)'
    BY <1>4, <1>5, <1>7, <2>1 DEF Claiming
  <2>4. OneClaim'
    BY <2>3 DEF OneClaim
  <2>5. OneOwner' /\ OwnerStores' /\ FreeIsFree'
    BY <1>5, <1>7, <2>2 DEF OneOwner, OwnerStores, FreeIsFree
  <2> QED
    BY <2>4, <2>5
<1> QED
  BY <1>10, <1>11, <1>12 DEF HostInv

(* Any message but a question for the code: a write may be setGame.        *)
LEMMA DeliverOther ==
    ASSUME LobbyTypes, NEW d \in Devices, Deliver(d), Head(outbox[d]).op # "host"
    PROVE  Fewer
<1>0. outbox[d] \in Seq(OutMsg(d)) /\ inbox[d] \in Seq(InMsg(d)) /\ db \in Game
  BY DEF LobbyTypes, QueueTypes, OutTypes, InTypes
<1>1. PICK m, a : m = Head(outbox[d]) /\ a = Answer(m)
  OBVIOUS
<1>2. /\ outbox[d] # <<>> /\ m \in OutMsg(d) /\ a \in InMsg(d)
      /\ outbox'[d] = Tail(outbox[d]) /\ inbox'[d] = Append(inbox[d], a)
      /\ \A e \in Devices : e # d => outbox'[e] = outbox[e] /\ inbox'[e] = inbox[e]
      /\ unacked' = unacked /\ mainq' = mainq
      /\ db' = IF IsGet(m) THEN db ELSE Stored(db, m)
  BY <1>1, DeliverStep DEF OutIs, InIs, IsNow
<1>3. a.op = m.op /\ m.op # "host"
  BY <1>1 DEF Answer
<1>4. hosting' = hosting /\ contested' = contested /\ taps' = taps
  BY DEF Deliver, roomVars, tapVars
<1>5. (db.exists => db'.exists) /\ (m.op = "setGame" => db'.exists)
  <2>1. CASE IsGet(m)
    BY <1>2, <2>1 DEF IsGet, GetOps
  <2>2. CASE ~ IsGet(m)
    <3>1. m \in WriteMsg
      BY <1>2, <2>2 DEF OutMsg, GetMsg, IsGet
    <3> QED
      BY <1>0, <1>2, <2>2, <3>1, StoredExists
  <2> QED
    BY <2>1, <2>2
<1>6. \A e \in Devices : NotAsked(e, "host")
  BY DeliverAsks
<1>7. /\ Waits(inbox'[d], {"setGame"}) => Waits(inbox[d], {"setGame"}) \/ db'.exists
      /\ Has(inbox'[d], FreeAnswers(d)) => Has(inbox[d], FreeAnswers(d))
  <2>1. Waits(Append(inbox[d], a), {"setGame"}) => Waits(inbox[d], {"setGame"}) \/ a.op = "setGame"
    BY <1>0, <1>2, WaitsAppend
  <2>2. a \notin FreeAnswers(d)
    BY <1>3 DEF FreeAnswers
  <2>3. Has(Append(inbox[d], a), FreeAnswers(d)) => Has(inbox[d], FreeAnswers(d))
    BY <1>0, <1>2, <2>2, HasAppend
  <2> QED
    BY <1>2, <1>3, <1>5, <2>1, <2>3
<1>8. ASSUME NEW e \in Devices
      PROVE  Quiet(e)
  <2>1. /\ Waits(inbox'[e], {"setGame"}) => Waits(inbox[e], {"setGame"}) \/ db'.exists
        /\ Has(inbox'[e], FreeAnswers(e)) => Has(inbox[e], FreeAnswers(e))
    BY <1>2, <1>7, Zenon
  <2>2. /\ Shadowed(e)' <=> Shadowed(e)
        /\ Owner(e)' <=> Owner(e)
        /\ taps'[e] = 0 => taps[e] = 0
    BY <1>2, <1>4 DEF Shadowed, Owner, EntersAsHost, IsHosting
  <2>3. /\ FoundFree(e)' => FoundFree(e)
        /\ GameIsStored(e)' => GameIsStored(e) \/ db'.exists
    BY <2>1 DEF FoundFree, GameIsStored
  <2> QED
    BY <1>6, <2>2, <2>3 DEF Quiet
<1> QED
  BY <1>4, <1>5, <1>8 DEF Fewer

(* The question for the code is answered: nobody owns a free code.         *)
LEMMA DeliverHost ==
    ASSUME LobbyTypes, HostInv, NEW d \in Devices, Deliver(d), Head(outbox[d]).op = "host"
    PROVE  HostInv'
<1>0. outbox[d] \in Seq(OutMsg(d)) /\ inbox[d] \in Seq(InMsg(d)) /\ db \in Game
  BY DEF LobbyTypes, QueueTypes, OutTypes, InTypes
<1>1. PICK m, a : m = Head(outbox[d]) /\ a = Answer(m)
  OBVIOUS
<1>2. /\ outbox[d] # <<>> /\ m \in OutMsg(d) /\ a \in InMsg(d)
      /\ outbox'[d] = Tail(outbox[d]) /\ inbox'[d] = Append(inbox[d], a)
      /\ \A e \in Devices : e # d => outbox'[e] = outbox[e] /\ inbox'[e] = inbox[e]
      /\ unacked' = unacked /\ mainq' = mainq
      /\ db' = IF IsGet(m) THEN db ELSE Stored(db, m)
  BY <1>1, DeliverStep DEF OutIs, InIs, IsNow
<1>3. m.op = "host" /\ a.op = "host" /\ IsGet(m) /\ a.exists = db.exists
  BY <1>0, <1>1 DEF Answer, IsGet, GetOps, Game
<1>4. hosting' = hosting /\ contested' = contested /\ taps' = taps /\ db' = db
  BY <1>2, <1>3 DEF Deliver, roomVars, tapVars
<1>5. Waits(outbox[d], {"host"})
  BY DeliverAsks
<1>6. AskedOnce(d, "host") /\ ~ Owner(d) /\ taps[d] # 0
  BY <1>5 DEF HostInv, AsksOnce, Asked
<1>7. AskedOnce(d, "host")'
  BY <1>6, DeliverAsks
<1>9. \A e \in Devices : /\ Shadowed(e)' <=> Shadowed(e)
                         /\ Owner(e)' <=> Owner(e)
  BY <1>2, <1>4 DEF Shadowed, Owner, EntersAsHost, IsHosting
<1>10. ASSUME NEW e \in Devices
       PROVE  AsksOnce(e)'
  <2>1. CASE e = d
    BY <1>4, <1>6, <1>7, <1>9, <2>1 DEF AsksOnce
  <2>2. CASE e # d
    <3>1. AsksOnce(e)
      BY DEF HostInv
    <3> QED
      BY <1>2, <1>4, <1>9, <2>2, <3>1 DEF AsksOnce, AskedOnce, Asked
  <2> QED
    BY <2>1, <2>2
<1>11. ASSUME NEW e \in Devices
       PROVE  GameIsStored(e)' => db'.exists
  <2>1. Waits(Append(inbox[d], a), {"setGame"}) => Waits(inbox[d], {"setGame"})
    BY <1>0, <1>2, <1>3, WaitsAppend
  <2>2. Waits(inbox'[e], {"setGame"}) => Waits(inbox[e], {"setGame"})
    BY <1>2, <2>1
  <2> QED
    BY <1>4, <2>2 DEF HostInv, GameIsStored
<1>12. ASSUME ~ contested'
       PROVE  OneClaim' /\ OneOwner' /\ OwnerStores' /\ FreeIsFree'
  <2>1. OneClaim /\ OneOwner /\ OwnerStores /\ FreeIsFree
    BY <1>4, <1>12 DEF HostInv
  <2>2. \A e \in Devices : Claiming(e)' => Claiming(e)
    BY <1>2, <1>5, <1>9 DEF Claiming
  <2>3. OneClaim' /\ OneOwner' /\ OwnerStores'
    BY <1>4, <1>9, <2>1, <2>2 DEF OneClaim, OneOwner, OwnerStores
  <2>4. \A e \in Devices : Owner(e) => db.exists
    <3> SUFFICES ASSUME NEW e \in Devices, Owner(e), Shadowed(e)
                 PROVE  FALSE
      BY <2>1 DEF OwnerStores
    <3>1. Claiming(e) /\ Claiming(d)
      BY <1>5 DEF Claiming
    <3> QED
      BY <1>6, <2>1, <3>1 DEF OneClaim
  <2>5. ASSUME NEW e \in Devices, FoundFree(e)'
        PROVE  FoundFree(e) \/ ~ db.exists
    <3>1. CASE e = d
      <4>1. Has(Append(inbox[d], a), FreeAnswers(d)) => Has(inbox[d], FreeAnswers(d)) \/ a \in FreeAnswers(d)
        BY <1>0, <1>2, HasAppend
      <4>2. a \in FreeAnswers(d) => ~ db.exists
        BY <1>3 DEF FreeAnswers
      <4> QED
        BY <1>2, <2>5, <3>1, <4>1, <4>2 DEF FoundFree
    <3>2. CASE e # d
      BY <1>2, <2>5, <3>2 DEF FoundFree
    <3> QED
      BY <3>1, <3>2
  <2>6. FreeIsFree'
    BY <1>9, <2>1, <2>4, <2>5 DEF FreeIsFree
  <2> QED
    BY <2>3, <2>6
<1> QED
  BY <1>10, <1>11, <1>12 DEF HostInv

(* The code is free, and taken.                                            *)
LEMMA HostFree ==
    ASSUME LobbyTypes, HostInv, NEW d \in Devices, HostAnswered(d), CodeIsFree(Head(inbox[d]))
    PROVE  HostInv'
<1>0. /\ outbox[d] \in Seq(OutMsg(d)) /\ unacked[d] \in Seq(WriteMsg)
      /\ inbox[d] \in Seq(InMsg(d)) /\ mainq[d] \in Seq(BlockOf(d)) /\ db \in Game
  BY DEF LobbyTypes, QueueTypes, OutTypes, UnTypes, InTypes, MainTypes
<1>1. PICK a, m : a = Head(inbox[d]) /\ m = Msg("setGame", a.id, 0)
  OBVIOUS
<1>2. /\ inbox[d] # <<>> /\ a \in InMsg(d) /\ a.op = "host" /\ a.id \in Mine(d, Id)
      /\ inbox'[d] = Tail(inbox[d]) /\ \A e \in Devices : e # d => inbox'[e] = inbox[e]
  BY <1>1, HostAnsweredStep DEF InIs, IsNow
<1>3. PICK bs : LocalStep(d, <<m>>, <<m>>, bs)
  BY <1>1, HostAnsweredStep
<1>4. /\ db' = db
      /\ outbox'[d] = outbox[d] \o <<m>> /\ unacked'[d] = unacked[d] \o <<m>>
      /\ \A e \in Devices : e # d => /\ outbox'[e] = outbox[e] /\ unacked'[e] = unacked[e]
                                     /\ mainq'[e] = mainq[e]
  BY <1>3, Zenon DEF LocalStep, Sends, Posts, OutIs, UnIs, MainIs, IsNow
<1>5. m \in OutMsg(d) /\ m \in WriteMsg /\ m.op = "setGame" /\ <<m>> \in Seq(OutMsg(d)) /\ <<m>> \in Seq(WriteMsg)
  BY <1>1, <1>2, MineAre, MsgIs, SeqOfOne DEF WriteOps, OutMsg
<1>6. hosting' = hosting /\ contested' = contested /\ taps' = taps
  BY DEF HostAnswered, roomVars, tapVars
<1>7. Waits(inbox[d], {"host"}) /\ FoundFree(d)
  <2>1. Waits(inbox[d], {"host"})
    BY <1>0, <1>1, <1>2, WaitsTail
  <2>2. a \in FreeAnswers(d)
    BY <1>1, <1>2 DEF FreeAnswers, CodeIsFree
  <2> QED
    BY <1>0, <1>1, <1>2, <2>1, <2>2, HasTail DEF FoundFree
<1>8. /\ Once(outbox[d], "host") /\ Once(inbox[d], "host") /\ ~ Waits(outbox[d], {"host"})
      /\ ~ Owner(d) /\ taps[d] # 0
  BY <1>7 DEF HostInv, AsksOnce, AskedOnce, Asked
<1>9. Once(inbox'[d], "host") /\ ~ Waits(inbox'[d], {"host"})
  BY <1>0, <1>1, <1>2, <1>8, OnceTail
<1>10. Once(outbox'[d], "host") /\ ~ Waits(outbox'[d], {"host"})
  <2>1. ~ Waits(<<m>>, {"host"})
    BY <1>5, WaitsOne
  <2>2. ~ Waits(outbox[d] \o <<m>>, {"host"})
    BY <1>0, <1>5, <1>8, <2>1, WaitsConcat
  <2> QED
    BY <1>4, <2>2, OnceNone
<1>11. Shadowed(d)'
  <2>1. Append(unacked[d], m) = unacked[d] \o <<m>>
    BY <1>0, <1>5
  <2>2. Waits(Append(unacked[d], m), {"setGame"})
    BY <1>0, <1>5, WaitsAppend
  <2> QED
    BY <1>4, <2>1, <2>2 DEF Shadowed
<1>12. \A e \in Devices : e # d => /\ Shadowed(e)' <=> Shadowed(e)
                                   /\ Owner(e)' <=> Owner(e)
                                   /\ FoundFree(e)' <=> FoundFree(e)
                                   /\ Claiming(e)' <=> Claiming(e)
  BY <1>2, <1>4, <1>6 DEF Shadowed, Owner, EntersAsHost, IsHosting, FoundFree, Claiming
<1>13. ASSUME NEW e \in Devices
       PROVE  AsksOnce(e)'
  <2>1. CASE e = d
    BY <1>6, <1>8, <1>9, <1>10, <2>1 DEF AsksOnce, AskedOnce, Asked
  <2>2. CASE e # d
    <3>1. AsksOnce(e)
      BY DEF HostInv
    <3> QED
      BY <1>2, <1>4, <1>6, <1>12, <2>2, <3>1 DEF AsksOnce, AskedOnce, Asked
  <2> QED
    BY <2>1, <2>2
<1>14. ASSUME NEW e \in Devices
       PROVE  GameIsStored(e)' => db'.exists
  <2>1. Waits(Tail(inbox[d]), {"setGame"}) => Waits(inbox[d], {"setGame"})
    BY <1>0, <1>2, WaitsTail
  <2>2. Waits(inbox'[e], {"setGame"}) => Waits(inbox[e], {"setGame"})
    BY <1>2, <2>1
  <2> QED
    BY <1>4, <2>2 DEF HostInv, GameIsStored
<1>15. ~ FoundFree(d)'
  <2>1. inbox'[d] \in Seq(InMsg(d))
    BY <1>0, <1>2
  <2>2. \A i \in 1..Len(inbox'[d]) : inbox'[d][i].op # "host"
    BY <1>9 DEF Waits
  <2> QED
    BY <2>2 DEF FoundFree, Has, FreeAnswers
<1>16. ASSUME ~ contested'
       PROVE  OneClaim' /\ OneOwner' /\ OwnerStores' /\ FreeIsFree'
  <2>1. OneClaim /\ OneOwner /\ OwnerStores /\ FreeIsFree
    BY <1>6, <1>16 DEF HostInv
  <2>2. Claiming(d)
    BY <1>7 DEF Claiming
  <2>3. \A e \in Devices : e # d => ~ Claiming(e) /\ ~ FoundFree(e)
    <3>1. \A e \in Devices : e # d => ~ Claiming(e)
      BY <2>1, <2>2 DEF OneClaim
    <3>2. \A e \in Devices : FoundFree(e) => Claiming(e)
      BY DEF FoundFree, Has, FreeAnswers, Claiming, Waits
    <3> QED
      BY <3>1, <3>2
  <2>4. \A e \in Devices : ~ Owner(e)
    BY <1>7, <2>1 DEF FreeIsFree
  <2>5. \A e \in Devices : e # d => ~ Claiming(e)' /\ ~ Owner(e)' /\ ~ FoundFree(e)'
    BY <1>12, <2>3, <2>4
  <2> QED
    BY <1>11, <1>15, <2>5 DEF OneClaim, OneOwner, OwnerStores, FreeIsFree
<1> QED
  BY <1>13, <1>14, <1>16 DEF HostInv

(* The invariant holds at first ...                                        *)
LEMMA HostInit ==
    ASSUME Init
    PROVE  HostInv
<1>1. \A d \in Devices : outbox[d] = <<>> /\ inbox[d] = <<>> /\ unacked[d] = <<>> /\ mainq[d] = <<>>
  BY DEF Init
<1>2. hosting = {}
  BY DEF Init
<1>3. \A X : ~ Waits(<<>>, X) /\ ~ Has(<<>>, X)
  BY EmptyHasNone
<1>4. \A d \in Devices : ~ Shadowed(d) /\ ~ Owner(d) /\ ~ Asked(d, "host") /\ ~ FoundFree(d) /\ ~ GameIsStored(d)
  BY <1>1, <1>2, <1>3, Zenon DEF Shadowed, Owner, EntersAsHost, IsHosting, Asked, FoundFree, GameIsStored
<1>5. \A d \in Devices : ~ Claiming(d)
  BY <1>4 DEF Claiming, Asked
<1>6. \A d \in Devices : Once(outbox[d], "host") /\ Once(inbox[d], "host")
  BY <1>1, <1>3, OnceNone, Zenon
<1>7. \A d \in Devices : AsksOnce(d)
  BY <1>4, <1>6 DEF AsksOnce, AskedOnce, Asked
<1> QED
  BY <1>4, <1>5, <1>7 DEF HostInv, OneClaim, OneOwner, OwnerStores, FreeIsFree

(* ... is preserved ...                                                    *)
LEMMA HostNext ==
    ASSUME LobbyInv, HostInv, [Next]_lobbyVars
    PROVE  HostInv'
<1>0. LobbyTypes /\ Mirror
  BY DEF LobbyInv
<1>1. CASE Next
  <2>1. PICK d \in Devices : Tap(d) \/ Work(d) \/ GetFails(d) \/ LoseConnection(d)
    BY <1>1 DEF Next
  <2>2. CASE TapHost(d)
    BY <1>0, <2>2, TapHostKeeps
  <2>3. CASE TapJoin(d) \/ TapStart(d) \/ TapLeave(d)
    BY <1>0, <2>3, OtherTaps, HostKept
  <2>4. CASE Deliver(d)
    <3>1. CASE Head(outbox[d]).op = "host"
      BY <1>0, <2>4, <3>1, DeliverHost
    <3>2. CASE Head(outbox[d]).op # "host"
      BY <1>0, <2>4, <3>2, DeliverOther, HostKept
    <3> QED
      BY <3>1, <3>2
  <2>5. CASE HostAnswered(d)
    <3>1. CASE CodeIsFree(Head(inbox[d]))
      BY <1>0, <2>5, <3>1, HostFree
    <3>2. CASE ~ CodeIsFree(Head(inbox[d]))
      BY <1>0, <2>5, <3>2, OtherAnswers, HostKept
    <3> QED
      BY <3>1, <3>2
  <2>6. CASE JoinAnswered(d) \/ SettingsAnswered(d) \/ StartAnswered(d) \/ RosterAnswered(d)
    BY <1>0, <2>6, OtherAnswers, HostKept
  <2>7. CASE Listen(d) \/ Main(d)
    BY <1>0, <2>7, OtherWork, HostKept
  <2>8. CASE GetFails(d) \/ LoseConnection(d) \/ AckWrite(d)
    BY <1>0, <2>8, HostNetwork, HostKept
  <2> QED
    BY <2>1, <2>2, <2>3, <2>4, <2>5, <2>6, <2>7, <2>8 DEF Tap, Work, Complete
<1>2. CASE UNCHANGED lobbyVars
  <2>1. UNCHANGED <<db, outbox, unacked, inbox, mainq, hosting, taps, contested>>
    BY <1>2 DEF lobbyVars, netVars, roomVars, tapVars
  <2>2. \A e \in Devices : Quiet(e)
    BY <2>1 DEF Quiet, NotAsked, Shadowed, Owner, EntersAsHost, IsHosting, FoundFree, GameIsStored
  <2> QED
    BY <2>1, <2>2, HostKept DEF Fewer
<1> QED
  BY <1>1, <1>2

(* ... and implies that there is one host.                                 *)
LEMMA OneHostFromInv ==
    ASSUME LobbyTypes, HostInv
    PROVE  OneHost
<1> DEFINE H == {DeviceOf(id) : id \in hosting}
<1> SUFFICES ASSUME ~ contested
             PROVE  Cardinality(H) <= 1
  BY DEF OneHost
<1>1. \A d \in H : d \in Devices /\ Owner(d)
  <2>1. \A id \in Id : DeviceOf(id) \in Devices
    BY DEF Id, DeviceOf
  <2>2. hosting \subseteq Id
    BY DEF LobbyTypes, RoomTypes
  <2> QED
    BY <2>1, <2>2 DEF Owner, IsHosting
<1>2. \A d, e \in H : d = e
  BY <1>1 DEF HostInv, OneOwner
<1> HIDE DEF H
<1>3. CASE H = {}
  BY <1>3, FS_EmptySet
<1>4. CASE H # {}
  <2>1. PICK x : H = {x}
    BY <1>2, <1>4
  <2>2. Cardinality({x}) = 1
    BY FS_Singleton
  <2> QED
    BY <2>1, <2>2
<1> QED
  BY <1>3, <1>4

(* Unless the code is contested, a game has one host: of two taps on Host  *)
(* one device finds the code taken (hostGame), because the owner's setGame *)
(* is stored or still the only claim, for any number of devices, lost      *)
(* connections and failed gets.                                            *)
THEOREM GameHasOneHost == Spec => []OneHost
<1>1. Init => HostInv
  BY HostInit
<1>2. LobbyInv /\ HostInv /\ [Next]_lobbyVars => HostInv'
  BY HostNext
<1>3. LobbyInv /\ HostInv => OneHost
  BY OneHostFromInv DEF LobbyInv
<1> QED
  BY <1>1, <1>2, <1>3, QueuesInOrder, PTL DEF Spec

-----------------------------------------------------------------------------
(* The numbers of the players.                                             *)

(* A numbering gives no two players the same number; 0 is no number.       *)
Numbering == {f \in [Id -> Nat] : \A x, y \in Id : f[x] = f[y] /\ f[x] > 0 => x = y}
Zero == [id \in Id |-> 0]

(* What agrees with a numbering: a list of players, and what is sent,      *)
(* pending, answered and waiting for the main queue.                       *)
Agrees(players, f) == \A id \in Id : players[id].number \in {0, f[id]}
NumberIs(m, f) == m.op = "setNumber" => m.number > 0 /\ m.number = f[m.id]
SentOf(d, f)     == {m \in OutMsg(d) : NumberIs(m, f)}
PendingOf(f)     == {m \in WriteMsg : NumberIs(m, f)}
AnswersOf(d, f)  == {a \in InMsg(d) : Agrees(a.players, f)}
BlocksOf(d, f)   == {b \in BlockOf(d) : b.op = "roster" => Agrees(b.players, f)}
SeatOf(s, f)     == s = NoSeat \/ (s.id \in Id /\ s.number \in {0, f[s.id]})

QueuesAgree(d, f) ==
    /\ outbox[d] \in Seq(SentOf(d, f)) /\ unacked[d] \in Seq(PendingOf(f))
    /\ inbox[d] \in Seq(AnswersOf(d, f)) /\ mainq[d] \in Seq(BlocksOf(d, f))

Numbered(f) ==
    /\ Agrees(db.players, f)
    /\ \A d \in Devices : QueuesAgree(d, f) /\ SeatOf(seat[d], f)

(* The start is asked for at most once, and not before the tap.            *)
OneStart ==
    /\ \A d, e \in Devices : Asked(d, "start") /\ Asked(e, "start") => d = e
    /\ \A d \in Devices : AskedOnce(d, "start")
    /\ starts = 0 => \A d \in Devices : ~ Asked(d, "start")

(* Until the players are numbered nobody has a number.                     *)
Starting == starts = 0 \/ \E d \in Devices : Asked(d, "start")

NumberedBy(f) == f \in Numbering /\ Numbered(f) /\ (Starting => f = Zero)

NumbersInv == OneStart /\ \E f : NumberedBy(f)

(* A sequence of a set is one of a larger set.                             *)
LEMMA SeqOfMore ==
    ASSUME NEW S, NEW T, S \subseteq T, NEW q \in Seq(S)
    PROVE  q \in Seq(T)
<1>1. \A i \in 1..Len(q) : q[i] \in T
  OBVIOUS
<1> QED
  BY <1>1

(* Where nobody has a number, any numbering is agreed with.                *)
LEMMA ZeroAgrees ==
    ASSUME NEW f \in Numbering, Numbered(Zero)
    PROVE  Numbered(f)
<1>1. \A players : Agrees(players, Zero) => Agrees(players, f)
  BY DEF Agrees, Zero
<1>2. \A m \in WriteMsg : NumberIs(m, Zero) => NumberIs(m, f)
  <2>1. \A m \in WriteMsg : m.op = "setNumber" => m.id \in Id
    BY DEF WriteMsg
  <2> QED
    BY <2>1 DEF NumberIs, Zero
<1>3. \A d \in Devices : \A m \in OutMsg(d) : NumberIs(m, Zero) => NumberIs(m, f)
  BY <1>2 DEF OutMsg, GetMsg, GetOps, NumberIs
<1>4. ASSUME NEW d \in Devices
      PROVE  /\ SentOf(d, Zero) \subseteq SentOf(d, f) /\ PendingOf(Zero) \subseteq PendingOf(f)
             /\ AnswersOf(d, Zero) \subseteq AnswersOf(d, f) /\ BlocksOf(d, Zero) \subseteq BlocksOf(d, f)
  BY <1>1, <1>2, <1>3 DEF SentOf, PendingOf, AnswersOf, BlocksOf
<1>5. ASSUME NEW d \in Devices
      PROVE  QueuesAgree(d, f)
  <2>1. QueuesAgree(d, Zero)
    BY DEF Numbered
  <2> QED
    BY <1>4, <2>1, SeqOfMore DEF QueuesAgree
<1>6. \A s : SeatOf(s, Zero) => SeatOf(s, f)
  BY DEF SeatOf, Zero
<1> QED
  BY <1>1, <1>5, <1>6 DEF Numbered

(* What a local step may add.                                              *)
LEMMA PlainAgree ==
    ASSUME NEW d \in Devices, NEW f
    PROVE  /\ \A m \in GetMsg(d) : m \in SentOf(d, f)
           /\ \A op \in {"setGame", "setPlayer", "remove"}, id \in Id :
                Msg(op, id, 0) \in PendingOf(f) /\ Msg(op, id, 0) \in SentOf(d, f)
           /\ RoundBlock(d) \subseteq BlocksOf(d, f) /\ SettingsBlock(d) \subseteq BlocksOf(d, f)
           /\ \A id \in Mine(d, Id), h \in BOOLEAN : Enters(id, h) \in Seq(BlocksOf(d, f))
           /\ \A p \in [Id -> Entry] : Agrees(p, f) => RosterBlock(d, p) \subseteq BlocksOf(d, f)
<1>1. \A m \in GetMsg(d) : m \in SentOf(d, f)
  BY DEF GetMsg, GetOps, SentOf, OutMsg, NumberIs
<1>2. ASSUME NEW op \in {"setGame", "setPlayer", "remove"}, NEW id \in Id
      PROVE  Msg(op, id, 0) \in PendingOf(f) /\ Msg(op, id, 0) \in SentOf(d, f)
  <2>1. PICK m : m = Msg(op, id, 0)
    OBVIOUS
  <2>2. m \in WriteMsg /\ m.op # "setNumber"
    BY <2>1, MsgIs DEF WriteOps
  <2> QED
    BY <2>1, <2>2 DEF PendingOf, SentOf, OutMsg, NumberIs
<1>3. RoundBlock(d) \subseteq BlocksOf(d, f) /\ SettingsBlock(d) \subseteq BlocksOf(d, f)
  BY DEF RoundBlock, SettingsBlock, BlocksOf, BlockOf
<1>4. ASSUME NEW id \in Mine(d, Id), NEW h \in BOOLEAN
      PROVE  Enters(id, h) \in Seq(BlocksOf(d, f))
  <2>1. PICK b : b = [op |-> "enter", id |-> id, isHost |-> h]
    OBVIOUS
  <2>2. b \in BlocksOf(d, f)
    BY <2>1 DEF BlocksOf, BlockOf
  <2> QED
    BY <2>1, <2>2, SeqOfOne DEF Enters
<1>5. ASSUME NEW p \in [Id -> Entry], Agrees(p, f)
      PROVE  RosterBlock(d, p) \subseteq BlocksOf(d, f)
  BY <1>5 DEF RosterBlock, BlocksOf, BlockOf
<1> QED
  BY <1>1, <1>2, <1>3, <1>4, <1>5

(* A local step that adds what agrees keeps the agreement.                 *)
LEMMA LocalAgrees ==
    ASSUME LobbyTypes, NEW f, Numbered(f), NEW d \in Devices, NEW xs, NEW ms, NEW bs, LocalStep(d, xs, ms, bs),
           xs \in Seq(SentOf(d, f)), ms \in Seq(PendingOf(f)), bs \in Seq(BlocksOf(d, f)),
           \A e \in Devices : SeatOf(seat'[e], f)
    PROVE  Numbered(f)'
<1>0. \A e \in Devices : QueuesAgree(e, f)
  BY DEF Numbered
<1>1. Sends(d, xs, ms) /\ Takes(d) /\ Posts(d, bs) /\ db' = db
  BY DEF LocalStep
<1>2. outbox[d] \o xs \in Seq(SentOf(d, f)) /\ unacked[d] \o ms \in Seq(PendingOf(f))
  BY <1>0 DEF QueuesAgree
<1>3. outbox'[d] \in Seq(SentOf(d, f)) /\ unacked'[d] \in Seq(PendingOf(f))
  BY <1>1, <1>2, Zenon DEF Sends, OutIs, UnIs, IsNow
<1>4. inbox'[d] \in Seq(AnswersOf(d, f))
  <2>1. inbox[d] \in Seq(AnswersOf(d, f))
    BY <1>0 DEF QueuesAgree
  <2>2. inbox[d] # <<>> => Tail(inbox[d]) \in Seq(AnswersOf(d, f))
    BY <2>1
  <2> QED
    BY <1>1, <2>1, <2>2, Zenon DEF Takes, InIs, IsNow
<1>5. mainq'[d] \in Seq(BlocksOf(d, f))
  <2>1. mainq[d] \in Seq(BlocksOf(d, f))
    BY <1>0 DEF QueuesAgree
  <2>2. /\ mainq[d] \o bs \in Seq(BlocksOf(d, f))
        /\ mainq[d] # <<>> => Tail(mainq[d]) \o bs \in Seq(BlocksOf(d, f))
    BY <2>1
  <2> QED
    BY <1>1, <2>2, Zenon DEF Posts, MainIs, IsNow
<1>6. \A e \in Devices : e # d => /\ outbox'[e] = outbox[e] /\ unacked'[e] = unacked[e]
                                  /\ inbox'[e] = inbox[e] /\ mainq'[e] = mainq[e]
  BY <1>1, Zenon DEF Sends, Takes, Posts, OutIs, UnIs, InIs, MainIs, IsNow
<1>7. \A e \in Devices : QueuesAgree(e, f)'
  BY <1>0, <1>3, <1>4, <1>5, <1>6, Zenon DEF QueuesAgree
<1> QED
  BY <1>1, <1>7 DEF Numbered

(* The asking for the start.                                               *)
LEMMA OneStartKept ==
    ASSUME OneStart, starts' = starts, \A e \in Devices : NotAsked(e, "start")
    PROVE  OneStart' /\ (Starting' => Starting)
<1>1. \A e \in Devices : /\ Asked(e, "start")' => Asked(e, "start")
                         /\ AskedOnce(e, "start") => AskedOnce(e, "start")'
  BY AskedOnceKept
<1> QED
  BY <1>1 DEF OneStart, Starting

(* A local step other than a start.                                        *)
LEMMA LocalNumbers ==
    ASSUME LobbyTypes, OneStart, NEW f, NumberedBy(f),
           NEW d \in Devices, NEW xs, NEW ms, NEW bs, LocalStep(d, xs, ms, bs),
           xs \in Seq(SentOf(d, f)), ms \in Seq(PendingOf(f)), bs \in Seq(BlocksOf(d, f)),
           \A e \in Devices : SeatOf(seat'[e], f), ~ Waits(xs, {"start"}), starts' = starts
    PROVE  NumbersInv'
<1>1. Numbered(f)'
  BY LocalAgrees DEF NumberedBy
<1>2. \A e \in Devices : NotAsked(e, "start")
  BY LocalAsks
<1>3. OneStart' /\ (Starting' => Starting)
  BY <1>2, OneStartKept
<1>4. NumberedBy(f)'
  BY <1>1, <1>3 DEF NumberedBy
<1> QED
  BY <1>3, <1>4 DEF NumbersInv

(* A write that agrees with the numbering keeps the stored players so.     *)
LEMMA StoredAgrees ==
    ASSUME NEW f, NEW g \in Game, Agrees(g.players, f), NEW m \in PendingOf(f)
    PROVE  Agrees(Stored(g, m).players, f)
<1>1. m \in WriteMsg /\ m.op \in WriteOps /\ (m.op # "setRound" => m.id \in Id) /\ NumberIs(m, f)
  BY DEF PendingOf, WriteMsg
<1>2. g.players \in [Id -> Entry] /\ g = [exists |-> g.exists, roundNum |-> g.roundNum, players |-> g.players]
  BY DEF Game
<1>3. Empty \in [Id -> Entry] /\ \A id \in Id : Empty[id].number = 0
  BY DEF Empty, Absent, Entry
<1>4. CASE m.op = "setGame"
  <2>1. Stored(g, m).players = [Empty EXCEPT ![m.id].joined = TRUE]
    BY <1>4 DEF Stored
  <2>2. \A id \in Id : [Empty EXCEPT ![m.id].joined = TRUE][id].number = 0
    BY <1>1, <1>3, <1>4 DEF Entry
  <2> QED
    BY <2>1, <2>2 DEF Agrees
<1>5. CASE m.op = "setPlayer"
  <2>1. Stored(g, m).players = [g.players EXCEPT ![m.id] = [joined |-> TRUE, number |-> 0]]
    BY <1>2, <1>5 DEF Stored
  <2> QED
    BY <1>1, <1>2, <1>5, <2>1 DEF Agrees
<1>6. CASE m.op = "setNumber"
  <2>1. Stored(g, m).players = [g.players EXCEPT ![m.id].number = m.number]
    BY <1>2, <1>6 DEF Stored
  <2>2. m.number = f[m.id] /\ m.id \in Id
    BY <1>1, <1>6 DEF NumberIs
  <2>3. g.players[m.id] \in Entry
    BY <1>2, <2>2
  <2>4. \A id \in Id : Stored(g, m).players[id].number = IF id = m.id THEN m.number ELSE g.players[id].number
    BY <1>2, <2>1, <2>2, <2>3 DEF Entry
  <2> QED
    BY <2>2, <2>4 DEF Agrees
<1>7. CASE m.op = "remove"
  <2>1. Stored(g, m).players = [g.players EXCEPT ![m.id] = Absent]
    BY <1>2, <1>7 DEF Stored
  <2> QED
    BY <1>1, <1>2, <1>7, <2>1 DEF Agrees, Absent
<1>8. CASE m.op = "setRound"
  <2>1. Stored(g, m).players = g.players
    BY <1>2, <1>8 DEF Stored
  <2> QED
    BY <2>1
<1> QED
  BY <1>1, <1>4, <1>5, <1>6, <1>7, <1>8 DEF WriteOps

(* So does what a device sees.                                             *)
LEMMA ViewAgrees ==
    ASSUME LobbyTypes, NEW f, Numbered(f), NEW d \in Devices
    PROVE  Agrees(LocalView(d).players, f) /\ LocalView(d).players \in [Id -> Entry]
<1> DEFINE G == {g \in Game : Agrees(g.players, f)}
<1>1. unacked[d] \in Seq(PendingOf(f)) /\ unacked[d] \in Seq(WriteMsg) /\ db \in Game
  BY DEF Numbered, QueuesAgree, LobbyTypes, QueueTypes, UnTypes
<1>2. \A g \in G : \A i \in 1..Len(unacked[d]) : Stored(g, unacked[d][i]) \in G
  <2> SUFFICES ASSUME NEW g \in G, NEW i \in 1..Len(unacked[d])
               PROVE  Stored(g, unacked[d][i]) \in G
    OBVIOUS
  <2>1. PICK m : m = unacked[d][i]
    OBVIOUS
  <2>2. m \in PendingOf(f) /\ m \in WriteMsg
    BY <1>1, <2>1
  <2>3. Stored(g, m) \in Game /\ Agrees(Stored(g, m).players, f)
    BY <2>2, StoredIsGame, StoredAgrees
  <2> QED
    BY <2>1, <2>3
<1>3. db \in G
  BY <1>1 DEF Numbered
<1> HIDE DEF G
<1>4. LocalView(d) \in G
  BY <1>1, <1>2, <1>3, LocalViewIn, Zenon
<1> QED
  BY <1>4 DEF G, Game

(* The numbers that a start gives are a numbering.                         *)
LEMMA StartNumbering ==
    ASSUME NEW players, NEW order \in SetToSeqs(Present(players))
    PROVE  \E f \in Numbering : \A i \in 1..Len(order) : f[order[i]] = i
<1> DEFINE n == Len(order)
           At(id, i) == i \in 1..n /\ order[i] = id
           f == [id \in Id |-> IF \E i : At(id, i) THEN CHOOSE i : At(id, i) ELSE 0]
<1>1. /\ n \in Nat
      /\ \A i \in 1..n : order[i] \in Id
      /\ \A i, j \in 1..n : i # j => order[i] # order[j]
  BY StartWritesAre
<1> HIDE DEF n
<1>2. \A id, i, j : At(id, i) /\ At(id, j) => i = j
  BY <1>1
<1>3. ASSUME NEW id \in Id
      PROVE  At(id, f[id]) \/ (f[id] = 0 /\ \A i : ~ At(id, i))
  <2>1. CASE \E i : At(id, i)
    <3>1. f[id] = CHOOSE i : At(id, i)
      BY <2>1
    <3> HIDE DEF f, At
    <3>2. At(id, CHOOSE i : At(id, i))
      BY <2>1, Zenon
    <3> QED
      BY <3>1, <3>2
  <2>2. CASE ~ \E i : At(id, i)
    <3>1. f[id] = 0
      BY <2>2
    <3> HIDE DEF f, At
    <3> QED
      BY <2>2, <3>1
  <2> QED
    BY <2>1, <2>2
<1>4. f = [id \in Id |-> f[id]]
  OBVIOUS
<1> HIDE DEF f
<1>5. \A id \in Id : f[id] \in Nat
  BY <1>1, <1>3
<1>6. f \in [Id -> Nat]
  BY <1>4, <1>5
<1>7. \A x, y \in Id : f[x] = f[y] /\ f[x] > 0 => x = y
  BY <1>3, <1>5
<1>8. \A i \in 1..n : f[order[i]] = i
  <2> SUFFICES ASSUME NEW i \in 1..n
               PROVE  f[order[i]] = i
    OBVIOUS
  <2>1. order[i] \in Id /\ At(order[i], i)
    BY <1>1
  <2>2. At(order[i], f[order[i]])
    BY <1>3, <2>1
  <2> QED
    BY <1>2, <2>1, <2>2
<1>9. f \in Numbering
  BY <1>6, <1>7 DEF Numbering
<1> QED
  BY <1>8, <1>9 DEF n

(* The writes of the start agree with it.                                  *)
LEMMA StartWritesAgree ==
    ASSUME NEW d \in Devices, NEW players, NEW order \in SetToSeqs(Present(players)),
           NEW f, \A i \in 1..Len(order) : f[order[i]] = i
    PROVE  StartWrites(order) \in Seq(SentOf(d, f)) /\ StartWrites(order) \in Seq(PendingOf(f))
<1> DEFINE q == StartWrites(order)
           n == Len(order)
<1>1. /\ q \in Seq(WriteMsg) /\ n \in Nat /\ Len(q) = n + 1
      /\ \A i \in 1..n : q[i] = Msg("setNumber", order[i], i)
      /\ q[n + 1] = Msg("setRound", NoId, 1)
  BY StartWritesAre
<1>2. \A i \in 1..n : f[order[i]] = i
  OBVIOUS
<1> HIDE DEF q, n
<1>3. ASSUME NEW i \in 1..Len(q)
      PROVE  NumberIs(q[i], f)
  <2>1. PICK m : m = q[i]
    OBVIOUS
  <2>2. CASE i \in 1..n
    <3>1. m = Msg("setNumber", order[i], i)
      BY <1>1, <2>1, <2>2
    <3>2. m.number = i /\ m.id = order[i]
      BY <3>1 DEF Msg
    <3>3. i > 0 /\ f[order[i]] = i
      BY <1>2, <2>2
    <3> QED
      BY <2>1, <3>2, <3>3 DEF NumberIs
  <2>3. CASE i = n + 1
    <3>1. m = Msg("setRound", NoId, 1)
      BY <1>1, <2>1, <2>3
    <3> QED
      BY <2>1, <3>1 DEF Msg, NumberIs
  <2>4. i \in 1..n \/ i = n + 1
    BY <1>1
  <2> QED
    BY <2>2, <2>3, <2>4
<1>4. \A i \in 1..Len(q) : q[i] \in WriteMsg
  BY <1>1
<1>5. \A i \in 1..Len(q) : q[i] \in SentOf(d, f) /\ q[i] \in PendingOf(f)
  BY <1>3, <1>4 DEF SentOf, PendingOf, OutMsg
<1>6. q \in Seq(SentOf(d, f)) /\ q \in Seq(PendingOf(f))
  BY <1>1, <1>5
<1> QED
  BY <1>6 DEF q

(* The steps before and besides the start.                                 *)
LEMMA SeatsSame ==
    ASSUME NEW f, Numbered(f), seat' = seat
    PROVE  \A e \in Devices : SeatOf(seat'[e], f)
BY DEF Numbered

(* The taps other than Start.                                              *)
LEMMA TapNumbers ==
    ASSUME LobbyTypes, OneStart, NEW f, NumberedBy(f), NEW d \in Devices,
           TapHost(d) \/ TapJoin(d) \/ TapLeave(d)
    PROVE  NumbersInv'
<1>1. seat' = seat /\ starts' = starts
  BY DEF TapHost, TapJoin, TapLeave, roomVars, tapVars
<1>2. \A e \in Devices : SeatOf(seat'[e], f)
  BY <1>1, SeatsSame DEF NumberedBy
<1>3. /\ <<>> \in Seq(SentOf(d, f)) /\ <<>> \in Seq(PendingOf(f)) /\ <<>> \in Seq(BlocksOf(d, f))
      /\ ~ Waits(<<>>, {"start"})
  BY EmptyHasNone
<1>4. ASSUME NEW op \in {"host", "join"}, NEW id, Get(op, id) \in GetMsg(d),
             LocalStep(d, <<Get(op, id)>>, <<>>, <<>>)
      PROVE  NumbersInv'
  <2>1. PICK m : m = Get(op, id)
    OBVIOUS
  <2>2. m \in GetMsg(d) /\ m.op # "start" /\ LocalStep(d, <<m>>, <<>>, <<>>)
    BY <1>4, <2>1 DEF Get, Msg
  <2>3. <<m>> \in Seq(SentOf(d, f))
    BY <2>2, PlainAgree, SeqOfOne
  <2>4. ~ Waits(<<m>>, {"start"})
    BY <2>2, WaitsOne
  <2> QED
    BY <1>1, <1>2, <1>3, <2>2, <2>3, <2>4, LocalNumbers
<1>5. CASE TapHost(d)
  BY <1>4, <1>5, TapHostStep
<1>6. CASE TapJoin(d)
  BY <1>4, <1>6, TapJoinStep
<1>7. CASE TapLeave(d)
  <2>1. CASE LocalStep(d, <<>>, <<>>, <<>>)
    BY <1>1, <1>2, <1>3, <2>1, LocalNumbers
  <2>2. CASE LocalStep(d, <<Msg("remove", current[d], 0)>>, <<Msg("remove", current[d], 0)>>, <<>>)
    <3>1. PICK m : m = Msg("remove", current[d], 0)
      OBVIOUS
    <3>2. current[d] \in Id
      BY <1>7, TapLeaveStep, MineAre
    <3>3. m \in SentOf(d, f) /\ m \in PendingOf(f)
      BY <3>1, <3>2, PlainAgree
    <3>4. <<m>> \in Seq(SentOf(d, f)) /\ <<m>> \in Seq(PendingOf(f))
      BY <3>3, SeqOfOne
    <3>5. m.op # "start" /\ LocalStep(d, <<m>>, <<m>>, <<>>)
      BY <2>2, <3>1 DEF Msg
    <3>6. ~ Waits(<<m>>, {"start"})
      BY <3>5, WaitsOne
    <3> QED
      BY <1>1, <1>2, <1>3, <3>4, <3>5, <3>6, LocalNumbers
  <2> QED
    BY <1>7, <2>1, <2>2, TapLeaveStep
<1> QED
  BY <1>5, <1>6, <1>7

(* The answers other than to startGame.                                    *)
LEMMA AnswerNumbers ==
    ASSUME LobbyTypes, OneStart, NEW f, NumberedBy(f), NEW d \in Devices,
           HostAnswered(d) \/ JoinAnswered(d) \/ SettingsAnswered(d) \/ RosterAnswered(d)
    PROVE  NumbersInv'
<1>0. Numbered(f) /\ inbox[d] \in Seq(AnswersOf(d, f))
  BY DEF NumberedBy, Numbered, QueuesAgree
<1>1. seat' = seat /\ starts' = starts
  BY DEF HostAnswered, JoinAnswered, SettingsAnswered, RosterAnswered, roomVars, tapVars
<1>2. \A e \in Devices : SeatOf(seat'[e], f)
  BY <1>0, <1>1, SeatsSame
<1>3. /\ <<>> \in Seq(SentOf(d, f)) /\ <<>> \in Seq(PendingOf(f)) /\ <<>> \in Seq(BlocksOf(d, f))
      /\ ~ Waits(<<>>, {"start"})
  BY EmptyHasNone
<1>4. ASSUME NEW bs \in Seq(BlocksOf(d, f)), LocalStep(d, <<>>, <<>>, bs)
      PROVE  NumbersInv'
  BY <1>1, <1>2, <1>3, <1>4, LocalNumbers
<1>5. ASSUME NEW rs \in Seq(RoundBlock(d)), NEW bs \in Seq(BlocksOf(d, f))
      PROVE  rs \o bs \in Seq(BlocksOf(d, f))
  <2>1. rs \in Seq(BlocksOf(d, f))
    BY PlainAgree, SeqOfMore
  <2> QED
    BY <2>1
<1>6. ASSUME NEW op \in {"setGame", "setPlayer"}, NEW id \in Id, NEW bs \in Seq(BlocksOf(d, f)),
             LocalStep(d, <<Msg(op, id, 0)>>, <<Msg(op, id, 0)>>, bs)
      PROVE  NumbersInv'
  <2>1. PICK m : m = Msg(op, id, 0)
    OBVIOUS
  <2>2. m \in SentOf(d, f) /\ m \in PendingOf(f)
    BY <2>1, PlainAgree
  <2>3. <<m>> \in Seq(SentOf(d, f)) /\ <<m>> \in Seq(PendingOf(f))
    BY <2>2, SeqOfOne
  <2>4. m.op # "start" /\ LocalStep(d, <<m>>, <<m>>, bs)
    BY <1>6, <2>1 DEF Msg
  <2>5. ~ Waits(<<m>>, {"start"})
    BY <2>4, WaitsOne
  <2> QED
    BY <1>1, <1>2, <2>3, <2>4, <2>5, LocalNumbers
<1>7. CASE HostAnswered(d)
  <2>1. PICK a : a = Head(inbox[d])
    OBVIOUS
  <2>2. a.id \in Mine(d, Id) /\ a.id \in Id
    BY <1>7, <2>1, HostAnsweredStep, MineAre
  <2>3. PICK rs \in Seq(RoundBlock(d)) :
          \/ LocalStep(d, <<Msg("setGame", a.id, 0)>>, <<Msg("setGame", a.id, 0)>>, rs \o Enters(a.id, TRUE))
          \/ LocalStep(d, <<>>, <<>>, rs \o <<>>)
    BY <1>7, <2>1, HostAnsweredStep
  <2>4. Enters(a.id, TRUE) \in Seq(BlocksOf(d, f))
    BY <2>2, PlainAgree
  <2>5. rs \o Enters(a.id, TRUE) \in Seq(BlocksOf(d, f)) /\ rs \o <<>> \in Seq(BlocksOf(d, f))
    BY <1>3, <1>5, <2>4
  <2> QED
    BY <1>4, <1>6, <2>2, <2>3, <2>5
<1>8. CASE JoinAnswered(d)
  <2>1. PICK a : a = Head(inbox[d])
    OBVIOUS
  <2>2. a.id \in Mine(d, Id) /\ a.id \in Id
    BY <1>8, <2>1, JoinAnsweredStep, MineAre
  <2>3. PICK rs \in Seq(RoundBlock(d)) :
          \/ LocalStep(d, <<Msg("setPlayer", a.id, 0)>>, <<Msg("setPlayer", a.id, 0)>>, rs \o Enters(a.id, FALSE))
          \/ LocalStep(d, <<>>, <<>>, rs \o <<>>)
    BY <1>8, <2>1, JoinAnsweredStep
  <2>4. Enters(a.id, FALSE) \in Seq(BlocksOf(d, f))
    BY <2>2, PlainAgree
  <2>5. rs \o Enters(a.id, FALSE) \in Seq(BlocksOf(d, f)) /\ rs \o <<>> \in Seq(BlocksOf(d, f))
    BY <1>3, <1>5, <2>4
  <2> QED
    BY <1>4, <1>6, <2>2, <2>3, <2>5
<1>9. CASE SettingsAnswered(d)
  <2>1. PICK rs \in Seq(RoundBlock(d)), ss \in Seq(SettingsBlock(d)) : LocalStep(d, <<>>, <<>>, rs \o ss)
    BY <1>9, SettingsAnsweredStep
  <2>2. ss \in Seq(BlocksOf(d, f))
    BY PlainAgree, SeqOfMore
  <2>3. rs \o ss \in Seq(BlocksOf(d, f))
    BY <1>5, <2>2
  <2> QED
    BY <1>4, <2>1, <2>3
<1>10. CASE RosterAnswered(d)
  <2>1. PICK a : a = Head(inbox[d])
    OBVIOUS
  <2>2. a \in AnswersOf(d, f)
    BY <1>0, <1>10, <2>1, RosterAnsweredStep
  <2>3. PICK p : p = a.players
    OBVIOUS
  <2>4. p \in [Id -> Entry] /\ Agrees(p, f)
    BY <2>2, <2>3 DEF AnswersOf, InMsg
  <2>5. PICK bs \in Seq(RosterBlock(d, p)) : LocalStep(d, <<>>, <<>>, bs)
    BY <1>10, <2>1, <2>3, RosterAnsweredStep
  <2>6. bs \in Seq(BlocksOf(d, f))
    BY <2>4, PlainAgree, SeqOfMore
  <2> QED
    BY <1>4, <2>5, <2>6
<1> QED
  BY <1>7, <1>8, <1>9, <1>10

(* The listeners and the main queue: HandlePlayers takes a number from a list. *)
LEMMA WorkNumbers ==
    ASSUME LobbyTypes, OneStart, NEW f, NumberedBy(f), NEW d \in Devices, Listen(d) \/ Main(d)
    PROVE  NumbersInv'
<1>0. Numbered(f)
  BY DEF NumberedBy
<1>1. starts' = starts
  BY DEF Listen, ToldRoundNum, ToldPlayers, Main, Enter, UpdateGameSettings, CheckRoundNum, HandlePlayers, tapVars
<1>2. \A e \in Devices : SeatOf(seat'[e], f)
  <2>1. CASE seat' = seat
    BY <1>0, <2>1, SeatsSame
  <2>2. CASE HandlePlayers(d)
    <3>1. PICK b : b = Head(mainq[d])
      OBVIOUS
    <3>2. /\ mainq[d] # <<>> /\ b.op = "roster" /\ b.id \in Id /\ b.players \in [Id -> Entry]
      BY <2>2, <3>1, BlockIs, MineAre DEF HandlePlayers
    <3>3. mainq[d] \in Seq(BlocksOf(d, f))
      BY <1>0 DEF Numbered, QueuesAgree
    <3>4. b \in BlocksOf(d, f)
      BY <3>1, <3>2, <3>3
    <3>5. b.players[b.id].number \in {0, f[b.id]}
      BY <3>2, <3>4 DEF BlocksOf, Agrees
    <3>6. PICK s : s = [id |-> b.id, number |-> b.players[b.id].number, count |-> Cardinality(Present(b.players))]
      OBVIOUS
    <3>7. seat' = seat \/ seat' = [seat EXCEPT ![d] = s]
      BY <2>2, <3>1, <3>6 DEF HandlePlayers
    <3>8. SeatOf(s, f)
      BY <3>2, <3>5, <3>6 DEF SeatOf
    <3>9. OnDevices(seat) /\ \A e \in Devices : SeatOf(seat[e], f)
      BY <1>0 DEF Numbered, LobbyTypes, RoomTypes
    <3> QED
      BY <3>7, <3>8, <3>9 DEF OnDevices
  <2> QED
    BY <2>1, <2>2 DEF Listen, ToldRoundNum, ToldPlayers, Main, Enter, UpdateGameSettings, CheckRoundNum, roomVars
<1>3. /\ <<>> \in Seq(SentOf(d, f)) /\ <<>> \in Seq(PendingOf(f)) /\ <<>> \in Seq(BlocksOf(d, f))
      /\ ~ Waits(<<>>, {"start"})
  BY EmptyHasNone
<1>4. ASSUME NEW bs \in Seq(BlocksOf(d, f)), LocalStep(d, <<>>, <<>>, bs)
      PROVE  NumbersInv'
  BY <1>1, <1>2, <1>3, <1>4, LocalNumbers
<1>5. ASSUME NEW op \in {"settings", "roster"}, NEW id, Get(op, id) \in GetMsg(d),
             LocalStep(d, <<Get(op, id)>>, <<>>, <<>>)
      PROVE  NumbersInv'
  <2>1. PICK m : m = Get(op, id)
    OBVIOUS
  <2>2. m \in GetMsg(d) /\ m.op # "start" /\ LocalStep(d, <<m>>, <<>>, <<>>)
    BY <1>5, <2>1 DEF Get, Msg
  <2>3. <<m>> \in Seq(SentOf(d, f))
    BY <2>2, PlainAgree, SeqOfOne
  <2>4. ~ Waits(<<m>>, {"start"})
    BY <2>2, WaitsOne
  <2> QED
    BY <1>1, <1>2, <1>3, <2>2, <2>3, <2>4, LocalNumbers
<1>6. \A bs : bs \in Seq(RoundBlock(d)) \/ bs \in Seq(SettingsBlock(d)) => bs \in Seq(BlocksOf(d, f))
  BY PlainAgree, SeqOfMore
<1>7. CASE Listen(d)
  <2>1. CASE \E id \in listening : ToldRoundNum(d, id)
    BY <1>4, <1>6, <2>1, ToldRoundNumStep
  <2>2. CASE \E id \in listening : ToldPlayers(d, id)
    BY <1>3, <1>4, <2>2, ToldPlayersStep
  <2> QED
    BY <1>7, <2>1, <2>2 DEF Listen
<1>8. CASE Enter(d)
  BY <1>4, <1>5, <1>6, <1>8, EnterStep
<1>9. CASE UpdateGameSettings(d) \/ HandlePlayers(d)
  BY <1>3, <1>4, <1>9, UpdateGameSettingsStep, HandlePlayersStep
<1>10. CASE CheckRoundNum(d)
  <2>1. PICK p : p = LocalView(d).players
    OBVIOUS
  <2>2. RosterBlock(d, p) \subseteq BlocksOf(d, f)
    BY <1>0, <2>1, ViewAgrees, PlainAgree
  <2>3. \A bs \in Seq(RosterBlock(d, p)) : bs \in Seq(BlocksOf(d, f))
    BY <2>2, SeqOfMore
  <2>4. CASE LocalStep(d, <<>>, <<>>, <<>>)
    BY <1>3, <1>4, <2>4
  <2>5. CASE \E bs \in Seq(RosterBlock(d, p)) : LocalStep(d, <<>>, <<>>, bs)
    BY <1>4, <2>3, <2>5
  <2>6. CASE \E id \in Mine(d, Id) : Get("roster", id) \in GetMsg(d)
                                       /\ LocalStep(d, <<Get("roster", id)>>, <<>>, <<>>)
    BY <1>5, <2>6
  <2> QED
    BY <1>10, <2>1, <2>4, <2>5, <2>6, CheckRoundNumStep
<1> QED
  BY <1>7, <1>8, <1>9, <1>10 DEF Main

(* The connection delivers, loses and repeats only what agrees.            *)
LEMMA DeliverNumbers ==
    ASSUME LobbyTypes, OneStart, NEW f, NumberedBy(f), NEW d \in Devices, Deliver(d)
    PROVE  NumbersInv'
<1>0. Numbered(f) /\ db \in Game /\ QueuesAgree(d, f)
  BY DEF NumberedBy, Numbered, LobbyTypes
<1>1. PICK m, a : m = Head(outbox[d]) /\ a = Answer(m)
  OBVIOUS
<1>2. /\ outbox[d] # <<>> /\ m \in OutMsg(d) /\ a \in InMsg(d)
      /\ outbox'[d] = Tail(outbox[d]) /\ inbox'[d] = Append(inbox[d], a)
      /\ \A e \in Devices : e # d => outbox'[e] = outbox[e] /\ inbox'[e] = inbox[e]
      /\ unacked' = unacked /\ mainq' = mainq
      /\ db' = IF IsGet(m) THEN db ELSE Stored(db, m)
  BY <1>1, DeliverStep DEF OutIs, InIs, IsNow
<1>3. seat' = seat /\ starts' = starts
  BY DEF Deliver, roomVars, tapVars
<1>4. m \in SentOf(d, f)
  BY <1>0, <1>1, <1>2 DEF QueuesAgree
<1>5. Agrees(db'.players, f)
  <2>1. CASE IsGet(m)
    BY <1>0, <1>2, <2>1 DEF Numbered
  <2>2. CASE ~ IsGet(m)
    <3>1. m \in PendingOf(f)
      BY <1>2, <1>4, <2>2 DEF OutMsg, GetMsg, IsGet, SentOf, PendingOf
    <3>2. Agrees(Stored(db, m).players, f)
      BY <1>0, <3>1, StoredAgrees DEF Numbered
    <3> QED
      BY <1>2, <2>2, <3>2
  <2> QED
    BY <2>1, <2>2
<1>6. a \in AnswersOf(d, f)
  <2>1. a.players \in {db.players, Empty}
    BY <1>0, <1>1, <1>2, AnswerIs
  <2>2. Agrees(Empty, f)
    BY DEF Agrees, Empty, Absent
  <2> QED
    BY <1>0, <1>2, <2>1, <2>2 DEF AnswersOf, Numbered
<1>7. QueuesAgree(d, f)'
  <2>1. Tail(outbox[d]) \in Seq(SentOf(d, f)) /\ Append(inbox[d], a) \in Seq(AnswersOf(d, f))
    BY <1>0, <1>2, <1>6 DEF QueuesAgree
  <2> QED
    BY <1>0, <1>2, <2>1 DEF QueuesAgree
<1>8. \A e \in Devices : e # d => QueuesAgree(e, f)'
  BY <1>0, <1>2 DEF Numbered, QueuesAgree
<1>9. Numbered(f)'
  BY <1>0, <1>3, <1>5, <1>7, <1>8 DEF Numbered
<1>10. /\ \A e \in Devices : AskedOnce(e, "start")'
       /\ \A e \in Devices : Asked(e, "start")' => Asked(e, "start")
  <2>1. CASE m.op = "start"
    <3>1. Asked(d, "start") /\ AskedOnce(d, "start")'
      BY <1>1, <2>1, DeliverAsks DEF OneStart, Asked
    <3>2. \A e \in Devices : e # d => NotAsked(e, "start")
      BY DeliverAsks
    <3> QED
      BY <3>1, <3>2, AskedOnceKept DEF OneStart
  <2>2. CASE m.op # "start"
    <3>1. \A e \in Devices : NotAsked(e, "start")
      BY <1>1, <2>2, DeliverAsks
    <3> QED
      BY <3>1, AskedOnceKept DEF OneStart
  <2> QED
    BY <2>1, <2>2
<1>11. OneStart' /\ (Starting' => Starting)
  BY <1>3, <1>10 DEF OneStart, Starting
<1>12. NumberedBy(f)'
  BY <1>9, <1>11 DEF NumberedBy
<1> QED
  BY <1>11, <1>12 DEF NumbersInv

(* Faults and acknowledgements.                                            *)
LEMMA NetworkNumbers ==
    ASSUME LobbyTypes, Mirror, OneStart, NEW f, NumberedBy(f), NEW d \in Devices,
           GetFails(d) \/ LoseConnection(d) \/ AckWrite(d)
    PROVE  NumbersInv'
<1>0. Numbered(f) /\ QueuesAgree(d, f)
  BY DEF NumberedBy, Numbered
<1>1. seat' = seat /\ starts' = starts
  BY DEF GetFails, LoseConnection, AckWrite, roomVars, tapVars
<1>2. mainq' = mainq /\ db' = db
  BY GetFailsStep, LoseConnectionStep, AckWriteStep
<1>3. /\ QueuesAgree(d, f)'
      /\ \A e \in Devices : e # d => outbox'[e] = outbox[e] /\ inbox'[e] = inbox[e] /\ unacked'[e] = unacked[e]
  <2>1. CASE GetFails(d)
    <3>1. /\ outbox[d] # <<>> /\ outbox'[d] = Tail(outbox[d]) /\ inbox' = inbox /\ unacked' = unacked
          /\ \A e \in Devices : e # d => outbox'[e] = outbox[e]
      BY <2>1, GetFailsStep DEF OutIs, IsNow
    <3>2. Tail(outbox[d]) \in Seq(SentOf(d, f))
      BY <1>0, <3>1 DEF QueuesAgree
    <3> QED
      BY <1>0, <1>2, <3>1, <3>2 DEF QueuesAgree
  <2>2. CASE LoseConnection(d)
    <3>1. /\ outbox'[d] = unacked[d] /\ inbox'[d] = <<>> /\ unacked' = unacked
          /\ \A e \in Devices : e # d => outbox'[e] = outbox[e] /\ inbox'[e] = inbox[e]
      BY <2>2, LoseConnectionStep DEF OutIs, InIs, IsNow
    <3>2. PendingOf(f) \subseteq SentOf(d, f)
      BY DEF PendingOf, SentOf, OutMsg
    <3>3. unacked[d] \in Seq(SentOf(d, f)) /\ <<>> \in Seq(AnswersOf(d, f))
      BY <1>0, <3>2, SeqOfMore DEF QueuesAgree
    <3> QED
      BY <1>0, <1>2, <3>1, <3>3 DEF QueuesAgree
  <2>3. CASE AckWrite(d)
    <3>1. /\ inbox[d] # <<>> /\ inbox'[d] = Tail(inbox[d]) /\ outbox' = outbox
          /\ unacked[d] # <<>> /\ unacked'[d] = Tail(unacked[d])
          /\ \A e \in Devices : e # d => inbox'[e] = inbox[e] /\ unacked'[e] = unacked[e]
      BY <2>3, AckWriteStep DEF InIs, UnIs, IsNow
    <3>2. Tail(inbox[d]) \in Seq(AnswersOf(d, f)) /\ Tail(unacked[d]) \in Seq(PendingOf(f))
      BY <1>0, <3>1 DEF QueuesAgree
    <3> QED
      BY <1>0, <1>2, <3>1, <3>2 DEF QueuesAgree
  <2> QED
    BY <2>1, <2>2, <2>3
<1>4. \A e \in Devices : e # d => QueuesAgree(e, f)'
  BY <1>0, <1>2, <1>3 DEF Numbered, QueuesAgree
<1>5. Numbered(f)'
  BY <1>0, <1>1, <1>2, <1>3, <1>4 DEF Numbered
<1>6. \A e \in Devices : NotAsked(e, "start")
  BY NetworkAsks DEF GetOps
<1>7. OneStart' /\ (Starting' => Starting)
  BY <1>1, <1>6, OneStartKept
<1>8. NumberedBy(f)'
  BY <1>5, <1>7 DEF NumberedBy
<1> QED
  BY <1>7, <1>8 DEF NumbersInv

(* The start: until then nobody has a number, and from then on everybody   *)
(* has at most the one that it gives.                                      *)
LEMMA StartGives ==
    ASSUME LobbyTypes, NEW d \in Devices, Numbered(Zero), NEW players,
           NEW order \in SetToSeqs(Present(players)), NEW bs,
           LocalStep(d, StartWrites(order), StartWrites(order), bs),
           bs \in Seq(RoundBlock(d)), seat' = seat, OneStart', ~ Starting'
    PROVE  NumbersInv'
<1>1. PICK f \in Numbering : \A i \in 1..Len(order) : f[order[i]] = i
  BY StartNumbering
<1>2. Numbered(f)
  BY ZeroAgrees
<1>3. StartWrites(order) \in Seq(SentOf(d, f)) /\ StartWrites(order) \in Seq(PendingOf(f))
  BY <1>1, StartWritesAgree
<1>4. bs \in Seq(BlocksOf(d, f))
  BY PlainAgree, SeqOfMore
<1>5. Numbered(f)'
  BY <1>2, <1>3, <1>4, SeatsSame, LocalAgrees
<1>6. NumberedBy(f)'
  BY <1>5 DEF NumberedBy
<1> QED
  BY <1>6 DEF NumbersInv

(* Nobody asks for the start any more.                                     *)
LEMMA NoStart ==
    ASSUME starts' # 0, \A e \in Devices : ~ Asked(e, "start")'
    PROVE  OneStart' /\ ~ Starting'
<1>1. \A e \in Devices : AskedOnce(e, "start")'
  BY OnceNone DEF Asked, AskedOnce
<1> QED
  BY <1>1 DEF OneStart, Starting

(* A tap on Start: numbers at once, or asks for the players.               *)
LEMMA TapStartNumbers ==
    ASSUME MaxStarts <= 1, LobbyTypes, OneStart, NEW f, NumberedBy(f), NEW d \in Devices, TapStart(d)
    PROVE  NumbersInv'
<1>1. starts = 0 /\ starts' # 0 /\ seat' = seat
  BY LobbyAssumption DEF TapStart, LobbyTypes, TapTypes, roomVars
<1>2. f = Zero /\ Numbered(Zero) /\ Zero \in Numbering
  BY <1>1 DEF NumberedBy, Starting
<1>3. \A e \in Devices : ~ Asked(e, "start")
  BY <1>1 DEF OneStart
<1>4. \A e \in Devices : SeatOf(seat'[e], Zero)
  BY <1>1, <1>2, SeatsSame
<1>5. /\ <<>> \in Seq(SentOf(d, Zero)) /\ <<>> \in Seq(PendingOf(Zero)) /\ <<>> \in Seq(BlocksOf(d, Zero))
      /\ <<>> \in Seq(RoundBlock(d)) /\ ~ Waits(<<>>, {"start"})
  BY EmptyHasNone
<1>6. ASSUME \A e \in Devices : NotAsked(e, "start")
      PROVE  OneStart' /\ ~ Starting'
  BY <1>1, <1>3, <1>6, AskedOnceKept, NoStart
<1>7. CASE LocalStep(d, <<>>, <<>>, <<>>)
  <2>1. Numbered(Zero)'
    BY <1>2, <1>4, <1>5, <1>7, LocalAgrees
  <2>2. OneStart' /\ ~ Starting'
    BY <1>5, <1>6, <1>7, LocalAsks
  <2>3. NumberedBy(Zero)'
    BY <1>2, <2>1, <2>2 DEF NumberedBy
  <2> QED
    BY <2>2, <2>3 DEF NumbersInv
<1>8. CASE \E order \in SetToSeqs(Present(LocalView(d).players)) :
             LocalStep(d, StartWrites(order), StartWrites(order), <<>>)
  <2>0. PICK p : p = LocalView(d).players
    OBVIOUS
  <2>1. PICK order \in SetToSeqs(Present(p)) : LocalStep(d, StartWrites(order), StartWrites(order), <<>>)
    BY <1>8, <2>0
  <2>2. ~ Waits(StartWrites(order), {"start"})
    BY StartOnlyNumbers
  <2>3. OneStart' /\ ~ Starting'
    BY <1>6, <2>1, <2>2, LocalAsks
  <2> QED
    BY <1>1, <1>2, <1>5, <2>1, <2>3, StartGives
<1>9. CASE Get("start", current[d]) \in GetMsg(d) /\ LocalStep(d, <<Get("start", current[d])>>, <<>>, <<>>)
  <2>1. PICK m : m = Get("start", current[d])
    OBVIOUS
  <2>2. m \in GetMsg(d) /\ m \in OutMsg(d) /\ m.op = "start" /\ LocalStep(d, <<m>>, <<>>, <<>>)
    BY <1>9, <2>1 DEF Get, Msg, OutMsg
  <2>3. <<m>> \in Seq(SentOf(d, Zero))
    BY <2>2, PlainAgree, SeqOfOne
  <2>4. Numbered(Zero)'
    BY <1>2, <1>4, <1>5, <2>2, <2>3, LocalAgrees
  <2>5. /\ outbox'[d] = outbox[d] \o <<m>>
        /\ \A e \in Devices : e # d => outbox'[e] = outbox[e]
    BY <2>2, Zenon DEF LocalStep, Sends, OutIs, IsNow
  <2>6. inbox' = inbox
    BY DEF TapStart
  <2>7. Once(outbox'[d], "start")
    <3>1. outbox[d] \in Seq(OutMsg(d))
      BY DEF LobbyTypes, QueueTypes, OutTypes
    <3>2. Append(outbox[d], m) = outbox[d] \o <<m>>
      BY <2>2, <3>1
    <3>3. Once(outbox[d], "start") /\ ~ Waits(outbox[d], {"start"})
      BY <1>3 DEF OneStart, AskedOnce, Asked
    <3>4. Once(Append(outbox[d], m), "start")
      BY <2>2, <3>1, <3>3, OnceAppend
    <3> QED
      BY <2>5, <3>2, <3>4
  <2>8. \A e \in Devices : e # d => ~ Asked(e, "start")'
    BY <1>3, <2>5, <2>6 DEF Asked
  <2>9. \A e \in Devices : AskedOnce(e, "start")'
    BY <1>3, <2>5, <2>6, <2>7 DEF OneStart, AskedOnce, Asked
  <2>10. OneStart'
    BY <1>1, <2>8, <2>9 DEF OneStart
  <2>11. NumberedBy(Zero)'
    BY <1>2, <2>4 DEF NumberedBy
  <2> QED
    BY <2>10, <2>11 DEF NumbersInv
<1> QED
  BY <1>7, <1>8, <1>9, TapStartStep

(* The players are answered: they are numbered.                            *)
LEMMA StartAnsweredNumbers ==
    ASSUME LobbyTypes, OneStart, NEW f, NumberedBy(f), NEW d \in Devices, StartAnswered(d)
    PROVE  NumbersInv'
<1>1. starts' = starts /\ seat' = seat
  BY DEF StartAnswered, roomVars, tapVars
<1>2. /\ inbox[d] # <<>> /\ Head(inbox[d]).op = "start"
      /\ inbox'[d] = Tail(inbox[d]) /\ inbox[d] \in Seq(InMsg(d))
  BY StartAnsweredStep DEF InIs, IsNow, LobbyTypes, QueueTypes, InTypes
<1>3. Waits(inbox[d], {"start"})
  BY <1>2, WaitsTail
<1>4. Asked(d, "start") /\ starts # 0 /\ ~ Waits(outbox[d], {"start"}) /\ Once(inbox[d], "start")
  BY <1>3 DEF OneStart, AskedOnce, Asked
<1>5. f = Zero /\ Numbered(Zero) /\ Zero \in Numbering
  BY <1>4 DEF NumberedBy, Starting
<1>6. ~ Waits(inbox'[d], {"start"})
  BY <1>2, <1>4, OnceTail
<1>7. ASSUME \A e \in Devices : NotAsked(e, "start")
      PROVE  OneStart' /\ ~ Starting'
  <2>1. ~ Waits(outbox'[d], {"start"})
    BY <1>4, <1>7 DEF NotAsked
  <2>2. \A e \in Devices : e # d => ~ Asked(e, "start")
    BY <1>4 DEF OneStart
  <2>3. \A e \in Devices : ~ Asked(e, "start")'
    BY <1>6, <1>7, <2>1, <2>2 DEF NotAsked, Asked
  <2> QED
    BY <1>1, <1>4, <2>3, NoStart
<1>8. \A e \in Devices : SeatOf(seat'[e], Zero)
  BY <1>1, <1>5, SeatsSame
<1>9. PICK p : p = Head(inbox[d]).players
  OBVIOUS
<1>10. PICK rs \in Seq(RoundBlock(d)) :
         \/ LocalStep(d, <<>>, <<>>, rs \o <<>>)
         \/ \E order \in SetToSeqs(Present(p)) : LocalStep(d, StartWrites(order), StartWrites(order), rs \o <<>>)
  BY <1>9, StartAnsweredStep
<1>11. rs \o <<>> = rs
  OBVIOUS
<1>12. CASE LocalStep(d, <<>>, <<>>, rs)
  <2>1. /\ <<>> \in Seq(SentOf(d, Zero)) /\ <<>> \in Seq(PendingOf(Zero)) /\ ~ Waits(<<>>, {"start"})
    BY EmptyHasNone
  <2>2. rs \in Seq(BlocksOf(d, Zero))
    BY PlainAgree, SeqOfMore
  <2>3. Numbered(Zero)'
    BY <1>5, <1>8, <1>12, <2>1, <2>2, LocalAgrees
  <2>4. OneStart' /\ ~ Starting'
    BY <1>7, <1>12, <2>1, LocalAsks
  <2>5. NumberedBy(Zero)'
    BY <1>5, <2>3 DEF NumberedBy
  <2> QED
    BY <2>4, <2>5 DEF NumbersInv
<1>13. CASE \E order \in SetToSeqs(Present(p)) : LocalStep(d, StartWrites(order), StartWrites(order), rs)
  <2>1. PICK order \in SetToSeqs(Present(p)) : LocalStep(d, StartWrites(order), StartWrites(order), rs)
    BY <1>13
  <2>2. ~ Waits(StartWrites(order), {"start"})
    BY StartOnlyNumbers
  <2>3. OneStart' /\ ~ Starting'
    BY <1>7, <2>1, <2>2, LocalAsks
  <2> QED
    BY <1>1, <1>5, <2>1, <2>3, StartGives
<1> QED
  BY <1>10, <1>11, <1>12, <1>13

(* The invariant holds at first ...                                        *)
LEMMA NumbersInit ==
    ASSUME Init
    PROVE  NumbersInv
<1>1. \A d \in Devices : outbox[d] = <<>> /\ inbox[d] = <<>> /\ unacked[d] = <<>> /\ mainq[d] = <<>>
  BY DEF Init
<1>2. \A d \in Devices : ~ Asked(d, "start") /\ AskedOnce(d, "start")
  <2>1. ~ Waits(<<>>, {"start"})
    BY EmptyHasNone
  <2> QED
    BY <1>1, <2>1, OnceNone DEF Asked, AskedOnce
<1>3. \A d \in Devices : QueuesAgree(d, Zero)
  <2>1. \A S : <<>> \in Seq(S)
    OBVIOUS
  <2> QED
    BY <1>1, <2>1, Zenon DEF QueuesAgree
<1>4. Agrees(db.players, Zero)
  BY DEF Init, Agrees, Empty, Absent
<1>5. \A d \in Devices : SeatOf(seat[d], Zero)
  BY DEF Init, SeatOf
<1>6. Zero \in Numbering
  BY DEF Zero, Numbering
<1>7. NumberedBy(Zero)
  BY <1>3, <1>4, <1>5, <1>6 DEF NumberedBy, Numbered
<1> QED
  BY <1>2, <1>7 DEF NumbersInv, OneStart

(* ... is preserved ...                                                    *)
LEMMA NumbersNext ==
    ASSUME MaxStarts <= 1, LobbyInv, NumbersInv, [Next]_lobbyVars
    PROVE  NumbersInv'
<1>0. LobbyTypes /\ Mirror /\ OneStart
  BY DEF LobbyInv, NumbersInv
<1>1. PICK f : NumberedBy(f)
  BY DEF NumbersInv
<1>2. CASE Next
  <2>1. PICK d \in Devices : Tap(d) \/ Work(d) \/ GetFails(d) \/ LoseConnection(d)
    BY <1>2 DEF Next
  <2>2. CASE TapHost(d) \/ TapJoin(d) \/ TapLeave(d)
    BY <1>0, <1>1, <2>2, TapNumbers
  <2>3. CASE TapStart(d)
    BY <1>0, <1>1, <2>3, TapStartNumbers
  <2>4. CASE HostAnswered(d) \/ JoinAnswered(d) \/ SettingsAnswered(d) \/ RosterAnswered(d)
    BY <1>0, <1>1, <2>4, AnswerNumbers
  <2>5. CASE StartAnswered(d)
    BY <1>0, <1>1, <2>5, StartAnsweredNumbers
  <2>6. CASE Listen(d) \/ Main(d)
    BY <1>0, <1>1, <2>6, WorkNumbers
  <2>7. CASE Deliver(d)
    BY <1>0, <1>1, <2>7, DeliverNumbers
  <2>8. CASE GetFails(d) \/ LoseConnection(d) \/ AckWrite(d)
    BY <1>0, <1>1, <2>8, NetworkNumbers
  <2> QED
    BY <2>1, <2>2, <2>3, <2>4, <2>5, <2>6, <2>7, <2>8 DEF Tap, Work, Complete
<1>3. CASE UNCHANGED lobbyVars
  <2>1. UNCHANGED <<db, outbox, unacked, inbox, mainq, seat, starts>>
    BY <1>3 DEF lobbyVars, netVars, roomVars, tapVars
  <2>2. \A e \in Devices : NotAsked(e, "start")
    BY <2>1, AskedSame
  <2>3. OneStart' /\ (Starting' => Starting)
    BY <1>0, <2>1, <2>2, OneStartKept
  <2>4. Numbered(f)'
    BY <1>1, <2>1 DEF NumberedBy, Numbered, QueuesAgree
  <2>5. NumberedBy(f)'
    BY <1>1, <2>3, <2>4 DEF NumberedBy
  <2> QED
    BY <2>3, <2>5 DEF NumbersInv
<1> QED
  BY <1>2, <1>3

(* ... and implies that no number is given twice.                          *)
LEMMA DistinctFromInv ==
    ASSUME LobbyInv, NumbersInv
    PROVE  DistinctNumbers
<1> SUFFICES ASSUME NEW d \in Devices, NEW e \in Devices, Seated(d), Seated(e), d # e,
                    seat[d].number > 0, seat[d].number = seat[e].number
             PROVE  FALSE
  BY DEF DistinctNumbers
<1>1. PICK f \in Numbering : Numbered(f)
  BY DEF NumbersInv, NumberedBy
<1>2. seat[d] \in Seat(d) /\ seat[e] \in Seat(e)
  BY DEF LobbyInv, LobbyTypes, RoomTypes, Seated
<1>3. /\ seat[d].id \in Id /\ DeviceOf(seat[d].id) = d /\ seat[d].number \in Nat
      /\ seat[e].id \in Id /\ DeviceOf(seat[e].id) = e /\ seat[e].number \in Nat
  BY <1>2 DEF Seat, Mine
<1>4. seat[d] # NoSeat /\ seat[e] # NoSeat
  BY DEF NoSeat
<1>5. /\ seat[d].number \in {0, f[seat[d].id]} /\ seat[e].number \in {0, f[seat[e].id]}
  BY <1>1, <1>4 DEF Numbered, SeatOf
<1>6. f[seat[d].id] = f[seat[e].id] /\ f[seat[d].id] > 0
  BY <1>3, <1>5
<1>7. seat[d].id = seat[e].id
  BY <1>1, <1>3, <1>6 DEF Numbering
<1> QED
  BY <1>3, <1>7

(* In a game that is started once no two devices play under the same       *)
(* number, however joins, leaves, failed gets and lost connections race    *)
(* with the numbering of startGame.                                        *)
THEOREM OneNumberEach ==
    ASSUME MaxStarts <= 1
    PROVE  Spec => []DistinctNumbers
<1>1. Init => NumbersInv
  BY NumbersInit
<1>2. LobbyInv /\ NumbersInv /\ [Next]_lobbyVars => NumbersInv'
  BY NumbersNext
<1>3. LobbyInv /\ NumbersInv => DistinctNumbers
  BY DistinctFromInv
<1> QED
  BY <1>1, <1>2, <1>3, QueuesInOrder, PTL DEF Spec

-----------------------------------------------------------------------------
(* The start: what the devices agree on when nobody disturbs it.           *)

(* Joining three queues, and a message to a queue.                         *)
LEMMA JoinThree ==
    ASSUME NEW S, NEW T, NEW q \in Seq(S), NEW r \in Seq(T), NEW t \in Seq(T)
    PROVE  (q \o r) \o t = q \o (r \o t)
<1>1. PICK U : S \subseteq U /\ T \subseteq U
  <2>1. S \subseteq S \cup T /\ T \subseteq S \cup T
    OBVIOUS
  <2> QED
    BY <2>1
<1>2. q \in Seq(U) /\ r \in Seq(U) /\ t \in Seq(U)
  BY <1>1, SeqOfMore
<1> QED
  BY <1>2, ConcatAssociative

(* One message.                                                            *)
LEMMA AppendJoins ==
    ASSUME NEW S, NEW q \in Seq(S), NEW m \in S
    PROVE  Append(q, m) = q \o <<m>>
OBVIOUS

(* Until Start is tapped only the messages that host, join and leave are   *)
(* under way, ...                                                          *)
GatherOps == {"host", "join", "settings", "setGame", "setPlayer", "remove"}
EarlyMsg(d)    == {m \in OutMsg(d) : m.op \in GatherOps}
EarlyWrite     == {m \in WriteMsg : m.op \in GatherOps}
EarlyAnswer(d) == {a \in InMsg(d) : a.op \in GatherOps /\ a.roundNum = 0}
EarlyBlock(d)  == {b \in BlockOf(d) : b.op \in {"enter", "settings"}}

Gathering ==
    /\ starts = 0 /\ db.roundNum = 0
    /\ \A d \in Devices :
         /\ screen[d] # "Sheet"
         /\ outbox[d] \in Seq(EarlyMsg(d)) /\ unacked[d] \in Seq(EarlyWrite)
         /\ inbox[d] \in Seq(EarlyAnswer(d)) /\ mainq[d] \in Seq(EarlyBlock(d))

(* ... then nothing but the host's question, until it is answered or lost, *)
Silent(d) == outbox[d] = <<>> /\ unacked[d] = <<>> /\ inbox[d] = <<>> /\ mainq[d] = <<>>

StartGet(d)            == {m \in GetMsg(d) : m.op = "start"}
StartAnswer(d, players) == {a \in InMsg(d) : a.op = "start" /\ a.roundNum = 0 /\ a.players = players}

AskingToStart(h) ==
    /\ db.roundNum = 0
    /\ \A d \in Devices : screen[d] # "Sheet" /\ (d # h => Silent(d))
    /\ unacked[h] = <<>> /\ mainq[h] = <<>>
    /\ \/ outbox[h] = <<>> /\ inbox[h] = <<>>
       \/ inbox[h] = <<>> /\ \E m \in StartGet(h) : outbox[h] = <<m>>
       \/ outbox[h] = <<>> /\ \E a \in StartAnswer(h, db.players) : inbox[h] = <<a>>

(* ... then the host's writes, of which the server has at least the first  *)
(* b and the host has seen a acknowledged, with gets of the list only      *)
(* behind them, ...                                                        *)
Rest(order, k) == SubSeq(StartWrites(order), k + 1, Len(order) + 1)
UpTo(players, order, k) == \A j \in 1..k : players[order[j]].number = j
RosterGet(d) == {m \in GetMsg(d) : m.op = "roster"}
StartAck(d)  == {a \in InMsg(d) : a.op \in {"setNumber", "setRound"} /\ a.roundNum = 0}

Progress(h, order, a, b) ==
    /\ unacked[h] = Rest(order, a)
    /\ \E g \in Seq(RosterGet(h)) : outbox[h] = Rest(order, b) \o g
    /\ inbox[h] \in Seq(StartAck(h)) /\ Len(inbox[h]) = b - a
    /\ UpTo(db.players, order, b)

GivesNumbers(h, order) ==
    /\ db.roundNum = 0
    /\ \A d \in Devices : screen[d] # "Sheet" /\ (d # h => Silent(d))
    /\ mainq[h] \in Seq(RoundBlock(h))
    /\ \E a, b \in 0..Len(order) : Progress(h, order, a, b)

(* ... and when the server has roundNum, every list that a device asks for *)
(* has all the players with their numbers.                                 *)
FullRoster(players, order) ==
    /\ Present(players) = {order[j] : j \in 1..Len(order)}
    /\ UpTo(players, order, Len(order))
StartWrite(order) == {StartWrites(order)[i] : i \in 1..(Len(order) + 1)}
LateMsg(d, h, order)  == RosterGet(d) \cup (IF d = h THEN StartWrite(order) ELSE {})
LateAnswer(d, order) == {a \in InMsg(d) : /\ a.op \in {"setNumber", "setRound", "roster"} /\ a.roundNum = 0
                                          /\ a.op = "roster" => FullRoster(a.players, order)}
LateBlock(d, order)  == {b \in BlockOf(d) : /\ b.op \in {"roundNum", "roster"}
                                            /\ b.op = "roster" => FullRoster(b.players, order)}
SeatIn(s, order) == /\ s.count = Len(order)
                    /\ s.number \in 1..Len(order) /\ order[s.number] = s.id

Ready(h, order) ==
    /\ FullRoster(db.players, order)
    /\ \A d \in Devices :
         /\ unacked[d] \in Seq(IF d = h THEN StartWrite(order) ELSE {})
         /\ outbox[d] \in Seq(LateMsg(d, h, order))
         /\ inbox[d] \in Seq(LateAnswer(d, order)) /\ mainq[d] \in Seq(LateBlock(d, order))
         /\ screen[d] = "Sheet" => SeatIn(seat[d], order)

Begun(h) ==
    \/ AskingToStart(h)
    \/ \E order \in SetToSeqs(Present(db.players)) : GivesNumbers(h, order) \/ Ready(h, order)

SeatsInv == ~ disturbed => Gathering \/ (starts > 0 /\ \E h \in Devices : Begun(h))

(* An order of a finite set has all of its elements.                       *)
LEMMA OrderHasAll ==
    ASSUME NEW S, IsFiniteSet(S), NEW order \in SetToSeqs(S)
    PROVE  S = {order[j] : j \in 1..Len(order)}
<1> DEFINE n == Len(order)
           T == {order[j] : j \in 1..n}
<1>1. /\ n \in Nat /\ n = Cardinality(S) /\ \A i \in 1..n : order[i] \in S
      /\ \A i, j \in 1..n : i # j => order[i] # order[j]
  BY OrderIs
<1> DEFINE f == [i \in 1..n |-> order[i]]
<1> HIDE DEF n
<1>2. T \subseteq S
  BY <1>1
<1>3. ExistsBijection(1..n, T)
  <2>1. f \in Bijection(1..n, T)
    BY <1>1 DEF Bijection, Injection, Surjection, IsInjective
  <2> QED
    BY <2>1, Zenon DEF ExistsBijection
<1>4. IsFiniteSet(1..n) /\ Cardinality(1..n) = n
  BY <1>1, FS_Interval
<1> HIDE DEF f, T
<1>5. IsFiniteSet(T) /\ Cardinality(T) = n
  BY <1>3, <1>4, FS_Bijection, Zenon
<1>6. T = S
  BY <1>1, <1>2, <1>5, FS_Subset
<1> QED
  BY <1>6 DEF T, n

(* An answer that says nothing of the start tells the listeners nothing.   *)
LEMMA HearsNothing ==
    ASSUME LobbyTypes, NEW d \in Devices, NEW bs \in Seq(BlockOf(d)), Hear(d, bs),
           Head(inbox[d]).roundNum = 0
    PROVE  MainIs(d, mainq[d] \o bs)
<1>1. Overheard(d) = {}
  BY DEF Overheard
<1>2. PICK order \in SetToSeqs({}) :
         Blocks(d, mainq[d] \o [i \in 1..Len(order) |-> [op |-> "roundNum", id |-> order[i]]] \o bs)
  BY <1>1 DEF Hear
<1>3. Len(order) = 0
  BY <1>2, OrderIs, FS_EmptySet
<1> DEFINE rs == [i \in 1..Len(order) |-> [op |-> "roundNum", id |-> order[i]]]
<1>4. rs = <<>>
  BY <1>3
<1>5. Blocks(d, (mainq[d] \o rs) \o bs)
  BY <1>2, Zenon DEF rs
<1> HIDE DEF rs
<1>6. mainq[d] \in Seq(BlockOf(d)) /\ OnDevices(mainq)
  BY DEF LobbyTypes, QueueTypes, MainTypes
<1>7. mainq[d] \o rs = mainq[d]
  BY <1>4, <1>6
<1> QED
  BY <1>5, <1>6, <1>7, SetIs DEF Blocks, MainIs

(* The listeners learn of no start as long as there is none.               *)
LEMMA NoRoundSeen ==
    ASSUME LobbyTypes, NEW d \in Devices, db.roundNum = 0,
           \A i \in 1..Len(unacked[d]) : unacked[d][i].op # "setRound"
    PROVE  LocalView(d).roundNum = 0
<1> DEFINE G == {g \in Game : g.roundNum = 0}
<1>1. db \in G /\ unacked[d] \in Seq(WriteMsg)
  BY DEF LobbyTypes, QueueTypes, UnTypes
<1>2. ASSUME NEW g \in G, NEW i \in 1..Len(unacked[d])
      PROVE  Stored(g, unacked[d][i]) \in G
  <2>1. PICK m \in WriteMsg : m = unacked[d][i]
    BY <1>1
  <2>2. m.op # "setRound" /\ m.op \in WriteOps
    BY <1>2, <2>1 DEF WriteMsg
  <2>3. Stored(g, m) \in Game
    BY StoredIsGame
  <2>4. Stored(g, m).roundNum = 0
    BY <2>2 DEF Stored, WriteOps, Game
  <2> QED
    BY <2>1, <2>3, <2>4
<1> HIDE DEF G
<1>3. LocalView(d) \in G
  BY <1>1, <1>2, LocalViewIn
<1> QED
  BY <1>3 DEF G

(* Until then a listener that is told of the players changes nothing that  *)
(* the phases are about.                                                   *)
LEMMA ListensInVain ==
    ASSUME NEW d \in Devices, LocalView(d).roundNum = 0, Listen(d)
    PROVE  UNCHANGED <<netVars, mainq, roomVars, starts, disturbed>>
BY DEF Listen, ToldRoundNum, ToldPlayers, tapVars

(* A step of one device keeps the first phase if it adds only what belongs *)
(* to it.                                                                  *)
LEMMA GatherKept ==
    ASSUME Gathering, NEW d \in Devices, starts' = starts, db'.roundNum = 0,
           \A e \in Devices : screen'[e] # "Sheet",
           NEW o \in Seq(EarlyMsg(d)), OutIs(d, o), NEW u \in Seq(EarlyWrite), UnIs(d, u),
           NEW i \in Seq(EarlyAnswer(d)), InIs(d, i), NEW q \in Seq(EarlyBlock(d)), MainIs(d, q)
    PROVE  Gathering'
<1>1. ASSUME NEW e \in Devices
      PROVE  /\ screen'[e] # "Sheet"
             /\ outbox'[e] \in Seq(EarlyMsg(e)) /\ unacked'[e] \in Seq(EarlyWrite)
             /\ inbox'[e] \in Seq(EarlyAnswer(e)) /\ mainq'[e] \in Seq(EarlyBlock(e))
  <2>1. CASE e = d
    BY <2>1 DEF OutIs, UnIs, InIs, MainIs, IsNow
  <2>2. CASE e # d
    BY <2>2 DEF OutIs, UnIs, InIs, MainIs, IsNow, Gathering
  <2> QED
    BY <2>1, <2>2
<1>2. starts' = 0
  BY DEF Gathering
<1> QED
  BY <1>1, <1>2 DEF Gathering

(* So does a local step that sends, writes and posts only that.            *)
LEMMA GatherLocal ==
    ASSUME Gathering, NEW d \in Devices, starts' = starts,
           \A e \in Devices : screen'[e] # "Sheet",
           NEW xs \in Seq(EarlyMsg(d)), NEW ms \in Seq(EarlyWrite), NEW bs, LocalStep(d, xs, ms, bs),
           NEW q \in Seq(EarlyBlock(d)), MainIs(d, q)
    PROVE  Gathering'
<1>1. /\ outbox[d] \in Seq(EarlyMsg(d)) /\ unacked[d] \in Seq(EarlyWrite)
      /\ inbox[d] \in Seq(EarlyAnswer(d)) /\ db.roundNum = 0
  BY DEF Gathering
<1>2. /\ OutIs(d, outbox[d] \o xs) /\ UnIs(d, unacked[d] \o ms) /\ db' = db
      /\ InIs(d, inbox[d]) \/ (inbox[d] # <<>> /\ InIs(d, Tail(inbox[d])))
  BY DEF LocalStep, Sends, Takes
<1>3. PICK i \in Seq(EarlyAnswer(d)) : InIs(d, i)
  <2>1. CASE inbox[d] # <<>> /\ InIs(d, Tail(inbox[d]))
    <3>1. Tail(inbox[d]) \in Seq(EarlyAnswer(d))
      BY <1>1, <2>1
    <3> QED
      BY <2>1, <3>1
  <2> QED
    BY <1>1, <1>2, <2>1
<1>4. PICK o, u : o = outbox[d] \o xs /\ u = unacked[d] \o ms
  OBVIOUS
<1>5. o \in Seq(EarlyMsg(d)) /\ u \in Seq(EarlyWrite)
  BY <1>1, <1>4
<1>6. OutIs(d, o) /\ UnIs(d, u) /\ db'.roundNum = 0
  BY <1>1, <1>2, <1>4
<1> QED
  BY <1>3, <1>5, <1>6, GatherKept

(* One message, or none, of the first phase.                               *)
LEMMA EarlyOnes ==
    ASSUME NEW d \in Devices
    PROVE  /\ \A m \in GetMsg(d) : m.op \in {"host", "join", "settings"} => <<m>> \in Seq(EarlyMsg(d))
           /\ \A m \in WriteMsg : m.op \in {"setGame", "setPlayer", "remove"} =>
                                     <<m>> \in Seq(EarlyMsg(d)) /\ <<m>> \in Seq(EarlyWrite)
           /\ <<>> \in Seq(EarlyMsg(d)) /\ <<>> \in Seq(EarlyWrite) /\ <<>> \in Seq(EarlyBlock(d))
           /\ \A id \in Mine(d, Id) : \A isHost \in BOOLEAN : Enters(id, isHost) \in Seq(EarlyBlock(d))
           /\ \A bs \in Seq(SettingsBlock(d)) : bs \in Seq(EarlyBlock(d))
<1>1. /\ \A m \in GetMsg(d) : m.op \in {"host", "join", "settings"} => m \in EarlyMsg(d)
      /\ \A m \in WriteMsg : m.op \in {"setGame", "setPlayer", "remove"} => m \in EarlyMsg(d) /\ m \in EarlyWrite
  BY DEF EarlyMsg, EarlyWrite, OutMsg, GatherOps
<1>2. ASSUME NEW id \in Mine(d, Id), NEW isHost \in BOOLEAN
      PROVE  [op |-> "enter", id |-> id, isHost |-> isHost] \in EarlyBlock(d)
  BY DEF EarlyBlock, BlockOf
<1>3. SettingsBlock(d) \subseteq EarlyBlock(d)
  BY DEF EarlyBlock, BlockOf, SettingsBlock
<1>4. \A bs \in Seq(SettingsBlock(d)) : bs \in Seq(EarlyBlock(d))
  BY <1>3, SeqOfMore
<1>5. \A id \in Mine(d, Id) : \A isHost \in BOOLEAN : Enters(id, isHost) \in Seq(EarlyBlock(d))
  BY <1>2, SeqOfOne DEF Enters
<1> QED
  BY <1>1, <1>4, <1>5, SeqOfOne

(* The taps before the start.                                              *)
LEMMA GatherTaps ==
    ASSUME LobbyTypes, Gathering, NEW d \in Devices, TapHost(d) \/ TapJoin(d) \/ TapLeave(d)
    PROVE  Gathering'
<1>1. /\ starts' = starts /\ mainq' = mainq /\ mainq[d] \in Seq(EarlyBlock(d)) /\ OnDevices(mainq)
      /\ \A e \in Devices : screen[e] # "Sheet" /\ screen \in [Devices -> {"Home", "WaitingRoom", "Sheet"}]
  BY DEF TapHost, TapJoin, TapLeave, tapVars, Gathering, LobbyTypes, RoomTypes, QueueTypes, MainTypes
<1>2. \A e \in Devices : screen'[e] # "Sheet"
  BY <1>1 DEF TapHost, TapJoin, TapLeave, roomVars
<1>3. MainIs(d, mainq[d])
  BY <1>1, SetIs DEF MainIs
<1>4. ASSUME NEW xs \in Seq(EarlyMsg(d)), NEW ms \in Seq(EarlyWrite), LocalStep(d, xs, ms, <<>>)
      PROVE  Gathering'
  BY <1>1, <1>2, <1>3, <1>4, GatherLocal
<1>5. <<>> \in Seq(EarlyMsg(d)) /\ <<>> \in Seq(EarlyWrite)
  BY EarlyOnes
<1>6. CASE TapHost(d)
  <2>1. PICK m : m = Get("host", <<d, taps[d] + 1>>)
    OBVIOUS
  <2>2. m \in GetMsg(d) /\ m.op = "host" /\ LocalStep(d, <<m>>, <<>>, <<>>)
    BY <1>6, <2>1, TapHostStep DEF Get, Msg
  <2> QED
    BY <1>4, <1>5, <2>2, EarlyOnes
<1>7. CASE TapJoin(d)
  <2>1. PICK m : m = Get("join", <<d, taps[d] + 1>>)
    OBVIOUS
  <2>2. m \in GetMsg(d) /\ m.op = "join" /\ LocalStep(d, <<m>>, <<>>, <<>>)
    BY <1>7, <2>1, TapJoinStep DEF Get, Msg
  <2> QED
    BY <1>4, <1>5, <2>2, EarlyOnes
<1>8. CASE TapLeave(d)
  <2>1. PICK m : m = Msg("remove", current[d], 0)
    OBVIOUS
  <2>2. /\ current[d] \in Mine(d, Id)
        /\ LocalStep(d, <<>>, <<>>, <<>>) \/ LocalStep(d, <<m>>, <<m>>, <<>>)
    BY <1>8, <2>1, TapLeaveStep
  <2>3. m \in WriteMsg /\ m.op = "remove"
    BY <2>1, <2>2, MsgIs, MineAre DEF WriteOps
  <2> QED
    BY <1>4, <1>5, <2>2, <2>3, EarlyOnes
<1> QED
  BY <1>6, <1>7, <1>8

(* The answers before the start.                                           *)
LEMMA GatherAnswers ==
    ASSUME LobbyTypes, Gathering, NEW d \in Devices, Complete(d), ~ AckWrite(d)
    PROVE  Gathering'
<1>1. /\ inbox[d] \in Seq(EarlyAnswer(d)) /\ mainq[d] \in Seq(EarlyBlock(d))
      /\ \A e \in Devices : screen[e] # "Sheet"
  BY DEF Gathering
<1>2. PICK a : a = Head(inbox[d])
  OBVIOUS
<1>3. inbox[d] # <<>> => a.op \in GatherOps /\ a.roundNum = 0
  BY <1>1, <1>2 DEF EarlyAnswer
<1>4. HostAnswered(d) \/ JoinAnswered(d) \/ SettingsAnswered(d)
  BY <1>2, <1>3 DEF Complete, StartAnswered, RosterAnswered, Answered, GatherOps
<1>5. /\ starts' = starts /\ \A e \in Devices : screen'[e] # "Sheet"
  BY <1>1, <1>4 DEF HostAnswered, JoinAnswered, SettingsAnswered, tapVars, roomVars
<1>6. /\ <<>> \in Seq(EarlyMsg(d)) /\ <<>> \in Seq(EarlyWrite) /\ <<>> \in Seq(EarlyBlock(d)) /\ <<>> \in Seq(BlockOf(d))
  BY EarlyOnes, SeqOfOne
<1>7. ASSUME NEW xs \in Seq(EarlyMsg(d)), NEW ms \in Seq(EarlyWrite), NEW bs, LocalStep(d, xs, ms, bs),
             NEW ss \in Seq(EarlyBlock(d)), MainIs(d, mainq[d] \o ss)
      PROVE  Gathering'
  <2>1. PICK q : q = mainq[d] \o ss
    OBVIOUS
  <2>2. q \in Seq(EarlyBlock(d)) /\ MainIs(d, q)
    BY <1>1, <1>7, <2>1
  <2> QED
    BY <1>5, <1>7, <2>2, GatherLocal
<1>8. CASE HostAnswered(d)
  <2>1. inbox[d] # <<>> /\ a.id \in Mine(d, Id)
    BY <1>2, <1>8, HostAnsweredStep
  <2>2. PICK rs : IF CodeIsFree(a)
                    THEN LocalStep(d, <<Msg("setGame", a.id, 0)>>, <<Msg("setGame", a.id, 0)>>, rs \o Enters(a.id, TRUE))
                    ELSE LocalStep(d, <<>>, <<>>, rs \o <<>>)
    BY <1>2, <1>8, HostAnsweredStep
  <2>3. IF CodeIsFree(a) THEN Hear(d, Enters(a.id, TRUE)) ELSE Hear(d, <<>>)
    BY <1>2, <1>8 DEF HostAnswered, Enters
  <2>4. Enters(a.id, TRUE) \in Seq(EarlyBlock(d)) /\ Enters(a.id, TRUE) \in Seq(BlockOf(d))
    BY <2>1, EarlyOnes, EntersAre
  <2>5. CASE CodeIsFree(a)
    <3>1. PICK m : m = Msg("setGame", a.id, 0)
      OBVIOUS
    <3>2. m \in WriteMsg /\ m.op = "setGame"
      BY <2>1, <3>1, MsgIs, MineAre DEF WriteOps
    <3>3. MainIs(d, mainq[d] \o Enters(a.id, TRUE))
      BY <1>2, <1>3, <2>1, <2>3, <2>4, <2>5, HearsNothing
    <3>4. <<m>> \in Seq(EarlyMsg(d)) /\ <<m>> \in Seq(EarlyWrite)
      BY <3>2, EarlyOnes
    <3>5. LocalStep(d, <<m>>, <<m>>, rs \o Enters(a.id, TRUE))
      BY <2>2, <2>5, <3>1
    <3> QED
      BY <1>7, <2>4, <3>3, <3>4, <3>5
  <2>6. CASE ~ CodeIsFree(a)
    <3>1. MainIs(d, mainq[d] \o <<>>)
      BY <1>2, <1>3, <1>6, <2>1, <2>3, <2>6, HearsNothing
    <3> QED
      BY <1>6, <1>7, <2>2, <2>6, <3>1
  <2> QED
    BY <2>5, <2>6
<1>9. CASE JoinAnswered(d)
  <2>1. inbox[d] # <<>> /\ a.id \in Mine(d, Id)
    BY <1>2, <1>9, JoinAnsweredStep
  <2>2. PICK rs : IF GameExists(a)
                    THEN LocalStep(d, <<Msg("setPlayer", a.id, 0)>>, <<Msg("setPlayer", a.id, 0)>>, rs \o Enters(a.id, FALSE))
                    ELSE LocalStep(d, <<>>, <<>>, rs \o <<>>)
    BY <1>2, <1>9, JoinAnsweredStep
  <2>3. IF GameExists(a) THEN Hear(d, Enters(a.id, FALSE)) ELSE Hear(d, <<>>)
    BY <1>2, <1>9 DEF JoinAnswered, Enters
  <2>4. Enters(a.id, FALSE) \in Seq(EarlyBlock(d)) /\ Enters(a.id, FALSE) \in Seq(BlockOf(d))
    BY <2>1, EarlyOnes, EntersAre
  <2>5. CASE GameExists(a)
    <3>1. PICK m : m = Msg("setPlayer", a.id, 0)
      OBVIOUS
    <3>2. m \in WriteMsg /\ m.op = "setPlayer"
      BY <2>1, <3>1, MsgIs, MineAre DEF WriteOps
    <3>3. MainIs(d, mainq[d] \o Enters(a.id, FALSE))
      BY <1>2, <1>3, <2>1, <2>3, <2>4, <2>5, HearsNothing
    <3>4. <<m>> \in Seq(EarlyMsg(d)) /\ <<m>> \in Seq(EarlyWrite)
      BY <3>2, EarlyOnes
    <3>5. LocalStep(d, <<m>>, <<m>>, rs \o Enters(a.id, FALSE))
      BY <2>2, <2>5, <3>1
    <3> QED
      BY <1>7, <2>4, <3>3, <3>4, <3>5
  <2>6. CASE ~ GameExists(a)
    <3>1. MainIs(d, mainq[d] \o <<>>)
      BY <1>2, <1>3, <1>6, <2>1, <2>3, <2>6, HearsNothing
    <3> QED
      BY <1>6, <1>7, <2>2, <2>6, <3>1
  <2> QED
    BY <2>5, <2>6
<1>10. CASE SettingsAnswered(d)
  <2>1. inbox[d] # <<>> /\ a.op = "settings" /\ a.id \in Mine(d, Id)
    <3>1. {"settings"} \subseteq GetOps
      BY DEF GetOps
    <3> QED
      BY <1>2, <1>10, <3>1, TakeTakes DEF SettingsAnswered
  <2>2. PICK rs, ss : LocalStep(d, <<>>, <<>>, rs \o ss)
    BY <1>10, SettingsAnsweredStep
  <2>3. PICK bs : bs = SettingsBlocks(a.id, a)
    OBVIOUS
  <2>4. bs \in Seq(SettingsBlock(d)) /\ bs \in Seq(BlockOf(d)) /\ Hear(d, bs)
    BY <1>2, <1>10, <2>1, <2>3, SettingsBlocksAre DEF SettingsAnswered
  <2>5. bs \in Seq(EarlyBlock(d)) /\ MainIs(d, mainq[d] \o bs)
    BY <1>2, <1>3, <2>1, <2>4, EarlyOnes, HearsNothing
  <2> QED
    BY <1>6, <1>7, <2>2, <2>5
<1> QED
  BY <1>4, <1>8, <1>9, <1>10

(* The same when it posts blocks that belong to the first phase.           *)
LEMMA GatherPosts ==
    ASSUME Gathering, NEW d \in Devices, starts' = starts,
           \A e \in Devices : screen'[e] # "Sheet",
           NEW xs \in Seq(EarlyMsg(d)), NEW ms \in Seq(EarlyWrite), NEW bs \in Seq(EarlyBlock(d)),
           LocalStep(d, xs, ms, bs)
    PROVE  Gathering'
<1>1. mainq[d] \in Seq(EarlyBlock(d))
  BY DEF Gathering
<1>2. MainIs(d, mainq[d] \o bs) \/ (mainq[d] # <<>> /\ MainIs(d, Tail(mainq[d]) \o bs))
  BY DEF LocalStep, Posts
<1>3. PICK q \in Seq(EarlyBlock(d)) : MainIs(d, q)
  <2>1. mainq[d] \o bs \in Seq(EarlyBlock(d))
    BY <1>1
  <2>2. mainq[d] # <<>> => Tail(mainq[d]) \o bs \in Seq(EarlyBlock(d))
    BY <1>1
  <2> QED
    BY <1>2, <2>1, <2>2
<1> QED
  BY <1>3, GatherLocal

(* The main queue and the listeners before the start.                      *)
LEMMA GatherMain ==
    ASSUME LobbyTypes, Gathering, NEW d \in Devices, Main(d)
    PROVE  Gathering'
<1>1. mainq[d] \in Seq(EarlyBlock(d)) /\ \A e \in Devices : screen[e] # "Sheet"
  BY DEF Gathering
<1>2. mainq[d] # <<>> => Head(mainq[d]).op \in {"enter", "settings"}
  BY <1>1 DEF EarlyBlock
<1>3. Enter(d) \/ UpdateGameSettings(d)
  BY <1>2 DEF Main, CheckRoundNum, HandlePlayers, Block
<1>4. screen \in [Devices -> {"Home", "WaitingRoom", "Sheet"}]
  BY DEF LobbyTypes, RoomTypes
<1>5. starts' = starts /\ \A e \in Devices : screen'[e] # "Sheet"
  BY <1>1, <1>3, <1>4 DEF Enter, UpdateGameSettings, tapVars
<1>6. <<>> \in Seq(EarlyMsg(d)) /\ <<>> \in Seq(EarlyWrite) /\ <<>> \in Seq(EarlyBlock(d))
  BY EarlyOnes
<1>7. CASE UpdateGameSettings(d)
  <2>1. LocalStep(d, <<>>, <<>>, <<>>)
    BY <1>7, UpdateGameSettingsStep
  <2> QED
    BY <1>5, <1>6, <2>1, GatherPosts
<1>8. CASE Enter(d)
  <2>1. CASE \E bs \in Seq(SettingsBlock(d)) : LocalStep(d, <<>>, <<>>, bs)
    <3>1. PICK bs \in Seq(SettingsBlock(d)) : LocalStep(d, <<>>, <<>>, bs)
      BY <2>1
    <3>2. bs \in Seq(EarlyBlock(d))
      BY EarlyOnes
    <3> QED
      BY <1>5, <1>6, <3>1, <3>2, GatherPosts
  <2>2. CASE \E id \in Mine(d, Id) : Get("settings", id) \in GetMsg(d)
                                       /\ LocalStep(d, <<Get("settings", id)>>, <<>>, <<>>)
    <3>1. PICK id \in Mine(d, Id) : Get("settings", id) \in GetMsg(d)
                                       /\ LocalStep(d, <<Get("settings", id)>>, <<>>, <<>>)
      BY <2>2
    <3>2. PICK m : m = Get("settings", id)
      OBVIOUS
    <3>3. m \in GetMsg(d) /\ m.op = "settings" /\ LocalStep(d, <<m>>, <<>>, <<>>)
      BY <3>1, <3>2 DEF Get, Msg
    <3>4. <<m>> \in Seq(EarlyMsg(d))
      BY <3>3, EarlyOnes
    <3> QED
      BY <1>5, <1>6, <3>3, <3>4, GatherPosts
  <2> QED
    BY <1>8, <2>1, <2>2, EnterStep
<1> QED
  BY <1>3, <1>7, <1>8

(* ... and the listeners have nothing to tell.                             *)
LEMMA GatherListens ==
    ASSUME LobbyTypes, Gathering, NEW d \in Devices, Listen(d)
    PROVE  Gathering'
<1>1. unacked[d] \in Seq(EarlyWrite) /\ db.roundNum = 0
  BY DEF Gathering
<1>2. \A i \in 1..Len(unacked[d]) : unacked[d][i].op # "setRound"
  BY <1>1 DEF EarlyWrite, GatherOps
<1>3. UNCHANGED <<netVars, mainq, roomVars, starts, disturbed>>
  BY <1>1, <1>2, NoRoundSeen, ListensInVain
<1> QED
  BY <1>3 DEF Gathering, netVars, roomVars

(* The connection before the start.                                        *)
LEMMA GatherNetwork ==
    ASSUME LobbyTypes, Mirror, Gathering, NEW d \in Devices,
           Deliver(d) \/ GetFails(d) \/ LoseConnection(d) \/ AckWrite(d)
    PROVE  Gathering'
<1>1. /\ outbox[d] \in Seq(EarlyMsg(d)) /\ unacked[d] \in Seq(EarlyWrite)
      /\ inbox[d] \in Seq(EarlyAnswer(d)) /\ mainq[d] \in Seq(EarlyBlock(d))
      /\ \A e \in Devices : screen[e] # "Sheet"
      /\ db.roundNum = 0 /\ db \in Game
  BY DEF Gathering, LobbyTypes
<1>2. OnDevices(outbox) /\ OnDevices(unacked) /\ OnDevices(inbox) /\ OnDevices(mainq)
  BY DEF LobbyTypes, QueueTypes, OutTypes, UnTypes, InTypes, MainTypes
<1>3. /\ starts' = starts /\ \A e \in Devices : screen'[e] # "Sheet"
      /\ mainq' = mainq /\ MainIs(d, mainq[d])
  <2>1. starts' = starts /\ mainq' = mainq /\ screen' = screen
    BY DEF Deliver, GetFails, LoseConnection, AckWrite, tapVars, roomVars
  <2> QED
    BY <1>1, <1>2, <2>1, SetIs DEF MainIs
<1>4. ASSUME NEW o \in Seq(EarlyMsg(d)), OutIs(d, o), NEW u \in Seq(EarlyWrite), UnIs(d, u),
             NEW i \in Seq(EarlyAnswer(d)), InIs(d, i), db'.roundNum = 0
      PROVE  Gathering'
  BY <1>1, <1>3, <1>4, GatherKept
<1>5. CASE Deliver(d)
  <2>1. PICK m : m = Head(outbox[d])
    OBVIOUS
  <2>2. /\ outbox[d] # <<>> /\ m \in OutMsg(d) /\ m \in EarlyMsg(d)
        /\ OutIs(d, Tail(outbox[d])) /\ InIs(d, Append(inbox[d], Answer(m))) /\ Answer(m) \in InMsg(d)
        /\ unacked' = unacked /\ db' = IF IsGet(m) THEN db ELSE Stored(db, m)
    BY <1>1, <1>5, <2>1, DeliverStep
  <2>3. Answer(m).op = m.op /\ Answer(m).roundNum = 0
    BY <1>1 DEF Answer
  <2>4. Answer(m) \in EarlyAnswer(d)
    BY <2>2, <2>3 DEF EarlyAnswer, EarlyMsg
  <2>5. PICK i : i = Append(inbox[d], Answer(m))
    OBVIOUS
  <2>6. i \in Seq(EarlyAnswer(d)) /\ InIs(d, i)
    BY <1>1, <2>2, <2>4, <2>5
  <2>7. Tail(outbox[d]) \in Seq(EarlyMsg(d)) /\ UnIs(d, unacked[d])
    BY <1>1, <1>2, <2>2, SetIs DEF UnIs
  <2>8. db'.roundNum = 0
    <3>1. m.op \in {"setGame", "setPlayer", "remove"} => Stored(db, m).roundNum = 0
      BY <1>1 DEF Stored, Game
    <3>2. IsGet(m) \/ m.op \in {"setGame", "setPlayer", "remove"}
      BY <2>2 DEF EarlyMsg, GatherOps, IsGet, GetOps
    <3> QED
      BY <1>1, <2>2, <3>1, <3>2
  <2> QED
    BY <1>1, <1>4, <2>2, <2>6, <2>7, <2>8
<1>6. CASE GetFails(d)
  <2>1. /\ outbox[d] # <<>> /\ OutIs(d, Tail(outbox[d])) /\ unacked' = unacked /\ inbox' = inbox /\ db' = db
    BY <1>6, GetFailsStep
  <2>2. Tail(outbox[d]) \in Seq(EarlyMsg(d))
    BY <1>1, <2>1
  <2>3. UnIs(d, unacked[d]) /\ InIs(d, inbox[d])
    BY <1>2, <2>1, SetIs DEF UnIs, InIs
  <2> QED
    BY <1>1, <1>4, <2>1, <2>2, <2>3
<1>7. CASE LoseConnection(d)
  <2>1. /\ OutIs(d, unacked[d]) /\ InIs(d, <<>>) /\ unacked' = unacked /\ db' = db
    BY <1>7, LoseConnectionStep
  <2>2. EarlyWrite \subseteq EarlyMsg(d)
    BY DEF EarlyWrite, EarlyMsg, OutMsg
  <2>3. unacked[d] \in Seq(EarlyMsg(d)) /\ <<>> \in Seq(EarlyAnswer(d)) /\ UnIs(d, unacked[d])
    BY <1>1, <1>2, <2>1, <2>2, SeqOfMore, SetIs DEF UnIs
  <2> QED
    BY <1>1, <1>4, <2>1, <2>3
<1>8. CASE AckWrite(d)
  <2>1. /\ inbox[d] # <<>> /\ unacked[d] # <<>> /\ InIs(d, Tail(inbox[d])) /\ UnIs(d, Tail(unacked[d]))
        /\ outbox' = outbox /\ db' = db
    BY <1>8, AckWriteStep
  <2>2. /\ Tail(inbox[d]) \in Seq(EarlyAnswer(d)) /\ Tail(unacked[d]) \in Seq(EarlyWrite)
        /\ OutIs(d, outbox[d])
    BY <1>1, <1>2, <2>1, SetIs DEF OutIs
  <2> QED
    BY <1>1, <1>4, <2>1, <2>2
<1> QED
  BY <1>5, <1>6, <1>7, <1>8

(* Start is tapped when nothing is under way: the host's question is all   *)
(* there is.                                                               *)
LEMMA GatherStarts ==
    ASSUME LobbyTypes, Gathering, NEW d \in Devices, TapStart(d), ~ disturbed'
    PROVE  starts' > 0 /\ AskingToStart(d)'
<1>1. starts' > 0 /\ \A e \in Devices : ~ Unsettled(e)
  <2>1. starts = 0 /\ starts' = starts + 1
    BY DEF TapStart, Gathering
  <2>2. \A e \in Devices : ~ Unsettled(e)
    BY DEF TapStart
  <2> QED
    BY <2>1, <2>2
<1>2. ASSUME NEW e \in Devices PROVE Silent(e)
  <2>1. /\ outbox[e] \in Seq(EarlyMsg(e)) /\ unacked[e] \in Seq(EarlyWrite)
        /\ inbox[e] \in Seq(EarlyAnswer(e)) /\ mainq[e] \in Seq(EarlyBlock(e))
    BY DEF Gathering
  <2> DEFINE ops == {"host", "join", "settings", "setGame", "setPlayer", "remove", "enter"}
  <2>2. ~ Waits(outbox[e], ops) /\ ~ Waits(inbox[e], ops) /\ ~ Waits(unacked[e], ops) /\ ~ Waits(mainq[e], ops)
    BY <1>1 DEF Unsettled
  <2>3. \A S : \A q \in Seq(S) : ~ Waits(q, ops) /\ (\A m \in S : m.op \in ops) => q = <<>>
    <3> SUFFICES ASSUME NEW S, NEW q \in Seq(S), ~ Waits(q, ops), \A m \in S : m.op \in ops, q # <<>>
                 PROVE  FALSE
      OBVIOUS
    <3>1. 1 \in 1..Len(q) /\ q[1] \in S
      OBVIOUS
    <3> QED
      BY <3>1 DEF Waits
  <2>4. /\ \A m \in EarlyMsg(e) : m.op \in ops
        /\ \A m \in EarlyWrite : m.op \in ops
        /\ \A m \in EarlyAnswer(e) : m.op \in ops
    BY DEF EarlyMsg, EarlyWrite, EarlyAnswer, GatherOps
  <2>5. \A m \in EarlyBlock(e) : m.op \in ops
    BY DEF EarlyBlock
  <2>6. outbox[e] = <<>> /\ unacked[e] = <<>>
    BY <2>1, <2>2, <2>3, <2>4, Zenon
  <2>7. inbox[e] = <<>> /\ mainq[e] = <<>>
    BY <2>1, <2>2, <2>3, <2>4, <2>5, Zenon
  <2> QED
    BY <2>6, <2>7 DEF Silent
<1>3. unacked[d] = <<>> /\ outbox[d] = <<>> /\ inbox[d] = <<>> /\ mainq[d] = <<>>
  BY <1>2 DEF Silent
<1>4. ~ Shadowed(d)
  BY <1>3, EmptyHasNone DEF Shadowed
<1>5. /\ db' = db /\ inbox' = inbox /\ mainq' = mainq /\ screen' = screen
      /\ (UNCHANGED <<outbox, unacked>>) \/ (current[d] \in settings /\ Ask(d, Get("start", current[d])))
  BY <1>4 DEF TapStart, roomVars
<1>6. db.roundNum = 0 /\ \A e \in Devices : screen[e] # "Sheet"
  BY DEF Gathering
<1>7. /\ OnDevices(outbox) /\ current[d] \in Mine(d, Id)
  BY DEF LobbyTypes, QueueTypes, OutTypes, RoomTypes, TapStart
<1>8. CASE UNCHANGED <<outbox, unacked>>
  BY <1>1, <1>2, <1>3, <1>5, <1>6, <1>8 DEF AskingToStart, Silent
<1>9. CASE Ask(d, Get("start", current[d]))
  <2>1. PICK m : m = Get("start", current[d])
    OBVIOUS
  <2>2. m \in StartGet(d)
    BY <1>7, <2>1, GetIs DEF StartGet, GetOps
  <2>3. unacked' = unacked /\ outbox' = [outbox EXCEPT ![d] = Append(outbox[d], m)]
    BY <1>9, <2>1 DEF Ask
  <2>4. OutIs(d, Append(outbox[d], m))
    BY <1>7, <2>3, SetIs DEF OutIs
  <2>5. Append(outbox[d], m) = <<m>>
    BY <1>3
  <2>6. outbox'[d] = <<m>> /\ \A e \in Devices : e # d => outbox'[e] = outbox[e]
    BY <2>4, <2>5 DEF OutIs, IsNow
  <2>7. \A e \in Devices : screen'[e] # "Sheet" /\ (e # d => Silent(e)')
    BY <1>2, <1>5, <1>6, <2>3, <2>6 DEF Silent
  <2> QED
    BY <1>1, <1>3, <1>5, <1>6, <2>2, <2>3, <2>6, <2>7 DEF AskingToStart
<1> QED
  BY <1>5, <1>8, <1>9

(* After the start only the devices and their connections do anything.     *)
LEMMA AfterStart ==
    ASSUME LobbyTypes, starts > 0, Next, ~ disturbed'
    PROVE  \E d \in Devices : Work(d) \/ GetFails(d) \/ LoseConnection(d)
<1>1. PICK d \in Devices : Tap(d) \/ Work(d) \/ GetFails(d) \/ LoseConnection(d)
  BY DEF Next
<1>2. ~ Tap(d)
  BY DEF Tap, TapHost, TapJoin, TapStart, TapLeave
<1> QED
  BY <1>1, <1>2

(* ... and they leave the history alone.                                   *)
LEMMA WorkKeeps ==
    ASSUME NEW d \in Devices, Work(d) \/ GetFails(d) \/ LoseConnection(d)
    PROVE  starts' = starts /\ disturbed' = disturbed
<1>1. CASE Deliver(d) \/ GetFails(d) \/ LoseConnection(d)
  BY <1>1 DEF Deliver, GetFails, LoseConnection, tapVars
<1>2. CASE Complete(d)
  BY <1>2 DEF Complete, AckWrite, HostAnswered, JoinAnswered, SettingsAnswered, StartAnswered,
              RosterAnswered, tapVars
<1>3. CASE Listen(d)
  BY <1>3 DEF Listen, ToldRoundNum, ToldPlayers, tapVars
<1>4. CASE Main(d)
  BY <1>4 DEF Main, Enter, UpdateGameSettings, CheckRoundNum, HandlePlayers, tapVars
<1> QED
  BY <1>1, <1>2, <1>3, <1>4 DEF Work

(* A silent device does nothing before roundNum is stored.                 *)
LEMMA SilentStays ==
    ASSUME LobbyTypes, NEW d \in Devices, Silent(d), db.roundNum = 0,
           Work(d) \/ GetFails(d) \/ LoseConnection(d)
    PROVE  UNCHANGED <<netVars, mainq, roomVars>>
<1>1. Listen(d)
  <2>1. outbox[d] = <<>> /\ inbox[d] = <<>> /\ mainq[d] = <<>>
    BY DEF Silent
  <2>2. ~ Deliver(d) /\ ~ GetFails(d) /\ ~ LoseConnection(d)
    BY <2>1 DEF Deliver, GetFails, LoseConnection
  <2>3. ~ Complete(d)
    BY <2>1 DEF Complete, AckWrite, HostAnswered, JoinAnswered, SettingsAnswered, StartAnswered,
                RosterAnswered, Answered
  <2>4. ~ Main(d)
    BY <2>1 DEF Main, Enter, UpdateGameSettings, CheckRoundNum, HandlePlayers, Block
  <2> QED
    BY <2>2, <2>3, <2>4 DEF Work
<1>2. Len(unacked[d]) = 0
  BY DEF Silent
<1>3. \A i \in 1..Len(unacked[d]) : unacked[d][i].op # "setRound"
  BY <1>2
<1> QED
  BY <1>1, <1>3, NoRoundSeen, ListensInVain

(* What is left of the writes of a start.                                  *)
LEMMA RestIs ==
    ASSUME NEW players, NEW order \in SetToSeqs(Present(players)), NEW k \in 0..Len(order)
    PROVE  /\ Len(order) \in Nat
           /\ Rest(order, k) \in Seq(WriteMsg) /\ Rest(order, k) # <<>>
           /\ Rest(order, k) \in Seq(StartWrite(order))
           /\ Head(Rest(order, k)) = StartWrites(order)[k + 1]
           /\ k < Len(order) => Tail(Rest(order, k)) = Rest(order, k + 1)
           /\ k = Len(order) => Tail(Rest(order, k)) = <<>>
           /\ Rest(order, 0) = StartWrites(order)
<1> DEFINE n == Len(order)
<1>1. PICK W : W = StartWrites(order)
  OBVIOUS
<1>2. W \in Seq(WriteMsg) /\ n \in Nat /\ Len(W) = n + 1
  BY <1>1, StartWritesAre
<1>3. W \in Seq(StartWrite(order))
  BY <1>1, <1>2 DEF StartWrite
<1>4. Rest(order, k) = SubSeq(W, k + 1, n + 1) /\ Rest(order, 0) = SubSeq(W, 1, n + 1)
  BY <1>1 DEF Rest
<1> HIDE DEF n
<1>5. k \in 0..n
  BY DEF n
<1>6. /\ SubSeq(W, k + 1, n + 1) \in Seq(WriteMsg) /\ SubSeq(W, k + 1, n + 1) # <<>>
      /\ Head(SubSeq(W, k + 1, n + 1)) = W[k + 1]
  BY <1>2, <1>5
<1>7. SubSeq(W, k + 1, n + 1) \in Seq(StartWrite(order))
  BY <1>2, <1>3, <1>5
<1>8. SubSeq(W, 1, n + 1) = W
  BY <1>2
<1>9. ASSUME k < n PROVE Tail(Rest(order, k)) = Rest(order, k + 1)
  <2>1. Rest(order, k + 1) = SubSeq(W, k + 2, n + 1)
    BY <1>1, <1>2, <1>5 DEF Rest, n
  <2>2. Tail(SubSeq(W, k + 1, n + 1)) = SubSeq(W, k + 2, n + 1)
    BY <1>2, <1>5, <1>9
  <2> QED
    BY <1>4, <2>1, <2>2
<1>10. ASSUME k = n PROVE Tail(Rest(order, k)) = <<>>
  BY <1>2, <1>4, <1>5, <1>10
<1> QED
  BY <1>1, <1>2, <1>4, <1>6, <1>7, <1>8, <1>9, <1>10 DEF n

(* The host's question stays alone when the host's queues change like this. *)
LEMMA AskingKept ==
    ASSUME NEW h \in Devices, AskingToStart(h), db' = db, screen' = screen,
           NEW o, OutIs(h, o), UnIs(h, <<>>), NEW i, InIs(h, i), MainIs(h, <<>>),
           \/ o = <<>> /\ i = <<>>
           \/ i = <<>> /\ \E m \in StartGet(h) : o = <<m>>
           \/ o = <<>> /\ \E a \in StartAnswer(h, db.players) : i = <<a>>
    PROVE  AskingToStart(h)'
<1>1. /\ outbox'[h] = o /\ unacked'[h] = <<>> /\ inbox'[h] = i /\ mainq'[h] = <<>>
      /\ \A d \in Devices : d # h => /\ outbox'[d] = outbox[d] /\ unacked'[d] = unacked[d]
                                     /\ inbox'[d] = inbox[d] /\ mainq'[d] = mainq[d]
  BY DEF OutIs, UnIs, InIs, MainIs, IsNow
<1>2. ASSUME NEW d \in Devices PROVE screen'[d] # "Sheet" /\ (d # h => Silent(d)')
  BY <1>1 DEF AskingToStart, Silent
<1>3. db'.roundNum = 0 /\ StartAnswer(h, db'.players) = StartAnswer(h, db.players)
  BY DEF AskingToStart
<1> QED
  BY <1>1, <1>2, <1>3 DEF AskingToStart, StartGet, StartAnswer

(* The answer gives the numbers out.                                       *)
LEMMA AskingAnswered ==
    ASSUME LobbyTypes, NEW h \in Devices, AskingToStart(h), StartAnswered(h)
    PROVE  Begun(h)'
<1>1. /\ unacked[h] = <<>> /\ mainq[h] = <<>> /\ db.roundNum = 0
      /\ \A d \in Devices : screen[d] # "Sheet" /\ (d # h => Silent(d))
  BY DEF AskingToStart
<1>2. /\ inbox[h] # <<>> /\ InIs(h, Tail(inbox[h]))
  BY StartAnsweredStep
<1>3. PICK a \in StartAnswer(h, db.players) : inbox[h] = <<a>> /\ outbox[h] = <<>>
  BY <1>2 DEF AskingToStart
<1>4. Head(inbox[h]) = a /\ Tail(inbox[h]) = <<>> /\ a.players = db.players /\ a.roundNum = 0
  BY <1>3 DEF StartAnswer
<1>5. InIs(h, <<>>)
  BY <1>2, <1>4
<1>6. MainIs(h, <<>>)
  <2>1. Hear(h, <<>>) /\ <<>> \in Seq(BlockOf(h))
    BY DEF StartAnswered
  <2>2. MainIs(h, mainq[h] \o <<>>)
    BY <1>4, <2>1, HearsNothing
  <2> QED
    BY <1>1, <2>2
<1>7. db' = db /\ screen' = screen /\ seat' = seat
  BY DEF StartAnswered, roomVars
<1>8. CASE Present(db.players) = {}
  <2>1. outbox' = outbox /\ unacked' = unacked /\ OnDevices(outbox) /\ OnDevices(unacked)
    BY <1>4, <1>8 DEF StartAnswered, NumberPlayers, LobbyTypes, QueueTypes, OutTypes, UnTypes
  <2>2. OutIs(h, <<>>) /\ UnIs(h, <<>>)
    BY <1>1, <1>3, <2>1, SetIs DEF OutIs, UnIs
  <2> QED
    BY <1>5, <1>6, <1>7, <2>2, AskingKept DEF Begun
<1>9. CASE Present(db.players) # {}
  <2>1. PICK order \in SetToSeqs(Present(db.players)) : Write(h, StartWrites(order))
    BY <1>4, <1>9 DEF StartAnswered, NumberPlayers
  <2>2. PICK W : W = StartWrites(order)
    OBVIOUS
  <2>3. W \in Seq(WriteMsg) /\ Len(order) \in Nat
    BY <2>2, StartWritesAre
  <2>4. OnDevices(outbox) /\ OnDevices(unacked)
    BY DEF LobbyTypes, QueueTypes, OutTypes, UnTypes
  <2>5. OutIs(h, outbox[h] \o W) /\ UnIs(h, unacked[h] \o W)
    BY <2>1, <2>2, <2>4, SetIs DEF Write, OutIs, UnIs
  <2>6. outbox[h] \o W = W /\ unacked[h] \o W = W
    BY <1>1, <1>3, <2>3
  <2>7. /\ outbox'[h] = W /\ unacked'[h] = W /\ inbox'[h] = <<>> /\ mainq'[h] = <<>>
        /\ \A d \in Devices : d # h => /\ outbox'[d] = outbox[d] /\ unacked'[d] = unacked[d]
                                       /\ inbox'[d] = inbox[d] /\ mainq'[d] = mainq[d]
    BY <1>5, <1>6, <2>5, <2>6 DEF OutIs, UnIs, InIs, MainIs, IsNow
  <2>8. \A d \in Devices : screen'[d] # "Sheet" /\ (d # h => Silent(d)')
    BY <1>1, <1>7, <2>7 DEF Silent
  <2>9. Progress(h, order, 0, 0)'
    <3>1. Rest(order, 0) = W
      <4>1. 0 \in 0..Len(order)
        BY <2>3
      <4> QED
        BY <2>2, <4>1, RestIs
    <3>2. <<>> \in Seq(RosterGet(h)) /\ W = W \o <<>>
      BY <2>3
    <3>3. \E g \in Seq(RosterGet(h)) : outbox'[h] = Rest(order, 0) \o g
      BY <2>7, <3>1, <3>2
    <3>4. inbox'[h] \in Seq(StartAck(h)) /\ Len(inbox'[h]) = 0 - 0
      BY <2>7
    <3>5. UpTo(db'.players, order, 0)
      BY DEF UpTo
    <3> QED
      BY <2>7, <3>1, <3>3, <3>4, <3>5 DEF Progress, RosterGet, StartAck
  <2>10. GivesNumbers(h, order)'
    <3>1. mainq'[h] \in Seq(RoundBlock(h)) /\ 0 \in 0..Len(order)
      BY <2>3, <2>7
    <3> QED
      BY <1>1, <1>7, <2>8, <2>9, <3>1 DEF GivesNumbers
  <2> QED
    BY <1>7, <2>10 DEF Begun
<1> QED
  BY <1>8, <1>9

(* The steps while the host's question is all there is.                    *)
LEMMA AskingNext ==
    ASSUME LobbyTypes, NEW h \in Devices, AskingToStart(h), NEW d \in Devices,
           Work(d) \/ GetFails(d) \/ LoseConnection(d)
    PROVE  Begun(h)'
<1>1. /\ unacked[h] = <<>> /\ mainq[h] = <<>> /\ db.roundNum = 0
      /\ \A e \in Devices : e # h => Silent(e)
  BY DEF AskingToStart
<1>2. ASSUME UNCHANGED <<netVars, mainq, roomVars>> PROVE Begun(h)'
  BY <1>2 DEF Begun, AskingToStart, Silent, netVars, roomVars
<1>3. CASE d # h
  BY <1>1, <1>2, <1>3, SilentStays
<1>4. ASSUME d = h, Listen(h) PROVE Begun(h)'
  <2>1. Len(unacked[h]) = 0
    BY <1>1
  <2>2. \A i \in 1..Len(unacked[h]) : unacked[h][i].op # "setRound"
    BY <2>1
  <2> QED
    BY <1>1, <1>2, <1>4, <2>2, NoRoundSeen, ListensInVain
<1>5. ~ Main(h)
  BY <1>1 DEF Main, Enter, UpdateGameSettings, CheckRoundNum, HandlePlayers, Block
<1>6. ASSUME d = h, Complete(h) PROVE Begun(h)'
  <2>1. inbox[h] # <<>>
    BY <1>6 DEF Complete, AckWrite, HostAnswered, JoinAnswered, SettingsAnswered, StartAnswered,
                RosterAnswered, Answered
  <2>2. PICK a \in StartAnswer(h, db.players) : inbox[h] = <<a>>
    BY <2>1 DEF AskingToStart
  <2>3. Head(inbox[h]).op = "start"
    BY <2>2 DEF StartAnswer
  <2>4. StartAnswered(h)
    BY <1>6, <2>3 DEF Complete, AckWrite, HostAnswered, JoinAnswered, SettingsAnswered,
                      RosterAnswered, Answered, WriteOps
  <2> QED
    BY <2>4, AskingAnswered
<1>7. /\ OnDevices(outbox) /\ OnDevices(unacked) /\ OnDevices(inbox) /\ OnDevices(mainq) /\ db \in Game
  BY DEF LobbyTypes, QueueTypes, OutTypes, UnTypes, InTypes, MainTypes
<1>8. ASSUME unacked' = unacked, mainq' = mainq PROVE UnIs(h, <<>>) /\ MainIs(h, <<>>)
  BY <1>1, <1>7, <1>8, SetIs DEF UnIs, MainIs
<1>9. ASSUME d = h, Deliver(h) \/ GetFails(h) \/ LoseConnection(h) PROVE Begun(h)'
  <2>1. /\ unacked' = unacked /\ mainq' = mainq /\ screen' = screen
        /\ GetFails(h) \/ LoseConnection(h) => db' = db
    BY <1>9 DEF Deliver, GetFails, LoseConnection, roomVars
  <2>2. UnIs(h, <<>>) /\ MainIs(h, <<>>)
    BY <1>8, <2>1
  <2>3. CASE LoseConnection(h)
    <3>1. OutIs(h, <<>>) /\ InIs(h, <<>>) /\ db' = db
      BY <1>1, <2>3, LoseConnectionStep
    <3> QED
      BY <2>1, <2>2, <3>1, AskingKept DEF Begun
  <2>4. ASSUME outbox[h] # <<>> PROVE \E m \in StartGet(h) : outbox[h] = <<m>> /\ inbox[h] = <<>>
    BY <2>4 DEF AskingToStart
  <2>5. CASE GetFails(h)
    <3>1. outbox[h] # <<>> /\ OutIs(h, Tail(outbox[h])) /\ inbox' = inbox /\ db' = db
      BY <2>5, GetFailsStep
    <3>2. PICK m \in StartGet(h) : outbox[h] = <<m>> /\ inbox[h] = <<>>
      BY <2>4, <3>1
    <3>3. OutIs(h, <<>>)
      BY <3>1, <3>2
    <3>4. InIs(h, <<>>)
      BY <1>7, <3>1, <3>2, SetIs DEF InIs
    <3> QED
      BY <2>1, <2>2, <3>1, <3>3, <3>4, AskingKept DEF Begun
  <2>6. CASE Deliver(h)
    <3>1. /\ outbox[h] # <<>> /\ OutIs(h, Tail(outbox[h])) /\ InIs(h, Append(inbox[h], Answer(Head(outbox[h]))))
          /\ Answer(Head(outbox[h])) \in InMsg(h)
          /\ db' = IF IsGet(Head(outbox[h])) THEN db ELSE Stored(db, Head(outbox[h]))
      BY <2>6, DeliverStep
    <3>2. PICK m \in StartGet(h) : outbox[h] = <<m>> /\ inbox[h] = <<>>
      BY <2>4, <3>1
    <3>3. Head(outbox[h]) = m /\ Tail(outbox[h]) = <<>> /\ m.op = "start" /\ IsGet(m)
      BY <3>2 DEF StartGet, IsGet, GetOps
    <3>4. PICK a : a = Answer(m)
      OBVIOUS
    <3>5. a \in StartAnswer(h, db.players)
      BY <1>1, <3>1, <3>3, <3>4 DEF Answer, StartAnswer
    <3>6. OutIs(h, <<>>) /\ db' = db
      BY <3>1, <3>3
    <3>7. Append(inbox[h], a) = <<a>>
      BY <3>2
    <3>8. InIs(h, <<a>>)
      BY <3>1, <3>3, <3>4, <3>7
    <3> QED
      BY <2>1, <2>2, <3>5, <3>6, <3>8, AskingKept DEF Begun
  <2> QED
    BY <1>9, <2>3, <2>5, <2>6
<1> QED
  BY <1>3, <1>4, <1>5, <1>6, <1>9 DEF Work

(* The numbering goes on when the host's queues change like this.          *)
LEMMA GivesKept ==
    ASSUME NEW h \in Devices, NEW order \in SetToSeqs(Present(db.players)), GivesNumbers(h, order),
           db'.roundNum = 0, Present(db'.players) = Present(db.players), screen' = screen,
           NEW a \in 0..Len(order), NEW b \in 0..Len(order), UpTo(db'.players, order, b),
           NEW g \in Seq(RosterGet(h)), OutIs(h, Rest(order, b) \o g), UnIs(h, Rest(order, a)),
           NEW i \in Seq(StartAck(h)), Len(i) = b - a, InIs(h, i),
           NEW q \in Seq(RoundBlock(h)), MainIs(h, q)
    PROVE  Begun(h)'
<1>1. /\ outbox'[h] = Rest(order, b) \o g /\ unacked'[h] = Rest(order, a) /\ inbox'[h] = i /\ mainq'[h] = q
      /\ \A d \in Devices : d # h => /\ outbox'[d] = outbox[d] /\ unacked'[d] = unacked[d]
                                     /\ inbox'[d] = inbox[d] /\ mainq'[d] = mainq[d]
  BY DEF OutIs, UnIs, InIs, MainIs, IsNow
<1>2. ASSUME NEW d \in Devices PROVE screen'[d] # "Sheet" /\ (d # h => Silent(d)')
  BY <1>1 DEF GivesNumbers, Silent
<1>3. Progress(h, order, a, b)'
  BY <1>1 DEF Progress, RosterGet, StartAck
<1>4. GivesNumbers(h, order)'
  BY <1>1, <1>2, <1>3 DEF GivesNumbers, RoundBlock
<1> QED
  BY <1>4 DEF Begun

(* A write of a start.                                                     *)
LEMMA StartWriteIs ==
    ASSUME NEW players \in [Id -> Entry], NEW order \in SetToSeqs(Present(players)), NEW m \in StartWrite(order)
    PROVE  /\ m \in WriteMsg /\ m.op \in {"setNumber", "setRound"} /\ ~ IsGet(m)
           /\ m.op = "setNumber" => \E j \in 1..Len(order) : m = Msg("setNumber", order[j], j) /\ order[j] \in Id
           /\ m.op = "setRound" => m = Msg("setRound", NoId, 1)
<1>1. /\ StartWrites(order) \in Seq(WriteMsg)
      /\ Len(order) \in Nat /\ Len(StartWrites(order)) = Len(order) + 1
      /\ \A i \in 1..Len(order) : StartWrites(order)[i] = Msg("setNumber", order[i], i) /\ order[i] \in Id
      /\ StartWrites(order)[Len(order) + 1] = Msg("setRound", NoId, 1)
  BY StartWritesAre
<1>2. PICK i \in 1..(Len(order) + 1) : m = StartWrites(order)[i]
  BY DEF StartWrite
<1>3. m \in WriteMsg
  BY <1>1, <1>2
<1>4. CASE i \in 1..Len(order)
  <2>1. m = Msg("setNumber", order[i], i) /\ order[i] \in Id
    BY <1>1, <1>2, <1>4
  <2>2. m.op = "setNumber" /\ m.op # "setRound" /\ ~ IsGet(m)
    BY <2>1 DEF Msg, IsGet, GetOps
  <2> QED
    BY <1>3, <1>4, <2>1, <2>2, Zenon
<1>5. CASE i = Len(order) + 1
  <2>1. m = Msg("setRound", NoId, 1)
    BY <1>1, <1>2, <1>5
  <2>2. m.op = "setRound" /\ m.op # "setNumber" /\ ~ IsGet(m)
    BY <2>1 DEF Msg, IsGet, GetOps
  <2> QED
    BY <1>3, <2>1, <2>2
<1> QED
  BY <1>1, <1>4, <1>5

(* A number that a start stores, in an entry of the list.                  *)
LEMMA NumberStored ==
    ASSUME NEW game \in Game, NEW order \in SetToSeqs(Present(game.players)), NEW j \in 1..Len(order),
           NEW m, m = Msg("setNumber", order[j], j)
    PROVE  /\ Stored(game, m).roundNum = game.roundNum
           /\ Present(Stored(game, m).players) = Present(game.players)
           /\ Stored(game, m).players[order[j]].number = j
           /\ \A id \in Id : id # order[j] => Stored(game, m).players[id] = game.players[id]
<1>1. Len(order) \in Nat /\ order[j] \in Id /\ game.players[order[j]] # Absent
  BY FinitePresent, OrderIs DEF Present
<1>2. game.players \in [Id -> Entry]
  BY DEF Game
<1>3. PICK p : p = game.players
  OBVIOUS
<1>4. Stored(game, m) = [game EXCEPT !.players = [p EXCEPT ![order[j]] = [p[order[j]] EXCEPT !.number = j]]]
  BY <1>3 DEF Stored, Msg
<1>5. PICK x : x = order[j]
  OBVIOUS
<1>6. PICK r : r = [p EXCEPT ![x] = [p[x] EXCEPT !.number = j]]
  OBVIOUS
<1>7. Stored(game, m).roundNum = game.roundNum /\ Stored(game, m).players = r
  BY <1>4, <1>5, <1>6 DEF Game
<1>8. /\ r[x].number = j /\ \A id \in Id : id # x => r[id] = p[id]
  BY <1>1, <1>2, <1>3, <1>5, <1>6 DEF Entry
<1>9. r[x] # Absent /\ p[x] # Absent
  BY <1>1, <1>3, <1>5, <1>8 DEF Absent
<1>10. Present(r) = Present(p)
  BY <1>1, <1>5, <1>8, <1>9 DEF Present
<1> QED
  BY <1>3, <1>5, <1>7, <1>8, <1>10

(* The last write reaches the server.                                      *)
LEMMA GivesDone ==
    ASSUME LobbyTypes, NEW h \in Devices, NEW order \in SetToSeqs(Present(db.players)), GivesNumbers(h, order),
           UpTo(db.players, order, Len(order)), db'.players = db.players, screen' = screen,
           NEW a \in 0..Len(order), unacked[h] = Rest(order, a), unacked' = unacked, mainq' = mainq,
           NEW g \in Seq(RosterGet(h)), OutIs(h, g), NEW i \in Seq(StartAck(h)), InIs(h, i)
    PROVE  Begun(h)'
<1>1. FullRoster(db'.players, order)
  BY FinitePresent, OrderHasAll DEF FullRoster
<1>2. /\ RosterGet(h) \subseteq LateMsg(h, h, order)
      /\ StartAck(h) \subseteq LateAnswer(h, order)
  BY DEF LateMsg, StartAck, LateAnswer
<1>3. RoundBlock(h) \subseteq LateBlock(h, order)
  BY DEF LateBlock, RoundBlock, BlockOf
<1>4. /\ mainq[h] \in Seq(RoundBlock(h))
      /\ \A d \in Devices : screen[d] # "Sheet" /\ (d # h => Silent(d))
  BY DEF GivesNumbers
<1>5. /\ outbox'[h] = g /\ unacked'[h] = Rest(order, a) /\ inbox'[h] = i /\ mainq'[h] = mainq[h]
      /\ \A d \in Devices : d # h => /\ outbox'[d] = outbox[d] /\ unacked'[d] = unacked[d]
                                     /\ inbox'[d] = inbox[d] /\ mainq'[d] = mainq[d]
  BY DEF OutIs, InIs, IsNow
<1>6. ASSUME NEW d \in Devices
      PROVE  /\ unacked'[d] \in Seq(IF d = h THEN StartWrite(order) ELSE {})
             /\ outbox'[d] \in Seq(LateMsg(d, h, order))
             /\ inbox'[d] \in Seq(LateAnswer(d, order)) /\ mainq'[d] \in Seq(LateBlock(d, order))
             /\ screen'[d] = "Sheet" => SeatIn(seat'[d], order)
  <2>1. screen'[d] # "Sheet"
    BY <1>4
  <2>2. CASE d = h
    <3>1. unacked'[h] \in Seq(StartWrite(order))
      BY <1>5, RestIs
    <3>2. outbox'[h] \in Seq(LateMsg(h, h, order)) /\ inbox'[h] \in Seq(LateAnswer(h, order))
      BY <1>2, <1>5, SeqOfMore
    <3>3. mainq'[h] \in Seq(LateBlock(h, order))
      BY <1>3, <1>4, <1>5, SeqOfMore
    <3> QED
      BY <2>1, <2>2, <3>1, <3>2, <3>3
  <2>3. CASE d # h
    <3>1. outbox'[d] = <<>> /\ unacked'[d] = <<>> /\ inbox'[d] = <<>> /\ mainq'[d] = <<>>
      BY <1>4, <1>5, <2>3 DEF Silent
    <3> QED
      BY <2>1, <2>3, <3>1
  <2> QED
    BY <2>2, <2>3
<1>7. Ready(h, order)'
  BY <1>1, <1>6 DEF Ready, LateMsg, LateAnswer, LateBlock, RosterGet
<1> QED
  BY <1>7 DEF Begun

(* The connection of the host while the numbers are given out.             *)
LEMMA GivesNetwork ==
    ASSUME LobbyTypes, Mirror, NEW h \in Devices, NEW order \in SetToSeqs(Present(db.players)),
           GivesNumbers(h, order), Deliver(h) \/ GetFails(h) \/ LoseConnection(h) \/ AckWrite(h)
    PROVE  Begun(h)'
<1>1. db.roundNum = 0 /\ db \in Game /\ mainq[h] \in Seq(RoundBlock(h))
  BY DEF GivesNumbers, LobbyTypes
<1>2. PICK a, b \in 0..Len(order) : Progress(h, order, a, b)
  BY DEF GivesNumbers
<1>3. PICK g \in Seq(RosterGet(h)) : outbox[h] = Rest(order, b) \o g
  BY <1>2 DEF Progress
<1>4. /\ unacked[h] = Rest(order, a) /\ inbox[h] \in Seq(StartAck(h)) /\ Len(inbox[h]) = b - a
      /\ UpTo(db.players, order, b)
  BY <1>2 DEF Progress
<1>5. /\ Len(order) \in Nat /\ \A j \in 1..Len(order) : order[j] \in Id
      /\ \A i, j \in 1..Len(order) : i # j => order[i] # order[j]
  BY StartWritesAre
<1>6. a <= b /\ Len(inbox[h]) \in Nat
  BY <1>4, <1>5
<1>7. OnDevices(outbox) /\ OnDevices(unacked) /\ OnDevices(inbox) /\ OnDevices(mainq)
  BY DEF LobbyTypes, QueueTypes, OutTypes, UnTypes, InTypes, MainTypes
<1>8. mainq' = mainq /\ screen' = screen /\ MainIs(h, mainq[h])
  <2>1. mainq' = mainq /\ screen' = screen
    BY DEF Deliver, GetFails, LoseConnection, AckWrite, roomVars
  <2> QED
    BY <1>7, <2>1, SetIs DEF MainIs
<1>9. PICK m : m = StartWrites(order)[b + 1]
  OBVIOUS
<1>10. /\ outbox[h] # <<>> /\ Head(outbox[h]) = m
       /\ b < Len(order) => Tail(outbox[h]) = Rest(order, b + 1) \o g
       /\ b = Len(order) => Tail(outbox[h]) = g
  <2>1. PICK r, t : r = Rest(order, b) /\ t = Tail(r)
    OBVIOUS
  <2>2. /\ r \in Seq(WriteMsg) /\ r # <<>> /\ Head(r) = m
        /\ b < Len(order) => t = Rest(order, b + 1)
        /\ b = Len(order) => t = <<>>
    BY <1>9, <2>1, RestIs
  <2>3. PICK S : S = WriteMsg \cup RosterGet(h)
    OBVIOUS
  <2>4. r \in Seq(S) /\ g \in Seq(S)
    BY <2>2, <2>3, SeqOfMore
  <2>5. r \o g # <<>> /\ Head(r \o g) = Head(r) /\ Tail(r \o g) = t \o g
    BY <2>1, <2>2, <2>4
  <2>6. b = Len(order) => t \o g = g
    BY <2>2
  <2> QED
    BY <1>3, <2>1, <2>2, <2>5, <2>6
<1>11. b + 1 \in 1..(Len(order) + 1) /\ m \in StartWrite(order)
  BY <1>5, <1>9 DEF StartWrite
<1>12. /\ m \in WriteMsg /\ m.op \in {"setNumber", "setRound"} /\ ~ IsGet(m)
  <2>1. db.players \in [Id -> Entry]
    BY <1>1 DEF Game
  <2> QED
    BY <1>11, <2>1, StartWriteIs
<1>13. CASE Deliver(h)
  <2>1. /\ OutIs(h, Tail(outbox[h])) /\ InIs(h, Append(inbox[h], Answer(m))) /\ Answer(m) \in InMsg(h)
        /\ unacked' = unacked /\ db' = Stored(db, m)
    BY <1>10, <1>12, <1>13, DeliverStep
  <2>2. Answer(m) \in StartAck(h)
    BY <1>12, <2>1 DEF Answer, StartAck
  <2>3. PICK i : i = Append(inbox[h], Answer(m))
    OBVIOUS
  <2>4. i \in Seq(StartAck(h)) /\ Len(i) = (b + 1) - a /\ InIs(h, i)
    BY <1>4, <1>5, <2>1, <2>2, <2>3
  <2>5. CASE b < Len(order)
    <3>1. PICK k : k = b + 1
      OBVIOUS
    <3>2. k \in 0..Len(order) /\ k \in 1..Len(order) /\ m = Msg("setNumber", order[k], k)
      BY <1>5, <1>9, <2>5, <3>1, StartWritesAre
    <3>3. /\ db'.roundNum = 0 /\ Present(db'.players) = Present(db.players)
          /\ db'.players[order[k]].number = k
          /\ \A id \in Id : id # order[k] => db'.players[id] = db.players[id]
      BY <1>1, <2>1, <3>2, NumberStored
    <3>4. UpTo(db'.players, order, k)
      <4>1. ASSUME NEW j \in 1..k PROVE db'.players[order[j]].number = j
        <5>1. CASE j = k
          BY <3>3, <5>1
        <5>2. CASE j # k
          <6>1. j \in 1..b /\ j \in 1..Len(order)
            BY <1>5, <3>1, <3>2, <5>2
          <6>2. order[j] # order[k] /\ order[j] \in Id
            BY <1>5, <3>2, <5>2, <6>1
          <6>3. db.players[order[j]].number = j
            BY <1>4, <6>1 DEF UpTo
          <6> QED
            BY <3>3, <6>2, <6>3
        <5> QED
          BY <5>1, <5>2
      <4> QED
        BY <4>1 DEF UpTo
    <3>5. OutIs(h, Rest(order, k) \o g) /\ UnIs(h, Rest(order, a)) /\ Len(i) = k - a
      BY <1>4, <1>7, <1>10, <2>1, <2>4, <2>5, <3>1, SetIs DEF UnIs
    <3> QED
      BY <1>1, <1>8, <2>4, <3>2, <3>3, <3>4, <3>5, GivesKept
  <2>6. CASE b = Len(order)
    <3>1. m = Msg("setRound", NoId, 1)
      BY <1>9, <2>6, StartWritesAre
    <3>2. db'.players = db.players
      BY <1>1, <2>1, <3>1 DEF Stored, Msg, Game
    <3>3. OutIs(h, g) /\ UpTo(db.players, order, Len(order))
      BY <1>4, <1>10, <2>1, <2>6
    <3> QED
      BY <1>4, <1>8, <2>1, <2>4, <3>2, <3>3, GivesDone
  <2> QED
    BY <1>5, <2>5, <2>6
<1>14. ~ GetFails(h)
  BY <1>10, <1>12 DEF GetFails
<1>15. CASE LoseConnection(h)
  <2>1. OutIs(h, unacked[h]) /\ InIs(h, <<>>) /\ unacked' = unacked /\ db' = db
    BY <1>15, LoseConnectionStep
  <2>2. Rest(order, a) \in Seq(WriteMsg) /\ <<>> \in Seq(RosterGet(h))
    BY RestIs
  <2>3. Rest(order, a) \o <<>> = Rest(order, a)
    BY <2>2
  <2>4. OutIs(h, Rest(order, a) \o <<>>) /\ UnIs(h, Rest(order, a))
    BY <1>4, <1>7, <2>1, <2>3, SetIs DEF UnIs
  <2>5. <<>> \in Seq(StartAck(h)) /\ Len(<<>>) = a - a
    BY <1>5
  <2>6. UpTo(db.players, order, a)
    BY <1>4, <1>5, <1>6 DEF UpTo
  <2> QED
    BY <1>1, <1>8, <2>1, <2>2, <2>4, <2>5, <2>6, GivesKept
<1>16. CASE AckWrite(h)
  <2>1. /\ inbox[h] # <<>> /\ InIs(h, Tail(inbox[h])) /\ UnIs(h, Tail(unacked[h]))
        /\ outbox' = outbox /\ db' = db
    BY <1>16, AckWriteStep
  <2>2. PICK k : k = a + 1
    OBVIOUS
  <2>3. a < Len(order) /\ k \in 0..Len(order) /\ Len(Tail(inbox[h])) = b - k /\ Tail(inbox[h]) \in Seq(StartAck(h))
    BY <1>4, <1>5, <1>6, <2>1, <2>2
  <2>4. Tail(Rest(order, a)) = Rest(order, k)
    BY <2>2, <2>3, RestIs
  <2>5. UnIs(h, Rest(order, k)) /\ OutIs(h, Rest(order, b) \o g)
    BY <1>3, <1>4, <1>7, <2>1, <2>4, SetIs DEF OutIs
  <2> QED
    BY <1>1, <1>4, <1>8, <2>1, <2>3, <2>5, GivesKept
<1> QED
  BY <1>13, <1>14, <1>15, <1>16

(* The steps while the numbers are given out.                              *)
LEMMA GivesNext ==
    ASSUME LobbyTypes, Mirror, NEW h \in Devices, NEW order \in SetToSeqs(Present(db.players)),
           GivesNumbers(h, order), NEW d \in Devices, Work(d) \/ GetFails(d) \/ LoseConnection(d)
    PROVE  Begun(h)'
<1>1. /\ db.roundNum = 0 /\ mainq[h] \in Seq(RoundBlock(h))
      /\ \A e \in Devices : e # h => Silent(e)
  BY DEF GivesNumbers
<1>2. ASSUME UNCHANGED <<netVars, mainq, roomVars>> PROVE Begun(h)'
  <2>1. GivesNumbers(h, order)'
    BY <1>2 DEF GivesNumbers, Progress, Silent, netVars, roomVars
  <2> QED
    BY <1>2, <2>1 DEF Begun, netVars
<1>3. CASE d # h
  BY <1>1, <1>2, <1>3, SilentStays
<1>4. PICK a, b \in 0..Len(order) : Progress(h, order, a, b)
  BY DEF GivesNumbers
<1>5. PICK g \in Seq(RosterGet(h)) : outbox[h] = Rest(order, b) \o g
  BY <1>4 DEF Progress
<1>6. /\ unacked[h] = Rest(order, a) /\ inbox[h] \in Seq(StartAck(h)) /\ Len(inbox[h]) = b - a
      /\ UpTo(db.players, order, b)
  BY <1>4 DEF Progress
<1>7. OnDevices(outbox) /\ OnDevices(unacked) /\ OnDevices(inbox) /\ OnDevices(mainq)
  BY DEF LobbyTypes, QueueTypes, OutTypes, UnTypes, InTypes, MainTypes
<1>8. ASSUME NEW xs \in Seq(RosterGet(h)), OutIs(h, outbox[h] \o xs), NEW q \in Seq(RoundBlock(h)), MainIs(h, q),
             db' = db, screen' = screen, unacked' = unacked, inbox' = inbox
      PROVE  Begun(h)'
  <2>1. PICK f, r : f = g \o xs /\ r = Rest(order, b)
    OBVIOUS
  <2>2. r \in Seq(WriteMsg) /\ f \in Seq(RosterGet(h))
    BY <2>1, RestIs
  <2>3. (r \o g) \o xs = r \o f
    <3>1. (r \o g) \o xs = r \o (g \o xs)
      BY <2>2, JoinThree, SMTT(30)
    <3> QED
      BY <2>1, <3>1
  <2>4. OutIs(h, r \o f)
    BY <1>5, <1>8, <2>1, <2>3
  <2>5. OutIs(h, Rest(order, b) \o f)
    BY <2>1, <2>4
  <2>6. UnIs(h, Rest(order, a)) /\ InIs(h, inbox[h])
    BY <1>6, <1>7, <1>8, SetIs DEF UnIs, InIs
  <2> QED
    BY <1>1, <1>6, <1>8, <2>2, <2>5, <2>6, GivesKept
<1>9. CASE d = h /\ (Deliver(h) \/ GetFails(h) \/ LoseConnection(h) \/ AckWrite(h))
  BY <1>9, GivesNetwork
<1>10. ASSUME d = h, Complete(h) PROVE AckWrite(h)
  <2>1. inbox[h] # <<>> => Head(inbox[h]).op \in {"setNumber", "setRound"}
    BY <1>6 DEF StartAck
  <2> QED
    BY <1>10, <2>1 DEF Complete, HostAnswered, JoinAnswered, SettingsAnswered, StartAnswered,
                RosterAnswered, Answered
<1>11. <<>> \in Seq(RosterGet(h)) /\ outbox[h] \o <<>> = outbox[h]
  <2>1. outbox[h] \in Seq(OutMsg(h))
    BY DEF LobbyTypes, QueueTypes, OutTypes
  <2> QED
    BY <2>1
<1>12. CASE d = h /\ Listen(h)
  <2>1. PICK id \in listening : ToldRoundNum(h, id) \/ ToldPlayers(h, id)
    BY <1>12 DEF Listen
  <2>2. CASE ToldPlayers(h, id)
    BY <1>2, <2>2 DEF ToldPlayers
  <2>3. CASE ToldRoundNum(h, id)
    <3>1. PICK q : q = Append(mainq[h], [op |-> "roundNum", id |-> id])
      OBVIOUS
    <3>2. id \in Mine(h, Id)
      BY <2>1, <2>3 DEF ToldRoundNum, Heard, Mine, LobbyTypes, RoomTypes
    <3>3. [op |-> "roundNum", id |-> id] \in RoundBlock(h)
      BY <3>2 DEF RoundBlock
    <3>4. q \in Seq(RoundBlock(h))
      BY <1>1, <3>1, <3>3
    <3>5. MainIs(h, q)
      BY <1>7, <2>3, <3>1, SetIs DEF ToldRoundNum, Post, Blocks, MainIs
    <3>6. db' = db /\ screen' = screen /\ unacked' = unacked /\ inbox' = inbox /\ outbox' = outbox
      BY <2>3 DEF ToldRoundNum, netVars, roomVars
    <3>7. OutIs(h, outbox[h] \o <<>>)
      BY <1>7, <1>11, <3>6, SetIs DEF OutIs
    <3> QED
      BY <1>8, <1>11, <3>4, <3>5, <3>6, <3>7
  <2> QED
    BY <2>1, <2>2, <2>3
<1>13. CASE d = h /\ Main(h)
  <2>1. mainq[h] # <<>> => Head(mainq[h]).op = "roundNum" /\ Tail(mainq[h]) \in Seq(RoundBlock(h))
    <3>1. \A x \in RoundBlock(h) : x.op = "roundNum"
      BY DEF RoundBlock
    <3> QED
      BY <1>1, <3>1
  <2>2. CheckRoundNum(h)
    BY <1>13, <2>1 DEF Main, Enter, UpdateGameSettings, HandlePlayers, Block
  <2>3. ~ Shadowed(h)
    <3>1. unacked[h] \in Seq(StartWrite(order))
      BY <1>6, RestIs
    <3>2. db.players \in [Id -> Entry]
      BY DEF LobbyTypes, Game
    <3>3. \A m \in StartWrite(order) : m.op # "setGame"
      BY <3>2, StartWriteIs
    <3> QED
      BY <3>1, <3>3 DEF Shadowed, Waits
  <2>4. Block(h, "roundNum")
    BY <2>2 DEF CheckRoundNum
  <2>5. PICK id : id = Head(mainq[h]).id
    OBVIOUS
  <2>6. mainq[h] # <<>> /\ id \in Mine(h, Id)
    BY <2>4, <2>5, BlockIs
  <2>7. /\ db' = db /\ screen' = screen /\ inbox' = inbox /\ unacked' = unacked
        /\ Blocks(h, Tail(mainq[h]))
        /\ outbox' = outbox \/ Ask(h, Get("roster", id))
    BY <2>2, <2>3, <2>5 DEF CheckRoundNum, Ask, roomVars
  <2>8. MainIs(h, Tail(mainq[h])) /\ Tail(mainq[h]) \in Seq(RoundBlock(h))
    BY <1>7, <2>1, <2>6, <2>7, SetIs DEF Blocks, MainIs
  <2>9. CASE outbox' = outbox
    <3>1. OutIs(h, outbox[h] \o <<>>)
      BY <1>7, <1>11, <2>9, SetIs DEF OutIs
    <3> QED
      BY <1>8, <1>11, <2>7, <2>8, <3>1
  <2>10. CASE Ask(h, Get("roster", id))
    <3>1. PICK m : m = Get("roster", id)
      OBVIOUS
    <3>2. m \in RosterGet(h)
      BY <2>6, <3>1, GetIs DEF RosterGet, GetOps
    <3>3. PICK xs : xs = <<m>>
      OBVIOUS
    <3>4. xs \in Seq(RosterGet(h))
      BY <3>2, <3>3, SeqOfOne
    <3>5. outbox[h] \in Seq(OutMsg(h))
      BY DEF LobbyTypes, QueueTypes, OutTypes
    <3>6. Append(outbox[h], m) = outbox[h] \o xs
      <4>1. m \in OutMsg(h)
        BY <3>2 DEF RosterGet, OutMsg
      <4> QED
        BY <3>3, <3>5, <4>1, AppendJoins
    <3>7. OutIs(h, outbox[h] \o xs)
      BY <1>7, <2>10, <3>1, <3>6, SetIs DEF Ask, OutIs
    <3> QED
      BY <1>8, <2>7, <2>8, <3>4, <3>7
  <2> QED
    BY <2>7, <2>9, <2>10
<1> QED
  BY <1>3, <1>9, <1>10, <1>12, <1>13 DEF Work

(* The lists stay full when the queues of one device change like this, ... *)
LEMMA ReadyKept ==
    ASSUME NEW h \in Devices, NEW order \in SetToSeqs(Present(db.players)), Ready(h, order),
           FullRoster(db'.players, order),
           \A e \in Devices : screen'[e] = "Sheet" => SeatIn(seat'[e], order), NEW d \in Devices,
           NEW o \in Seq(LateMsg(d, h, order)), OutIs(d, o),
           NEW u \in Seq(IF d = h THEN StartWrite(order) ELSE {}), UnIs(d, u),
           NEW i \in Seq(LateAnswer(d, order)), InIs(d, i),
           NEW q \in Seq(LateBlock(d, order)), MainIs(d, q)
    PROVE  Begun(h)'
<1>1. ASSUME NEW e \in Devices
      PROVE  /\ unacked'[e] \in Seq(IF e = h THEN StartWrite(order) ELSE {})
             /\ outbox'[e] \in Seq(LateMsg(e, h, order))
             /\ inbox'[e] \in Seq(LateAnswer(e, order)) /\ mainq'[e] \in Seq(LateBlock(e, order))
             /\ screen'[e] = "Sheet" => SeatIn(seat'[e], order)
  <2>1. CASE e = d
    BY <2>1 DEF OutIs, UnIs, InIs, MainIs, IsNow
  <2>2. CASE e # d
    BY <2>2 DEF OutIs, UnIs, InIs, MainIs, IsNow, Ready
  <2> QED
    BY <2>1, <2>2
<1>2. Ready(h, order)'
  BY <1>1 DEF Ready
<1>3. Present(db'.players) = Present(db.players)
  BY DEF Ready, FullRoster
<1> QED
  BY <1>2, <1>3 DEF Begun

(* ... and in a local step that only asks for the list.                    *)
LEMMA ReadyLocal ==
    ASSUME NEW h \in Devices, NEW order \in SetToSeqs(Present(db.players)), Ready(h, order),
           \A e \in Devices : screen'[e] = "Sheet" => SeatIn(seat'[e], order), NEW d \in Devices,
           NEW xs \in Seq(RosterGet(d)), NEW bs \in Seq(LateBlock(d, order)), LocalStep(d, xs, <<>>, bs)
    PROVE  Begun(h)'
<1> DEFINE U == IF d = h THEN StartWrite(order) ELSE {}
<1>1. /\ FullRoster(db.players, order) /\ unacked[d] \in Seq(U)
      /\ outbox[d] \in Seq(LateMsg(d, h, order))
      /\ inbox[d] \in Seq(LateAnswer(d, order)) /\ mainq[d] \in Seq(LateBlock(d, order))
  BY DEF Ready
<1>2. /\ db' = db /\ OutIs(d, outbox[d] \o xs) /\ UnIs(d, unacked[d] \o <<>>)
      /\ InIs(d, inbox[d]) \/ (inbox[d] # <<>> /\ InIs(d, Tail(inbox[d])))
      /\ MainIs(d, mainq[d] \o bs) \/ (mainq[d] # <<>> /\ MainIs(d, Tail(mainq[d]) \o bs))
  BY DEF LocalStep, Sends, Takes, Posts
<1> HIDE DEF U
<1>3. unacked[d] \o <<>> = unacked[d]
  BY <1>1
<1>4. PICK o \in Seq(LateMsg(d, h, order)) : OutIs(d, o)
  <2>1. RosterGet(d) \subseteq LateMsg(d, h, order)
    BY DEF LateMsg
  <2>2. xs \in Seq(LateMsg(d, h, order))
    BY <2>1, SeqOfMore
  <2>3. outbox[d] \o xs \in Seq(LateMsg(d, h, order))
    BY <1>1, <2>2
  <2> QED
    BY <1>2, <2>3
<1>5. PICK i \in Seq(LateAnswer(d, order)) : InIs(d, i)
  <2>1. inbox[d] # <<>> => Tail(inbox[d]) \in Seq(LateAnswer(d, order))
    BY <1>1
  <2> QED
    BY <1>1, <1>2, <2>1
<1>6. PICK q \in Seq(LateBlock(d, order)) : MainIs(d, q)
  <2>1. mainq[d] \o bs \in Seq(LateBlock(d, order))
    BY <1>1
  <2>2. mainq[d] # <<>> => Tail(mainq[d]) \o bs \in Seq(LateBlock(d, order))
    BY <1>1
  <2> QED
    BY <1>2, <2>1, <2>2
<1>7. unacked[d] \in Seq(IF d = h THEN StartWrite(order) ELSE {}) /\ UnIs(d, unacked[d])
  BY <1>1, <1>2, <1>3 DEF U
<1>8. FullRoster(db'.players, order)
  BY <1>1, <1>2
<1> QED
  BY <1>4, <1>5, <1>6, <1>7, <1>8, ReadyKept

(* The connection when the lists are full.                                 *)
LEMMA ReadyNetwork ==
    ASSUME LobbyTypes, Mirror, NEW h \in Devices, NEW order \in SetToSeqs(Present(db.players)),
           Ready(h, order), NEW d \in Devices, Deliver(d) \/ GetFails(d) \/ LoseConnection(d) \/ AckWrite(d)
    PROVE  Begun(h)'
<1> DEFINE U == IF d = h THEN StartWrite(order) ELSE {}
<1>1. /\ FullRoster(db.players, order) /\ unacked[d] \in Seq(U)
      /\ outbox[d] \in Seq(LateMsg(d, h, order))
      /\ inbox[d] \in Seq(LateAnswer(d, order)) /\ mainq[d] \in Seq(LateBlock(d, order))
  BY DEF Ready
<1> HIDE DEF U
<1>2. OnDevices(outbox) /\ OnDevices(unacked) /\ OnDevices(inbox) /\ OnDevices(mainq)
  BY DEF LobbyTypes, QueueTypes, OutTypes, UnTypes, InTypes, MainTypes
<1>3. /\ MainIs(d, mainq[d]) /\ \A e \in Devices : screen'[e] = "Sheet" => SeatIn(seat'[e], order)
  <2>1. mainq' = mainq /\ screen' = screen /\ seat' = seat
    BY DEF Deliver, GetFails, LoseConnection, AckWrite, roomVars
  <2> QED
    BY <1>2, <2>1, SetIs DEF MainIs, Ready
<1>4. ASSUME NEW o \in Seq(LateMsg(d, h, order)), OutIs(d, o), NEW u \in Seq(U), UnIs(d, u),
             NEW i \in Seq(LateAnswer(d, order)), InIs(d, i), FullRoster(db'.players, order)
      PROVE  Begun(h)'
  <2>1. u \in Seq(IF d = h THEN StartWrite(order) ELSE {})
    BY DEF U
  <2> QED
    BY <1>1, <1>3, <1>4, <2>1, ReadyKept
<1>5. db \in Game /\ db.players \in [Id -> Entry]
  BY DEF LobbyTypes, Game
<1>6. CASE Deliver(d)
  <2>1. PICK m : m = Head(outbox[d])
    OBVIOUS
  <2>2. /\ outbox[d] # <<>> /\ m \in LateMsg(d, h, order)
        /\ OutIs(d, Tail(outbox[d])) /\ InIs(d, Append(inbox[d], Answer(m))) /\ Answer(m) \in InMsg(d)
        /\ unacked' = unacked /\ db' = IF IsGet(m) THEN db ELSE Stored(db, m)
    BY <1>1, <1>6, <2>1, DeliverStep
  <2>3. ASSUME m \in RosterGet(d)
        PROVE /\ FullRoster(db'.players, order) /\ Answer(m).op \in {"setNumber", "setRound", "roster"}
              /\ Answer(m).roundNum = 0
              /\ Answer(m).op = "roster" => FullRoster(Answer(m).players, order)
    <3>1. m.op = "roster" /\ IsGet(m)
      BY <2>3 DEF RosterGet, IsGet, GetOps
    <3>2. Answer(m).op = "roster" /\ Answer(m).roundNum = 0 /\ Answer(m).players = db.players
      BY <3>1 DEF Answer
    <3> QED
      BY <1>1, <2>2, <3>1, <3>2
  <2>4. ASSUME m \in StartWrite(order)
        PROVE /\ FullRoster(db'.players, order) /\ Answer(m).op \in {"setNumber", "setRound", "roster"}
              /\ Answer(m).roundNum = 0
              /\ Answer(m).op = "roster" => FullRoster(Answer(m).players, order)
    <3>1. m.op \in {"setNumber", "setRound"} /\ ~ IsGet(m)
      BY <1>5, <2>4, StartWriteIs
    <3>2. Answer(m).op = m.op /\ Answer(m).roundNum = 0
      BY <3>1 DEF Answer
    <3>3. FullRoster(db'.players, order)
      <4>1. CASE m.op = "setRound"
        <5>1. m = Msg("setRound", NoId, 1)
          BY <1>5, <2>4, <4>1, StartWriteIs
        <5>2. db'.players = db.players
          BY <1>5, <2>2, <3>1, <5>1 DEF Stored, Msg, Game
        <5> QED
          BY <1>1, <5>2
      <4>2. CASE m.op = "setNumber"
        <5>1. PICK j \in 1..Len(order) : m = Msg("setNumber", order[j], j) /\ order[j] \in Id
          BY <1>5, <2>4, <4>2, StartWriteIs
        <5>2. /\ Present(db'.players) = Present(db.players) /\ db'.players[order[j]].number = j
              /\ \A id \in Id : id # order[j] => db'.players[id] = db.players[id]
          BY <1>5, <2>2, <3>1, <5>1, NumberStored
        <5>3. ASSUME NEW k \in 1..Len(order) PROVE db'.players[order[k]].number = k
          <6>1. order[k] \in Id /\ (k # j => order[k] # order[j]) /\ db.players[order[k]].number = k
            BY <1>1, StartWritesAre DEF FullRoster, UpTo
          <6> QED
            BY <5>2, <6>1
        <5> QED
          BY <1>1, <5>2, <5>3 DEF FullRoster, UpTo
      <4> QED
        BY <3>1, <4>1, <4>2
    <3> QED
      BY <2>2, <3>1, <3>2, <3>3
  <2>5. /\ FullRoster(db'.players, order) /\ Answer(m).op \in {"setNumber", "setRound", "roster"}
        /\ Answer(m).roundNum = 0
        /\ Answer(m).op = "roster" => FullRoster(Answer(m).players, order)
    BY <2>2, <2>3, <2>4 DEF LateMsg
  <2>6. Answer(m) \in LateAnswer(d, order)
    BY <2>2, <2>5 DEF LateAnswer
  <2>7. PICK i : i = Append(inbox[d], Answer(m))
    OBVIOUS
  <2>8. i \in Seq(LateAnswer(d, order)) /\ InIs(d, i)
    BY <1>1, <2>2, <2>6, <2>7
  <2>9. Tail(outbox[d]) \in Seq(LateMsg(d, h, order))
    BY <1>1, <2>2
  <2>10. UnIs(d, unacked[d])
    BY <1>2, <2>2, SetIs DEF UnIs
  <2> QED
    BY <1>1, <1>4, <2>2, <2>5, <2>8, <2>9, <2>10
<1>7. CASE GetFails(d)
  <2>1. /\ outbox[d] # <<>> /\ OutIs(d, Tail(outbox[d])) /\ unacked' = unacked /\ inbox' = inbox /\ db' = db
    BY <1>7, GetFailsStep
  <2>2. Tail(outbox[d]) \in Seq(LateMsg(d, h, order))
    BY <1>1, <2>1
  <2>3. UnIs(d, unacked[d]) /\ InIs(d, inbox[d])
    BY <1>2, <2>1, SetIs DEF UnIs, InIs
  <2> QED
    BY <1>1, <1>4, <2>1, <2>2, <2>3
<1>8. CASE LoseConnection(d)
  <2>1. /\ OutIs(d, unacked[d]) /\ InIs(d, <<>>) /\ unacked' = unacked /\ db' = db
    BY <1>8, LoseConnectionStep
  <2>2. U \subseteq LateMsg(d, h, order)
    BY DEF U, LateMsg
  <2>3. unacked[d] \in Seq(LateMsg(d, h, order)) /\ <<>> \in Seq(LateAnswer(d, order))
    BY <1>1, <2>2, SeqOfMore
  <2>4. UnIs(d, unacked[d])
    BY <1>2, <2>1, SetIs DEF UnIs
  <2> QED
    BY <1>1, <1>4, <2>1, <2>3, <2>4
<1>9. CASE AckWrite(d)
  <2>1. /\ inbox[d] # <<>> /\ unacked[d] # <<>> /\ InIs(d, Tail(inbox[d])) /\ UnIs(d, Tail(unacked[d]))
        /\ outbox' = outbox /\ db' = db
    BY <1>9, AckWriteStep
  <2>2. Tail(inbox[d]) \in Seq(LateAnswer(d, order)) /\ Tail(unacked[d]) \in Seq(U)
    BY <1>1, <2>1
  <2>3. OutIs(d, outbox[d])
    BY <1>2, <2>1, SetIs DEF OutIs
  <2> QED
    BY <1>1, <1>4, <2>1, <2>2, <2>3
<1> QED
  BY <1>6, <1>7, <1>8, <1>9

(* Everybody sits down by a full list.                                     *)
LEMMA ReadySits ==
    ASSUME LobbyTypes, NEW h \in Devices, NEW order \in SetToSeqs(Present(db.players)),
           Ready(h, order), NEW d \in Devices, HandlePlayers(d)
    PROVE  \A e \in Devices : screen'[e] = "Sheet" => SeatIn(seat'[e], order)
<1>1. Block(d, "roster")
  BY DEF HandlePlayers
<1>2. PICK b : b = Head(mainq[d])
  OBVIOUS
<1>3. mainq[d] # <<>> /\ b.op = "roster" /\ b.id \in Mine(d, Id) /\ b.players \in [Id -> Entry]
  BY <1>1, <1>2, BlockIs
<1>4. b \in LateBlock(d, order)
  BY <1>2, <1>3 DEF Ready
<1>5. FullRoster(b.players, order) /\ FullRoster(db.players, order)
  BY <1>3, <1>4 DEF LateBlock, Ready
<1>6. /\ Len(order) = Cardinality(Present(db.players)) /\ Len(order) \in Nat
      /\ Present(b.players) = Present(db.players)
  BY <1>5, FinitePresent, OrderIs DEF FullRoster
<1>7. /\ screen \in [Devices -> {"Home", "WaitingRoom", "Sheet"}] /\ OnDevices(seat)
      /\ \A e \in Devices : screen[e] = "Sheet" => SeatIn(seat[e], order)
  BY DEF LobbyTypes, RoomTypes, Ready
<1>8. CASE b.players[b.id] = Absent
  BY <1>2, <1>7, <1>8 DEF HandlePlayers
<1>9. CASE b.players[b.id] # Absent
  <2>1. PICK s : s = [id |-> b.id, number |-> b.players[b.id].number, count |-> Cardinality(Present(b.players))]
    OBVIOUS
  <2>2. screen' = [screen EXCEPT ![d] = "Sheet"] /\ seat' = [seat EXCEPT ![d] = s]
    BY <1>2, <1>9, <2>1 DEF HandlePlayers
  <2>3. b.id \in Present(b.players)
    BY <1>3, <1>9, MineAre DEF Present
  <2>4. PICK j \in 1..Len(order) : b.id = order[j]
    BY <1>5, <2>3 DEF FullRoster
  <2>5. b.players[b.id].number = j
    BY <1>5, <2>4 DEF FullRoster, UpTo
  <2>6. SeatIn(s, order)
    BY <1>6, <2>1, <2>4, <2>5 DEF SeatIn
  <2>7. IsNow(seat, seat', d, s)
    BY <1>7, <2>2, SetIs
  <2> QED
    BY <1>7, <2>2, <2>6, <2>7 DEF IsNow
<1> QED
  BY <1>8, <1>9

(* The steps when the lists are full.                                      *)
LEMMA ReadyNext ==
    ASSUME LobbyTypes, Mirror, NEW h \in Devices, NEW order \in SetToSeqs(Present(db.players)),
           Ready(h, order), NEW d \in Devices, Work(d) \/ GetFails(d) \/ LoseConnection(d)
    PROVE  Begun(h)'
<1>1. /\ unacked[d] \in Seq(IF d = h THEN StartWrite(order) ELSE {})
      /\ inbox[d] \in Seq(LateAnswer(d, order)) /\ mainq[d] \in Seq(LateBlock(d, order))
      /\ \A e \in Devices : screen[e] = "Sheet" => SeatIn(seat[e], order)
  BY DEF Ready
<1>2. ASSUME NEW xs \in Seq(RosterGet(d)), NEW bs \in Seq(LateBlock(d, order)), LocalStep(d, xs, <<>>, bs),
             \A e \in Devices : screen'[e] = "Sheet" => SeatIn(seat'[e], order)
      PROVE  Begun(h)'
  BY <1>2, ReadyLocal
<1>3. <<>> \in Seq(RosterGet(d)) /\ <<>> \in Seq(LateBlock(d, order))
  OBVIOUS
<1>4. CASE Deliver(d) \/ GetFails(d) \/ LoseConnection(d) \/ AckWrite(d)
  BY <1>4, ReadyNetwork
<1>5. CASE Complete(d) /\ ~ AckWrite(d)
  <2>1. PICK a : a = Head(inbox[d])
    OBVIOUS
  <2>2. inbox[d] # <<>> => a \in LateAnswer(d, order)
    BY <1>1, <2>1
  <2>3. inbox[d] # <<>> => a.op \in {"setNumber", "setRound", "roster"}
    BY <2>2 DEF LateAnswer
  <2>4. RosterAnswered(d)
    BY <1>5, <2>1, <2>3 DEF Complete, HostAnswered, JoinAnswered, SettingsAnswered, StartAnswered, Answered
  <2>5. inbox[d] # <<>> /\ a \in InMsg(d) /\ a.op = "roster"
    BY <2>1, <2>4, RosterAnsweredStep
  <2>6. PICK bs \in Seq(RosterBlock(d, a.players)) : LocalStep(d, <<>>, <<>>, bs)
    BY <2>1, <2>4, RosterAnsweredStep
  <2>7. FullRoster(a.players, order) /\ a.players \in [Id -> Entry]
    BY <2>2, <2>5 DEF LateAnswer, InMsg
  <2>8. RosterBlock(d, a.players) \subseteq LateBlock(d, order)
    BY <2>7 DEF RosterBlock, LateBlock, BlockOf
  <2>9. bs \in Seq(LateBlock(d, order))
    BY <2>8, SeqOfMore
  <2>10. screen' = screen /\ seat' = seat
    BY <2>4 DEF RosterAnswered, roomVars
  <2> QED
    BY <1>1, <1>2, <1>3, <2>6, <2>9, <2>10
<1>6. CASE Listen(d)
  <2>1. PICK id \in listening : ToldRoundNum(d, id) \/ ToldPlayers(d, id)
    BY <1>6 DEF Listen
  <2>2. PICK bs \in Seq(RoundBlock(d)) : LocalStep(d, <<>>, <<>>, bs)
    <3>1. CASE ToldRoundNum(d, id)
      BY <3>1, ToldRoundNumStep
    <3>2. CASE ToldPlayers(d, id)
      <4>1. <<>> \in Seq(RoundBlock(d))
        OBVIOUS
      <4> QED
        BY <3>2, <4>1, ToldPlayersStep
    <3> QED
      BY <2>1, <3>1, <3>2
  <2>3. RoundBlock(d) \subseteq LateBlock(d, order)
    BY DEF RoundBlock, LateBlock, BlockOf
  <2>4. bs \in Seq(LateBlock(d, order))
    BY <2>3, SeqOfMore
  <2>5. screen' = screen /\ seat' = seat
    BY <2>1 DEF ToldRoundNum, ToldPlayers, roomVars
  <2> QED
    BY <1>1, <1>2, <1>3, <2>2, <2>4, <2>5
<1>7. CASE Main(d)
  <2>1. mainq[d] # <<>> => Head(mainq[d]) \in LateBlock(d, order)
    BY <1>1
  <2>2. mainq[d] # <<>> => Head(mainq[d]).op \in {"roundNum", "roster"}
    BY <2>1 DEF LateBlock
  <2>3. CheckRoundNum(d) \/ HandlePlayers(d)
    BY <1>7, <2>2 DEF Main, Enter, UpdateGameSettings, Block
  <2>4. CASE HandlePlayers(d)
    <3>1. LocalStep(d, <<>>, <<>>, <<>>)
      BY <2>4, HandlePlayersStep
    <3>2. \A e \in Devices : screen'[e] = "Sheet" => SeatIn(seat'[e], order)
      BY <2>4, ReadySits
    <3> QED
      BY <1>2, <1>3, <3>1, <3>2
  <2>5. CASE CheckRoundNum(d)
    <3>1. screen' = screen /\ seat' = seat
      BY <2>5 DEF CheckRoundNum, roomVars
    <3>2. ~ Shadowed(d)
      <4>1. CASE d = h
        <5>1. unacked[d] \in Seq(StartWrite(order))
          BY <1>1, <4>1
        <5>2. db.players \in [Id -> Entry]
          BY DEF LobbyTypes, Game
        <5>3. \A m \in StartWrite(order) : m.op # "setGame"
          BY <5>2, StartWriteIs
        <5> QED
          BY <5>1, <5>3 DEF Shadowed, Waits
      <4>2. CASE d # h
        <5>1. unacked[d] \in Seq({})
          BY <1>1, <4>2
        <5> QED
          BY <5>1 DEF Shadowed, Waits
      <4> QED
        BY <4>1, <4>2
    <3>3. PICK xs \in Seq(RosterGet(d)) : LocalStep(d, xs, <<>>, <<>>)
      <4>1. CASE LocalStep(d, <<>>, <<>>, <<>>)
        BY <1>3, <4>1
      <4>2. CASE \E id \in Mine(d, Id) : Get("roster", id) \in GetMsg(d)
                                           /\ LocalStep(d, <<Get("roster", id)>>, <<>>, <<>>)
        <5>1. PICK id \in Mine(d, Id) : LocalStep(d, <<Get("roster", id)>>, <<>>, <<>>)
          BY <4>2
        <5>2. PICK m : m = Get("roster", id)
          OBVIOUS
        <5>3. m \in RosterGet(d)
          BY <5>2, GetIs DEF RosterGet, GetOps
        <5>4. <<m>> \in Seq(RosterGet(d)) /\ LocalStep(d, <<m>>, <<>>, <<>>)
          BY <5>1, <5>2, <5>3, SeqOfOne
        <5> QED
          BY <5>4
      <4> QED
        BY <2>5, <3>2, <4>1, <4>2, CheckRoundNumStep
    <3> QED
      BY <1>1, <1>2, <1>3, <3>1, <3>3
  <2> QED
    BY <2>3, <2>4, <2>5
<1> QED
  BY <1>4, <1>5, <1>6, <1>7 DEF Work

(* The phases follow each other.                                           *)
LEMMA SeatsNext ==
    ASSUME LobbyInv, SeatsInv, [Next]_lobbyVars
    PROVE  SeatsInv'
<1> USE DEF LobbyInv
<1>1. ASSUME UNCHANGED lobbyVars PROVE SeatsInv'
  <2>1. UNCHANGED <<db, outbox, unacked, inbox, mainq, screen, seat, starts, disturbed>>
    BY <1>1 DEF lobbyVars, netVars, roomVars, tapVars
  <2>2. Gathering' <=> Gathering
    BY <2>1 DEF Gathering
  <2>3. \A h : AskingToStart(h)' <=> AskingToStart(h)
    BY <2>1 DEF AskingToStart, Silent
  <2>4. \A h, order : GivesNumbers(h, order)' <=> GivesNumbers(h, order)
    BY <2>1 DEF GivesNumbers, Progress, Silent
  <2>5. \A h, order : Ready(h, order)' <=> Ready(h, order)
    BY <2>1 DEF Ready
  <2>6. \A h : Begun(h)' <=> Begun(h)
    BY <2>1, <2>3, <2>4, <2>5, Zenon DEF Begun
  <2> QED
    BY <2>1, <2>2, <2>6 DEF SeatsInv
<1>2. ASSUME Next, ~ disturbed' PROVE Gathering' \/ (starts' > 0 /\ \E h \in Devices : Begun(h)')
  <2>1. CASE starts > 0
    <3>1. PICK d \in Devices : Work(d) \/ GetFails(d) \/ LoseConnection(d)
      BY <1>2, <2>1, AfterStart
    <3>2. starts' = starts /\ disturbed' = disturbed
      BY <3>1, WorkKeeps
    <3>3. PICK h \in Devices : Begun(h)
      BY <1>2, <2>1, <3>2 DEF SeatsInv, Gathering
    <3>4. CASE AskingToStart(h)
      BY <2>1, <3>1, <3>2, <3>4, AskingNext
    <3>5. CASE \E order \in SetToSeqs(Present(db.players)) : GivesNumbers(h, order)
      BY <2>1, <3>1, <3>2, <3>5, GivesNext
    <3>6. CASE \E order \in SetToSeqs(Present(db.players)) : Ready(h, order)
      BY <2>1, <3>1, <3>2, <3>6, ReadyNext
    <3> QED
      BY <3>3, <3>4, <3>5, <3>6 DEF Begun
  <2>2. CASE ~ (starts > 0)
    <3>1. PICK d \in Devices : Tap(d) \/ Work(d) \/ GetFails(d) \/ LoseConnection(d)
      BY <1>2 DEF Next
    <3>2. ~ disturbed
      <4>1. CASE Tap(d)
        BY <1>2, <4>1 DEF Tap, TapHost, TapJoin, TapStart, TapLeave
      <4>2. CASE Work(d) \/ GetFails(d) \/ LoseConnection(d)
        BY <1>2, <4>2, WorkKeeps
      <4> QED
        BY <3>1, <4>1, <4>2
    <3>3. Gathering
      BY <2>2, <3>2 DEF SeatsInv
    <3>4. CASE TapStart(d)
      BY <1>2, <3>3, <3>4, GatherStarts DEF Begun
    <3>5. CASE TapHost(d) \/ TapJoin(d) \/ TapLeave(d)
      BY <3>3, <3>5, GatherTaps
    <3>6. CASE Deliver(d) \/ GetFails(d) \/ LoseConnection(d) \/ AckWrite(d)
      BY <3>3, <3>6, GatherNetwork
    <3>7. CASE Complete(d) /\ ~ AckWrite(d)
      BY <3>3, <3>7, GatherAnswers
    <3>8. CASE Listen(d)
      BY <3>3, <3>8, GatherListens
    <3>9. CASE Main(d)
      BY <3>3, <3>9, GatherMain
    <3> QED
      BY <3>1, <3>4, <3>5, <3>6, <3>7, <3>8, <3>9 DEF Tap, Work
  <2> QED
    BY <2>1, <2>2
<1> QED
  BY <1>1, <1>2 DEF SeatsInv

(* In the beginning nothing has been sent.                                 *)
LEMMA SeatsInit ==
    ASSUME Init
    PROVE  SeatsInv
<1>1. ASSUME NEW d \in Devices
      PROVE  /\ outbox[d] = <<>> /\ unacked[d] = <<>> /\ inbox[d] = <<>> /\ mainq[d] = <<>>
             /\ screen[d] = "Home"
  BY DEF Init
<1>2. starts = 0 /\ db.roundNum = 0
  BY DEF Init
<1>3. ASSUME NEW d \in Devices
      PROVE  /\ screen[d] # "Sheet"
             /\ outbox[d] \in Seq(EarlyMsg(d)) /\ unacked[d] \in Seq(EarlyWrite)
             /\ inbox[d] \in Seq(EarlyAnswer(d)) /\ mainq[d] \in Seq(EarlyBlock(d))
  <2>1. /\ <<>> \in Seq(EarlyMsg(d)) /\ <<>> \in Seq(EarlyWrite)
        /\ <<>> \in Seq(EarlyAnswer(d)) /\ <<>> \in Seq(EarlyBlock(d))
    OBVIOUS
  <2> QED
    BY <1>1, <2>1
<1>4. Gathering
  BY <1>2, <1>3 DEF Gathering
<1> QED
  BY <1>4 DEF SeatsInv

(* Who sits by the same full lists agrees on the numbers.                  *)
LEMMA AgreedFromInv ==
    ASSUME LobbyInv, SeatsInv
    PROVE  AgreedSeats
<1> SUFFICES ASSUME ~ disturbed, NEW d \in Devices, NEW e \in Devices, Seated(d), Seated(e)
             PROVE  /\ seat[d].count = Cardinality(Present(db.players))
                    /\ seat[d].number \in 1..seat[d].count
                    /\ d # e => seat[d].number # seat[e].number
  BY DEF AgreedSeats
<1>1. screen[d] = "Sheet" /\ screen[e] = "Sheet"
  BY DEF Seated
<1>2. PICK h \in Devices : Begun(h)
  BY <1>1 DEF SeatsInv, Gathering
<1>3. PICK order \in SetToSeqs(Present(db.players)) : Ready(h, order)
  BY <1>1, <1>2 DEF Begun, AskingToStart, GivesNumbers
<1>4. SeatIn(seat[d], order) /\ SeatIn(seat[e], order)
  BY <1>1, <1>3 DEF Ready
<1>5. Len(order) = Cardinality(Present(db.players))
  BY FinitePresent, OrderIs
<1>6. seat[d].id \in Mine(d, Id) /\ seat[e].id \in Mine(e, Id)
  BY <1>1 DEF LobbyInv, LobbyTypes, RoomTypes, Seat
<1>7. d # e => seat[d].id # seat[e].id
  BY <1>6, MineAre
<1> QED
  BY <1>4, <1>5, <1>7 DEF SeatIn

(* Whatever gets fail and connections are lost, as long as nobody taps     *)
(* during the start (startGame of StorageController_WaitingRoom), all who  *)
(* reach the sheet screen have the same number of players, that of the     *)
(* list, and different numbers up to it: for any number of devices, taps,  *)
(* starts and faults.                                                      *)
THEOREM SeatsAgree == Spec => []AgreedSeats
<1>1. Spec => []LobbyInv
  BY QueuesInOrder
<1>2. Init => SeatsInv
  BY SeatsInit
<1>3. LobbyInv /\ SeatsInv /\ [Next]_lobbyVars => SeatsInv'
  BY SeatsNext
<1>4. LobbyInv /\ SeatsInv => AgreedSeats
  BY AgreedFromInv
<1> QED
  BY <1>1, <1>2, <1>3, <1>4, PTL DEF Spec

-----------------------------------------------------------------------------
(* Who waits is on the list.                                               *)

(* At most one message of a queue is in X.                                 *)
OnceIn(q, X) == \A i, j \in 1..Len(q) : q[i] \in X /\ q[j] \in X => i = j

(* The messages of X when others are added, ...                            *)
LEMMA InConcat ==
    ASSUME NEW S, NEW q \in Seq(S), NEW r \in Seq(S), NEW X
    PROVE  /\ Has(q \o r, X) <=> Has(q, X) \/ Has(r, X)
           /\ OnceIn(q, X) /\ ~ Has(r, X) => OnceIn(q \o r, X)
           /\ ~ Has(q, X) /\ OnceIn(r, X) => OnceIn(q \o r, X)
<1> DEFINE t == q \o r
<1>1. /\ t \in Seq(S) /\ Len(q) \in Nat /\ Len(r) \in Nat /\ Len(t) = Len(q) + Len(r)
      /\ \A i \in 1..Len(q) : i \in 1..(Len(q) + Len(r)) /\ t[i] = q[i]
      /\ \A i \in 1..Len(r) : Len(q) + i \in 1..(Len(q) + Len(r)) /\ t[Len(q) + i] = r[i]
      /\ \A i \in 1..(Len(q) + Len(r)) : i \in 1..Len(q) \/ \E j \in 1..Len(r) : i = Len(q) + j
  BY ConcatAt, Zenon
<1>2. Has(t, X) => Has(q, X) \/ Has(r, X)
  BY HasConcat
<1> HIDE DEF t
<1>3. Has(q, X) => Has(t, X)
  BY <1>1, Zenon DEF Has
<1>4. Has(r, X) => Has(t, X)
  BY <1>1, Zenon DEF Has
<1>5. ASSUME OnceIn(q, X), ~ Has(r, X) PROVE OnceIn(t, X)
  <2>1. ASSUME NEW i \in 1..Len(t), t[i] \in X PROVE i \in 1..Len(q) /\ q[i] \in X
    <3>1. i \in 1..Len(q) \/ \E j \in 1..Len(r) : i = Len(q) + j
      BY <1>1
    <3>2. ~ \E j \in 1..Len(r) : i = Len(q) + j
      BY <1>1, <1>5, <2>1, Zenon DEF Has
    <3> QED
      BY <1>1, <2>1, <3>1, <3>2, Zenon
  <2> QED
    BY <1>5, <2>1, Zenon DEF OnceIn
<1>6. ASSUME OnceIn(r, X), ~ Has(q, X) PROVE OnceIn(t, X)
  <2>1. ASSUME NEW i \in 1..Len(t), t[i] \in X PROVE \E j \in 1..Len(r) : i = Len(q) + j /\ r[j] \in X
    <3>1. i \in 1..Len(q) \/ \E j \in 1..Len(r) : i = Len(q) + j
      BY <1>1
    <3>2. i \notin 1..Len(q)
      BY <1>1, <1>6, <2>1, Zenon DEF Has
    <3> QED
      BY <1>1, <2>1, <3>1, <3>2, Zenon
  <2> QED
    BY <1>6, <2>1, Zenon DEF OnceIn
<1> QED
  BY <1>2, <1>3, <1>4, <1>5, <1>6 DEF t

(* ... and when the oldest one is taken.                                   *)
LEMMA InTail ==
    ASSUME NEW S, NEW q \in Seq(S), q # <<>>, NEW X
    PROVE  /\ Has(q, X) <=> Head(q) \in X \/ Has(Tail(q), X)
           /\ OnceIn(q, X) => OnceIn(Tail(q), X) /\ (Head(q) \in X => ~ Has(Tail(q), X))
<1> DEFINE t == Tail(q)
           h == Head(q)
<1>1. /\ 1 \in 1..Len(q) /\ h = q[1] /\ Len(t) \in Nat
      /\ \A i \in 1..Len(t) : i + 1 \in 1..Len(q) /\ t[i] = q[i + 1]
      /\ \A i \in 1..Len(q) : i = 1 \/ \E j \in 1..Len(t) : i = j + 1
  BY TailAt, Zenon
<1> HIDE DEF t, h
<1>2. Has(q, X) <=> h \in X \/ Has(t, X)
  BY <1>1, Zenon DEF Has
<1>3. ASSUME OnceIn(q, X) PROVE OnceIn(t, X)
  <2> SUFFICES ASSUME NEW i \in 1..Len(t), NEW j \in 1..Len(t), t[i] \in X, t[j] \in X
               PROVE  i = j
    BY DEF OnceIn
  <2>1. i + 1 = j + 1
    BY <1>1, <1>3, Zenon DEF OnceIn
  <2> QED
    BY <2>1
<1>4. ASSUME OnceIn(q, X), h \in X, Has(t, X) PROVE FALSE
  <2>1. PICK i \in 1..Len(t) : t[i] \in X
    BY <1>4 DEF Has
  <2>2. i + 1 = 1
    BY <1>1, <1>4, <2>1, Zenon DEF OnceIn
  <2> QED
    BY <2>2
<1> QED
  BY <1>2, <1>3, <1>4 DEF t, h

(* A queue of one message, and none.                                       *)
LEMMA InOne ==
    ASSUME NEW x, NEW X
    PROVE  /\ Has(<<x>>, X) <=> x \in X
           /\ OnceIn(<<x>>, X) /\ OnceIn(<<>>, X) /\ ~ Has(<<>>, X)
<1>1. Len(<<x>>) = 1 /\ <<x>>[1] = x /\ Len(<<>>) = 0
  OBVIOUS
<1>2. (\A i \in 1..1 : i = 1) /\ 1 \in 1..1 /\ (\A i \in 1..0 : FALSE)
  OBVIOUS
<1> QED
  BY <1>1, <1>2 DEF Has, OnceIn

(* A message appended.                                                     *)
LEMMA InAppend ==
    ASSUME NEW S, NEW q \in Seq(S), NEW m \in S, NEW X
    PROVE  /\ Has(Append(q, m), X) <=> Has(q, X) \/ m \in X
           /\ OnceIn(q, X) /\ m \notin X => OnceIn(Append(q, m), X)
           /\ ~ Has(q, X) => OnceIn(Append(q, m), X)
<1>1. PICK r : r = <<m>>
  OBVIOUS
<1>2. r \in Seq(S) /\ Append(q, m) = q \o r
  BY <1>1
<1>3. (Has(r, X) <=> m \in X) /\ OnceIn(r, X)
  BY <1>1, InOne
<1>4. /\ Has(q \o r, X) <=> Has(q, X) \/ Has(r, X)
      /\ OnceIn(q, X) /\ ~ Has(r, X) => OnceIn(q \o r, X)
      /\ ~ Has(q, X) /\ OnceIn(r, X) => OnceIn(q \o r, X)
  BY <1>2, InConcat
<1> QED
  BY <1>2, <1>3, <1>4

(* What a tap on Host or Join leads to: a question, its answer, a waiting  *)
(* room; and what a tap on Leave sends.                                    *)
Asks(d, id)        == {m \in OutMsg(d) : m.op \in {"host", "join"} /\ m.id = id}
Replies(d, id)     == {a \in InMsg(d) : a.op \in {"host", "join"} /\ a.id = id}
EnterBlocks(d, id) == {b \in BlockOf(d) : b.op = "enter" /\ b.id = id}
Removes(id)        == {m \in WriteMsg : m.op = "remove" /\ m.id = id}

Asking(d, id)   == Has(outbox[d], Asks(d, id))
Replied(d, id)  == Has(inbox[d], Replies(d, id))
Entering(d, id) == Has(mainq[d], EnterBlocks(d, id))
Removed(d, id)  == Has(unacked[d], Removes(id))
Coming(d, id)   == Asking(d, id) \/ Replied(d, id) \/ Entering(d, id)

(* A player is at one place on the way to the waiting room, ...            *)
OnePlace(d, id) ==
    /\ OnceIn(outbox[d], Asks(d, id)) /\ OnceIn(inbox[d], Replies(d, id))
    /\ OnceIn(mainq[d], EnterBlocks(d, id))
    /\ ~ (Asking(d, id) /\ Replied(d, id)) /\ ~ (Asking(d, id) /\ Entering(d, id))
    /\ ~ (Replied(d, id) /\ Entering(d, id))

(* ... has not been there, and has not left.                               *)
OneTap(d, id) ==
    /\ OnePlace(d, id)
    /\ Coming(d, id) => current[d] # id /\ ~ Removed(d, id)
    /\ Coming(d, id) \/ Removed(d, id) \/ current[d] = id => id[2] <= taps[d]
    /\ screen[d] = "WaitingRoom" /\ current[d] = id => ~ Removed(d, id)

OwnRemoves(d) == \A id \in Id : Removed(d, id) => DeviceOf(id) = d
TapsInv == \A d \in Devices : OwnRemoves(d) /\ \A id \in Mine(d, Id) : OneTap(d, id)

(* What the other steps send and post.                                     *)
PlainMsg(d)   == {m \in OutMsg(d) : m.op \notin {"host", "join", "setGame", "setPlayer", "remove"}}
PlainWrite    == {m \in WriteMsg : m.op \in {"setNumber", "setRound"}}
PlainBlock(d) == {b \in BlockOf(d) : b.op # "enter"}

RoomsKept ==
    /\ current' = current /\ taps' = taps /\ contested' = contested
    /\ \A e \in Devices : screen'[e] = "WaitingRoom" => screen[e] = "WaitingRoom"

Plain(d) ==
    /\ RoomsKept
    /\ \E xs \in Seq(PlainMsg(d)), ms \in Seq(PlainWrite), bs \in Seq(PlainBlock(d)) : LocalStep(d, xs, ms, bs)

(* One message of those, or none.                                          *)
LEMMA PlainOnes ==
    ASSUME NEW d \in Devices
    PROVE  /\ <<>> \in Seq(PlainMsg(d)) /\ <<>> \in Seq(PlainWrite) /\ <<>> \in Seq(PlainBlock(d))
           /\ \A op \in {"settings", "start", "roster"} : \A id \in Mine(d, Id) :
                <<Get(op, id)>> \in Seq(PlainMsg(d))
           /\ \A players : \A order \in SetToSeqs(Present(players)) :
                StartWrites(order) \in Seq(PlainMsg(d)) /\ StartWrites(order) \in Seq(PlainWrite)
           /\ \A rs \in Seq(RoundBlock(d)) : rs \in Seq(PlainBlock(d)) /\ rs \o <<>> \in Seq(PlainBlock(d))
           /\ \A ss \in Seq(SettingsBlock(d)) : ss \in Seq(PlainBlock(d))
<1>1. ASSUME NEW op \in {"settings", "start", "roster"}, NEW id \in Mine(d, Id)
      PROVE  <<Get(op, id)>> \in Seq(PlainMsg(d))
  <2>1. PICK m : m = Get(op, id)
    OBVIOUS
  <2>2. m \in GetMsg(d) /\ m.op = op
    BY <2>1, GetIs DEF GetOps
  <2>3. m \in PlainMsg(d)
    BY <2>2 DEF PlainMsg, OutMsg
  <2> QED
    BY <2>1, <2>3, SeqOfOne
<1>2. ASSUME NEW players, NEW order \in SetToSeqs(Present(players))
      PROVE  StartWrites(order) \in Seq(PlainMsg(d)) /\ StartWrites(order) \in Seq(PlainWrite)
  <2>1. PICK W : W = StartWrites(order)
    OBVIOUS
  <2>2. /\ W \in Seq(WriteMsg) /\ Len(order) \in Nat /\ Len(W) = Len(order) + 1
        /\ \A i \in 1..Len(order) : W[i] = Msg("setNumber", order[i], i)
        /\ W[Len(order) + 1] = Msg("setRound", NoId, 1)
    BY <2>1, StartWritesAre
  <2>3. ASSUME NEW i \in 1..Len(W) PROVE W[i] \in PlainWrite
    <3>1. W[i] \in WriteMsg
      BY <2>2
    <3>2. W[i].op \in {"setNumber", "setRound"}
      <4>1. CASE i \in 1..Len(order)
        <5>1. W[i] = Msg("setNumber", order[i], i)
          BY <2>2, <4>1
        <5> QED
          BY <5>1 DEF Msg
      <4>2. CASE i = Len(order) + 1
        <5>1. W[i] = Msg("setRound", NoId, 1)
          BY <2>2, <4>2
        <5> QED
          BY <5>1 DEF Msg
      <4>3. i \in 1..Len(order) \/ i = Len(order) + 1
        BY <2>2
      <4> QED
        BY <4>1, <4>2, <4>3
    <3> QED
      BY <3>1, <3>2 DEF PlainWrite
  <2>4. W \in Seq(PlainWrite)
    BY <2>2, <2>3
  <2>5. PlainWrite \subseteq PlainMsg(d)
    BY DEF PlainWrite, PlainMsg, OutMsg
  <2> QED
    BY <2>1, <2>4, <2>5, SeqOfMore
<1>3. RoundBlock(d) \subseteq PlainBlock(d) /\ SettingsBlock(d) \subseteq PlainBlock(d)
  BY DEF RoundBlock, SettingsBlock, PlainBlock, BlockOf
<1>4. \A rs \in Seq(RoundBlock(d)) : rs \in Seq(PlainBlock(d))
  BY <1>3, SeqOfMore
<1>5. \A rs \in Seq(RoundBlock(d)) : rs \o <<>> = rs
  OBVIOUS
<1>6. \A ss \in Seq(SettingsBlock(d)) : ss \in Seq(PlainBlock(d))
  BY <1>3, SeqOfMore
<1>7. <<>> \in Seq(PlainMsg(d)) /\ <<>> \in Seq(PlainWrite) /\ <<>> \in Seq(PlainBlock(d))
  OBVIOUS
<1> QED
  BY <1>1, <1>2, <1>4, <1>5, <1>6, <1>7

(* The steps that neither enter a waiting room nor leave one.              *)
LEMMA PlainSteps ==
    ASSUME LobbyTypes, NEW d \in Devices,
           \/ TapStart(d)
           \/ HostAnswered(d) /\ ~ CodeIsFree(Head(inbox[d]))
           \/ JoinAnswered(d) /\ ~ GameExists(Head(inbox[d]))
           \/ SettingsAnswered(d) \/ StartAnswered(d) \/ RosterAnswered(d)
           \/ Listen(d) \/ UpdateGameSettings(d) \/ CheckRoundNum(d) \/ HandlePlayers(d)
    PROVE  Plain(d)
<1> DEFINE Sent(xs, ms, bs) == /\ xs \in Seq(PlainMsg(d)) /\ ms \in Seq(PlainWrite)
                               /\ bs \in Seq(PlainBlock(d)) /\ LocalStep(d, xs, ms, bs)
<1>1. <<>> \in Seq(PlainMsg(d)) /\ <<>> \in Seq(PlainWrite) /\ <<>> \in Seq(PlainBlock(d))
  BY PlainOnes
<1>2. RoomsKept
  <2>1. screen \in [Devices -> {"Home", "WaitingRoom", "Sheet"}]
    BY DEF LobbyTypes, RoomTypes
  <2>2. CASE TapStart(d) \/ HostAnswered(d) \/ JoinAnswered(d) \/ SettingsAnswered(d)
    BY <2>2 DEF RoomsKept, TapStart, HostAnswered, JoinAnswered, SettingsAnswered, roomVars, tapVars
  <2>3. CASE StartAnswered(d) \/ RosterAnswered(d) \/ Listen(d) \/ CheckRoundNum(d)
    BY <2>3 DEF RoomsKept, StartAnswered, RosterAnswered, Listen, ToldRoundNum, ToldPlayers, CheckRoundNum,
                roomVars, tapVars
  <2>4. CASE UpdateGameSettings(d) \/ HandlePlayers(d)
    BY <2>1, <2>4 DEF RoomsKept, UpdateGameSettings, HandlePlayers, tapVars
  <2> QED
    BY <2>2, <2>3, <2>4
<1> HIDE DEF Sent
<1>3. ASSUME \E xs, ms, bs : Sent(xs, ms, bs) PROVE Plain(d)
  BY <1>2, <1>3 DEF Plain, Sent
<1>4. CASE LocalStep(d, <<>>, <<>>, <<>>)
  <2>1. Sent(<<>>, <<>>, <<>>)
    BY <1>1, <1>4 DEF Sent
  <2> QED
    BY <1>3, <2>1
<1>5. ASSUME NEW bs \in Seq(PlainBlock(d)), LocalStep(d, <<>>, <<>>, bs) PROVE Plain(d)
  <2>1. Sent(<<>>, <<>>, bs)
    BY <1>1, <1>5 DEF Sent
  <2> QED
    BY <1>3, <2>1
<1>6. ASSUME NEW op \in {"start", "roster"}, NEW id \in Mine(d, Id), LocalStep(d, <<Get(op, id)>>, <<>>, <<>>)
      PROVE  Plain(d)
  <2>1. PICK xs : xs = <<Get(op, id)>>
    OBVIOUS
  <2>2. Sent(xs, <<>>, <<>>)
    BY <1>1, <1>6, <2>1, PlainOnes DEF Sent
  <2> QED
    BY <1>3, <2>2
<1>7. ASSUME NEW players, NEW order \in SetToSeqs(Present(players)), NEW bs \in Seq(PlainBlock(d)),
             LocalStep(d, StartWrites(order), StartWrites(order), bs)
      PROVE  Plain(d)
  <2>1. PICK W : W = StartWrites(order)
    OBVIOUS
  <2>2. W \in Seq(PlainMsg(d)) /\ W \in Seq(PlainWrite)
    BY <2>1, PlainOnes
  <2>3. Sent(W, W, bs)
    BY <1>7, <2>1, <2>2 DEF Sent
  <2> QED
    BY <1>3, <2>3
<1>8. CASE TapStart(d)
  <2>1. PICK p : p = LocalView(d).players
    OBVIOUS
  <2>2. CASE \E order \in SetToSeqs(Present(LocalView(d).players)) :
               LocalStep(d, StartWrites(order), StartWrites(order), <<>>)
    BY <1>1, <1>7, <2>1, <2>2
  <2>3. CASE LocalStep(d, <<Get("start", current[d])>>, <<>>, <<>>)
    <3>1. current[d] \in Mine(d, Id)
      BY <1>8 DEF TapStart, LobbyTypes, RoomTypes
    <3> QED
      BY <1>6, <2>3, <3>1
  <2> QED
    BY <1>4, <1>8, <2>2, <2>3, TapStartStep
<1>9. CASE HostAnswered(d) /\ ~ CodeIsFree(Head(inbox[d]))
  BY <1>5, <1>9, HostAnsweredStep, PlainOnes
<1>10. CASE JoinAnswered(d) /\ ~ GameExists(Head(inbox[d]))
  BY <1>5, <1>10, JoinAnsweredStep, PlainOnes
<1>11. CASE SettingsAnswered(d)
  <2>1. PICK bs \in Seq(PlainBlock(d)) : LocalStep(d, <<>>, <<>>, bs)
    <3>1. PICK rs \in Seq(RoundBlock(d)), ss \in Seq(SettingsBlock(d)) : LocalStep(d, <<>>, <<>>, rs \o ss)
      BY <1>11, SettingsAnsweredStep
    <3>2. rs \in Seq(PlainBlock(d)) /\ ss \in Seq(PlainBlock(d))
      BY PlainOnes
    <3>3. rs \o ss \in Seq(PlainBlock(d))
      BY <3>2
    <3> QED
      BY <3>1, <3>3
  <2> QED
    BY <1>5, <2>1
<1>12. CASE StartAnswered(d)
  <2>1. PICK p : p = Head(inbox[d]).players
    OBVIOUS
  <2>2. PICK rs \in Seq(RoundBlock(d)) :
          \/ LocalStep(d, <<>>, <<>>, rs \o <<>>)
          \/ \E order \in SetToSeqs(Present(p)) : LocalStep(d, StartWrites(order), StartWrites(order), rs \o <<>>)
    BY <1>12, <2>1, StartAnsweredStep
  <2>3. PICK bs : bs = rs \o <<>>
    OBVIOUS
  <2>4. bs \in Seq(PlainBlock(d))
    BY <2>3, PlainOnes
  <2>5. \/ LocalStep(d, <<>>, <<>>, bs)
        \/ \E order \in SetToSeqs(Present(p)) : LocalStep(d, StartWrites(order), StartWrites(order), bs)
    BY <2>2, <2>3
  <2> QED
    BY <1>5, <1>7, <2>4, <2>5
<1>13. ASSUME NEW p \in [Id -> Entry], NEW bs \in Seq(RosterBlock(d, p)) PROVE bs \in Seq(PlainBlock(d))
  <2>1. RosterBlock(d, p) \subseteq PlainBlock(d)
    BY DEF RosterBlock, PlainBlock, BlockOf
  <2> QED
    BY <2>1, SeqOfMore
<1>14. CASE RosterAnswered(d)
  <2>1. PICK p : p = Head(inbox[d]).players
    OBVIOUS
  <2>2. p \in [Id -> Entry]
    BY <1>14, <2>1, RosterAnsweredStep DEF InMsg
  <2>3. PICK bs \in Seq(RosterBlock(d, p)) : LocalStep(d, <<>>, <<>>, bs)
    BY <1>14, <2>1, RosterAnsweredStep
  <2> QED
    BY <1>5, <1>13, <2>2, <2>3
<1>15. CASE Listen(d)
  <2>1. PICK id \in listening : ToldRoundNum(d, id) \/ ToldPlayers(d, id)
    BY <1>15 DEF Listen
  <2>2. CASE ToldRoundNum(d, id)
    BY <1>5, <2>2, ToldRoundNumStep, PlainOnes
  <2>3. CASE ToldPlayers(d, id)
    BY <1>4, <2>3, ToldPlayersStep
  <2> QED
    BY <2>1, <2>2, <2>3
<1>16. CASE UpdateGameSettings(d) \/ HandlePlayers(d)
  BY <1>4, <1>16, UpdateGameSettingsStep, HandlePlayersStep
<1>17. CASE CheckRoundNum(d)
  <2>1. PICK p : p = LocalView(d).players
    OBVIOUS
  <2>2. p \in [Id -> Entry]
    BY <2>1, LocalViewIsGame DEF Game
  <2>3. CASE \E bs \in Seq(RosterBlock(d, LocalView(d).players)) : LocalStep(d, <<>>, <<>>, bs)
    BY <1>5, <1>13, <2>1, <2>2, <2>3
  <2>4. CASE \E id \in Mine(d, Id) : Get("roster", id) \in GetMsg(d)
                                       /\ LocalStep(d, <<Get("roster", id)>>, <<>>, <<>>)
    BY <1>6, <2>4
  <2> QED
    BY <1>4, <1>17, <2>3, <2>4, CheckRoundNumStep
<1> QED
  BY <1>8, <1>9, <1>10, <1>11, <1>12, <1>14, <1>15, <1>16, <1>17

(* A step that brings no player on the way, and removes none.              *)
CalmQueues(e, id) ==
    /\ Asking(e, id)' => Asking(e, id)
    /\ Replied(e, id)' => Replied(e, id)
    /\ Entering(e, id)' => Entering(e, id)
    /\ Removed(e, id)' => Removed(e, id)
    /\ OnceIn(outbox[e], Asks(e, id)) => OnceIn(outbox'[e], Asks(e, id))
    /\ OnceIn(inbox[e], Replies(e, id)) => OnceIn(inbox'[e], Replies(e, id))
    /\ OnceIn(mainq[e], EnterBlocks(e, id)) => OnceIn(mainq'[e], EnterBlocks(e, id))

(* Such a step keeps what is known of the player.                          *)
LEMMA TapKept ==
    ASSUME NEW e, NEW id, OneTap(e, id), CalmQueues(e, id), current'[e] = current[e],
           screen'[e] = "WaitingRoom" => screen[e] = "WaitingRoom",
           id[2] <= taps[e] => id[2] <= taps'[e]
    PROVE  OneTap(e, id)'
<1>1. OnePlace(e, id)'
  BY DEF OneTap, OnePlace, CalmQueues
<1>2. Coming(e, id)' => Coming(e, id)
  BY DEF Coming, CalmQueues
<1>3. Removed(e, id)' => Removed(e, id)
  BY DEF CalmQueues
<1>4. (Coming(e, id) => current[e] # id /\ ~ Removed(e, id))
      /\ (Coming(e, id) \/ Removed(e, id) \/ current[e] = id => id[2] <= taps[e])
      /\ (screen[e] = "WaitingRoom" /\ current[e] = id => ~ Removed(e, id))
  BY DEF OneTap
<1> QED
  BY <1>1, <1>2, <1>3, <1>4 DEF OneTap

(* The queues of the other devices are left alone.                         *)
LEMMA SameIsCalm ==
    ASSUME NEW e, NEW id, outbox'[e] = outbox[e], unacked'[e] = unacked[e],
           inbox'[e] = inbox[e], mainq'[e] = mainq[e]
    PROVE  CalmQueues(e, id)
BY DEF CalmQueues, Asking, Replied, Entering, Removed

(* A local step is calm for a player whom it does not ask for, let in or   *)
(* remove.                                                                 *)
LEMMA LocalIsCalm ==
    ASSUME LobbyTypes, NEW d \in Devices, NEW xs, NEW ms, NEW bs, LocalStep(d, xs, ms, bs), NEW id,
           ~ Has(xs, Asks(d, id)), ~ Has(ms, Removes(id)), ~ Has(bs, EnterBlocks(d, id))
    PROVE  CalmQueues(d, id)
<1>0. /\ outbox[d] \in Seq(OutMsg(d)) /\ unacked[d] \in Seq(WriteMsg)
      /\ inbox[d] \in Seq(InMsg(d)) /\ mainq[d] \in Seq(BlockOf(d))
  BY DEF LobbyTypes, QueueTypes, OutTypes, UnTypes, InTypes, MainTypes
<1>1. /\ xs \in Seq(OutMsg(d)) /\ ms \in Seq(WriteMsg) /\ bs \in Seq(BlockOf(d))
      /\ outbox'[d] = outbox[d] \o xs /\ unacked'[d] = unacked[d] \o ms
      /\ inbox'[d] = inbox[d] \/ (inbox[d] # <<>> /\ inbox'[d] = Tail(inbox[d]))
      /\ mainq'[d] = mainq[d] \o bs \/ (mainq[d] # <<>> /\ mainq'[d] = Tail(mainq[d]) \o bs)
  BY DEF LocalStep, Sends, Takes, Posts, OutIs, UnIs, InIs, MainIs, IsNow
<1>2. PICK X, Y, Z, V : X = Asks(d, id) /\ Y = Replies(d, id) /\ Z = EnterBlocks(d, id) /\ V = Removes(id)
  OBVIOUS
<1>3. /\ Has(outbox'[d], X) => Has(outbox[d], X)
      /\ OnceIn(outbox[d], X) => OnceIn(outbox'[d], X)
  BY <1>0, <1>1, <1>2, InConcat
<1>4. Has(unacked'[d], V) => Has(unacked[d], V)
  BY <1>0, <1>1, <1>2, InConcat
<1>5. /\ Has(inbox'[d], Y) => Has(inbox[d], Y)
      /\ OnceIn(inbox[d], Y) => OnceIn(inbox'[d], Y)
  <2>1. CASE inbox[d] # <<>> /\ inbox'[d] = Tail(inbox[d])
    BY <1>0, <2>1, InTail
  <2> QED
    BY <1>1, <2>1
<1>6. /\ Has(mainq'[d], Z) => Has(mainq[d], Z)
      /\ OnceIn(mainq[d], Z) => OnceIn(mainq'[d], Z)
  <2>1. CASE mainq'[d] = mainq[d] \o bs
    BY <1>0, <1>1, <1>2, <2>1, InConcat
  <2>2. CASE mainq[d] # <<>> /\ mainq'[d] = Tail(mainq[d]) \o bs
    <3>1. PICK t : t = Tail(mainq[d])
      OBVIOUS
    <3>2. t \in Seq(BlockOf(d)) /\ mainq'[d] = t \o bs
      BY <1>0, <2>2, <3>1
    <3>3. (Has(t, Z) => Has(mainq[d], Z)) /\ (OnceIn(mainq[d], Z) => OnceIn(t, Z))
      BY <1>0, <2>2, <3>1, InTail
    <3>4. (Has(t \o bs, Z) => Has(t, Z)) /\ (OnceIn(t, Z) => OnceIn(t \o bs, Z))
      BY <1>1, <1>2, <3>2, InConcat
    <3> QED
      BY <3>2, <3>3, <3>4
  <2> QED
    BY <1>1, <2>1, <2>2
<1> QED
  BY <1>2, <1>3, <1>4, <1>5, <1>6 DEF CalmQueues, Asking, Replied, Entering, Removed

(* The queues of the devices that do not step.                             *)
LEMMA OthersSame ==
    ASSUME NEW d \in Devices, NEW xs, NEW ms, NEW bs, LocalStep(d, xs, ms, bs), NEW e \in Devices, e # d
    PROVE  /\ outbox'[e] = outbox[e] /\ unacked'[e] = unacked[e]
           /\ inbox'[e] = inbox[e] /\ mainq'[e] = mainq[e]
BY DEF LocalStep, Sends, Takes, Posts, OutIs, UnIs, InIs, MainIs, IsNow

(* When the one player x of a device who is affected keeps to the rules,   *)
(* and all else is calm, so do all.                                        *)
LEMMA TapsKept ==
    ASSUME TapsInv, NEW d \in Devices, NEW x,
           \A e \in Devices : \A id \in Id : e # d \/ id # x => CalmQueues(e, id),
           \A e \in Devices : e # d => current'[e] = current[e] /\ screen'[e] = screen[e] /\ taps'[e] = taps[e],
           \A id \in Mine(d, Id) : id[2] <= taps[d] => id[2] <= taps'[d],
           x \in Id => (Removed(d, x)' => DeviceOf(x) = d),
           x \in Mine(d, Id) => OneTap(d, x)',
           \A id \in Mine(d, Id) : id # x =>
              /\ current'[d] = id => current[d] = id
              /\ screen'[d] = "WaitingRoom" /\ current'[d] = id => screen[d] = "WaitingRoom"
    PROVE  TapsInv'
<1>1. ASSUME NEW e \in Devices PROVE OwnRemoves(e)'
  <2> SUFFICES ASSUME NEW id \in Id, Removed(e, id)' PROVE DeviceOf(id) = e
    BY DEF OwnRemoves
  <2>1. CASE e = d /\ id = x
    BY <2>1
  <2>2. CASE e # d \/ id # x
    <3>1. Removed(e, id)
      BY <2>2 DEF CalmQueues
    <3> QED
      BY <3>1 DEF TapsInv, OwnRemoves
  <2> QED
    BY <2>1, <2>2
<1>2. ASSUME NEW e \in Devices, NEW id \in Mine(e, Id) PROVE OneTap(e, id)'
  <2>0. id \in Id /\ OneTap(e, id)
    BY MineAre DEF TapsInv
  <2>1. CASE e = d /\ id = x
    BY <2>1
  <2>2. CASE e # d
    BY <2>0, <2>2, TapKept
  <2>3. CASE e = d /\ id # x
    <3>1. CalmQueues(d, id)
      BY <2>0, <2>3
    <3>2. OnePlace(d, id)'
      BY <2>0, <2>3, <3>1 DEF OneTap, OnePlace, CalmQueues
    <3>3. (Coming(d, id)' => Coming(d, id)) /\ (Removed(d, id)' => Removed(d, id))
      BY <3>1 DEF Coming, CalmQueues
    <3>4. /\ current'[d] = id => current[d] = id
          /\ screen'[d] = "WaitingRoom" /\ current'[d] = id => screen[d] = "WaitingRoom"
          /\ id[2] <= taps[d] => id[2] <= taps'[d]
      BY <2>3
    <3> QED
      BY <2>0, <2>3, <3>2, <3>3, <3>4 DEF OneTap
  <2> QED
    BY <2>1, <2>2, <2>3
<1> QED
  BY <1>1, <1>2 DEF TapsInv

(* None of the other messages asks, removes or enters.                     *)
LEMMA PlainHasNone ==
    ASSUME NEW d \in Devices, NEW id
    PROVE  /\ \A xs \in Seq(PlainMsg(d)) : ~ Has(xs, Asks(d, id))
           /\ \A ms \in Seq(PlainWrite) : ~ Has(ms, Removes(id))
           /\ \A bs \in Seq(PlainBlock(d)) : ~ Has(bs, EnterBlocks(d, id))
<1>1. /\ \A m \in PlainMsg(d) : m \notin Asks(d, id)
      /\ \A m \in PlainWrite : m \notin Removes(id)
      /\ \A b \in PlainBlock(d) : b \notin EnterBlocks(d, id)
  BY DEF PlainMsg, PlainWrite, PlainBlock, Asks, Removes, EnterBlocks
<1> QED
  BY <1>1, HasNone

(* The other steps.                                                        *)
LEMMA TapsPlain ==
    ASSUME LobbyTypes, TapsInv, NEW d \in Devices, Plain(d)
    PROVE  TapsInv'
<1>1. PICK xs \in Seq(PlainMsg(d)), ms \in Seq(PlainWrite), bs \in Seq(PlainBlock(d)) : LocalStep(d, xs, ms, bs)
  BY DEF Plain
<1>2. /\ current' = current /\ taps' = taps
      /\ \A e \in Devices : screen'[e] = "WaitingRoom" => screen[e] = "WaitingRoom"
  BY DEF Plain, RoomsKept
<1>3. ASSUME NEW e \in Devices, NEW id PROVE CalmQueues(e, id)
  <2>1. CASE e = d
    BY <1>1, <2>1, PlainHasNone, LocalIsCalm
  <2>2. CASE e # d
    BY <1>1, <2>2, OthersSame, SameIsCalm
  <2> QED
    BY <2>1, <2>2
<1>4. ASSUME NEW e \in Devices PROVE OwnRemoves(e)'
  BY <1>3 DEF TapsInv, OwnRemoves, CalmQueues
<1>5. ASSUME NEW e \in Devices, NEW id \in Mine(e, Id) PROVE OneTap(e, id)'
  <2>1. OneTap(e, id) /\ CalmQueues(e, id)
    BY <1>3 DEF TapsInv
  <2> QED
    BY <1>2, <2>1, TapKept
<1> QED
  BY <1>4, <1>5 DEF TapsInv

(* A tap on Host or Join is about a player who has not been anywhere.      *)
LEMMA TapsAsk ==
    ASSUME LobbyTypes, TapsInv, NEW d \in Devices, TapHost(d) \/ TapJoin(d)
    PROVE  TapsInv'
<1>1. PICK x : x = <<d, taps[d] + 1>>
  OBVIOUS
<1>2. PICK m : m \in GetMsg(d) /\ m.op \in {"host", "join"} /\ m.id = x /\ LocalStep(d, <<m>>, <<>>, <<>>)
  <2>1. CASE TapHost(d)
    BY <1>1, <2>1, TapHostStep DEF Get, Msg
  <2>2. CASE TapJoin(d)
    BY <1>1, <2>2, TapJoinStep DEF Get, Msg
  <2> QED
    BY <2>1, <2>2
<1>3. /\ current' = current /\ screen' = screen /\ taps' = [taps EXCEPT ![d] = taps[d] + 1]
      /\ taps \in [Devices -> 0..MaxTaps] /\ taps[d] + 1 <= MaxTaps /\ MaxTaps \in Nat
  BY LobbyAssumption DEF TapHost, TapJoin, roomVars, LobbyTypes, TapTypes
<1>4. x \in Mine(d, Id) /\ x[2] = taps[d] + 1 /\ taps'[d] = taps[d] + 1 /\ taps[d] \in Nat
  <2>1. taps[d] + 1 \in 1..MaxTaps /\ taps[d] \in Nat
    BY <1>3
  <2> QED
    BY <1>1, <1>3, <2>1, MineAre
<1>5. /\ ~ Coming(d, x) /\ ~ Removed(d, x) /\ current[d] # x /\ OnePlace(d, x)
  <2>1. OneTap(d, x)
    BY <1>4 DEF TapsInv
  <2>2. ~ (x[2] <= taps[d])
    BY <1>4
  <2> QED
    BY <2>1, <2>2 DEF OneTap
<1>6. ASSUME NEW id, id # x PROVE CalmQueues(d, id)
  <2>1. m \notin Asks(d, id)
    BY <1>2, <1>6 DEF Asks
  <2>2. ~ Has(<<m>>, Asks(d, id)) /\ ~ Has(<<>>, Removes(id)) /\ ~ Has(<<>>, EnterBlocks(d, id))
    BY <2>1, InOne
  <2> QED
    BY <1>2, <2>2, LocalIsCalm
<1>7. ASSUME NEW e \in Devices, NEW id \in Id, e # d \/ id # x PROVE CalmQueues(e, id)
  <2>1. CASE e = d
    BY <1>6, <1>7, <2>1
  <2>2. CASE e # d
    BY <1>2, <2>2, OthersSame, SameIsCalm
  <2> QED
    BY <2>1, <2>2
<1>8. OneTap(d, x)' /\ ~ Removed(d, x)'
  <2>0. /\ outbox[d] \in Seq(OutMsg(d)) /\ unacked[d] \in Seq(WriteMsg)
        /\ inbox[d] \in Seq(InMsg(d)) /\ mainq[d] \in Seq(BlockOf(d))
    BY DEF LobbyTypes, QueueTypes, OutTypes, UnTypes, InTypes, MainTypes
  <2>1. PICK r : r = <<m>>
    OBVIOUS
  <2>2. r \in Seq(OutMsg(d)) /\ outbox'[d] = outbox[d] \o r
    BY <1>2, <2>1, SeqOfOne DEF LocalStep, Sends, OutIs, IsNow, OutMsg
  <2>3. unacked' = unacked \/ unacked'[d] = unacked[d]
    <3>1. unacked'[d] = unacked[d] \o <<>>
      BY <1>2 DEF LocalStep, Sends, UnIs, IsNow
    <3> QED
      BY <2>0, <3>1
  <2>4. inbox' = inbox /\ mainq' = mainq
    BY DEF TapHost, TapJoin
  <2>5. OnceIn(outbox'[d], Asks(d, x))
    <3>1. OnceIn(r, Asks(d, x)) /\ ~ Has(outbox[d], Asks(d, x))
      BY <1>5, <2>1, InOne DEF Coming, Asking
    <3> QED
      BY <2>0, <2>2, <3>1, InConcat
  <2>6. ~ Replied(d, x)' /\ ~ Entering(d, x)' /\ ~ Removed(d, x)'
    BY <1>5, <2>3, <2>4 DEF Coming, Replied, Entering, Removed
  <2>7. OnePlace(d, x)'
    BY <1>5, <2>4, <2>5, <2>6 DEF OnePlace
  <2>8. x[2] <= taps'[d] /\ current'[d] # x
    BY <1>3, <1>4, <1>5
  <2> QED
    BY <2>6, <2>7, <2>8 DEF OneTap
<1>9. \A e \in Devices : e # d => current'[e] = current[e] /\ screen'[e] = screen[e] /\ taps'[e] = taps[e]
  BY <1>3
<1>10. \A id \in Mine(d, Id) : id[2] <= taps[d] => id[2] <= taps'[d]
  <2>1. \A id \in Mine(d, Id) : id[2] \in 1..MaxTaps
    BY DEF Mine, Id
  <2> QED
    BY <1>3, <1>4, <2>1
<1> QED
  BY <1>3, <1>7, <1>8, <1>9, <1>10, TapsKept

(* A tap on Leave removes the player of the screen only.                   *)
LEMMA TapsLeave ==
    ASSUME LobbyTypes, TapsInv, NEW d \in Devices, TapLeave(d)
    PROVE  TapsInv'
<1>1. PICK x : x = current[d]
  OBVIOUS
<1>2. PICK m : m = Msg("remove", x, 0)
  OBVIOUS
<1>3. /\ x \in Mine(d, Id)
      /\ LocalStep(d, <<>>, <<>>, <<>>) \/ LocalStep(d, <<m>>, <<m>>, <<>>)
  BY <1>1, <1>2, TapLeaveStep
<1>4. m.op = "remove" /\ m.id = x /\ screen[d] = "WaitingRoom"
  BY <1>2 DEF Msg, TapLeave
<1>5. /\ current' = current /\ taps' = taps /\ screen' = [screen EXCEPT ![d] = "Home"]
      /\ screen \in [Devices -> {"Home", "WaitingRoom", "Sheet"}]
  BY DEF TapLeave, tapVars, LobbyTypes, RoomTypes
<1>6. PICK ms : (ms = <<>> \/ ms = <<m>>) /\ LocalStep(d, ms, ms, <<>>)
  BY <1>3
<1>7. ASSUME NEW id, id # x PROVE CalmQueues(d, id)
  <2>1. m \notin Asks(d, id) /\ m \notin Removes(id)
    BY <1>4, <1>7 DEF Asks, Removes
  <2>2. ~ Has(ms, Asks(d, id)) /\ ~ Has(ms, Removes(id)) /\ ~ Has(<<>>, EnterBlocks(d, id))
    BY <1>6, <2>1, InOne
  <2> QED
    BY <1>6, <2>2, LocalIsCalm
<1>8. ASSUME NEW e \in Devices, NEW id \in Id, e # d \/ id # x PROVE CalmQueues(e, id)
  <2>1. CASE e = d
    BY <1>7, <1>8, <2>1
  <2>2. CASE e # d
    BY <1>6, <2>2, OthersSame, SameIsCalm
  <2> QED
    BY <2>1, <2>2
<1>9. OneTap(d, x)'
  <2>1. OneTap(d, x)
    BY <1>3 DEF TapsInv
  <2>2. x[2] <= taps[d] /\ ~ Coming(d, x) /\ OnePlace(d, x)
    BY <1>1, <2>1 DEF OneTap
  <2>3. m \notin Asks(d, x)
    BY <1>4 DEF Asks
  <2>4. /\ outbox[d] \in Seq(OutMsg(d)) /\ ms \in Seq(OutMsg(d)) /\ outbox'[d] = outbox[d] \o ms
    BY <1>6 DEF LobbyTypes, QueueTypes, OutTypes, LocalStep, Sends, OutIs, IsNow
  <2>5. ~ Has(ms, Asks(d, x))
    BY <1>6, <2>3, InOne
  <2>6. ~ Has(outbox'[d], Asks(d, x)) /\ OnceIn(outbox'[d], Asks(d, x))
    BY <2>2, <2>4, <2>5, InConcat DEF Coming, Asking, OnePlace
  <2>7. inbox' = inbox /\ mainq' = mainq
    BY DEF TapLeave
  <2>8. ~ Coming(d, x)' /\ OnePlace(d, x)'
    BY <2>2, <2>6, <2>7 DEF Coming, Asking, Replied, Entering, OnePlace
  <2>9. x[2] <= taps'[d] /\ screen'[d] # "WaitingRoom"
    BY <1>5, <2>2
  <2> QED
    BY <2>8, <2>9 DEF OneTap
<1>10. DeviceOf(x) = d
  BY <1>3, MineAre
<1>11. \A e \in Devices : e # d => current'[e] = current[e] /\ screen'[e] = screen[e] /\ taps'[e] = taps[e]
  BY <1>5
<1>12. \A id \in Mine(d, Id) : id # x =>
              /\ current'[d] = id => current[d] = id
              /\ screen'[d] = "WaitingRoom" /\ current'[d] = id => screen[d] = "WaitingRoom"
  BY <1>4, <1>5
<1> QED
  BY <1>5, <1>8, <1>9, <1>10, <1>11, <1>12, TapsKept

(* The answer that lets a player x into the game: m is written, and the    *)
(* waiting room will open.                                                 *)
Accepts(d, x, m, bs) ==
    /\ x \in Mine(d, Id) /\ inbox[d] # <<>> /\ Head(inbox[d]) \in Replies(d, x)
    /\ inbox'[d] = Tail(inbox[d])
    /\ m \in WriteMsg /\ m.id = x
    /\ \/ m.op = "setGame" /\ Head(inbox[d]) \in FreeAnswers(d)
       \/ m.op = "setPlayer" /\ Head(inbox[d]).op = "join" /\ Head(inbox[d]).exists
    /\ LocalStep(d, <<m>>, <<m>>, bs)
    /\ OnceIn(bs, EnterBlocks(d, x)) /\ \A id : id # x => ~ Has(bs, EnterBlocks(d, id))
    /\ current' = current /\ screen' = screen /\ taps' = taps /\ contested' = contested

(* Only the last block of such an answer enters.                           *)
LEMMA EnterLast ==
    ASSUME NEW d \in Devices, NEW x \in Mine(d, Id), NEW rs \in Seq(RoundBlock(d)), NEW h \in BOOLEAN
    PROVE  /\ OnceIn(rs \o Enters(x, h), EnterBlocks(d, x))
           /\ \A id : id # x => ~ Has(rs \o Enters(x, h), EnterBlocks(d, id))
<1>1. PICK b : b = [op |-> "enter", id |-> x, isHost |-> h]
  OBVIOUS
<1>2. PICK es : es = <<b>>
  OBVIOUS
<1>3. es = Enters(x, h) /\ es \in Seq(BlockOf(d)) /\ b.id = x
  BY <1>1, <1>2, EntersAre DEF Enters
<1>4. RoundBlock(d) \subseteq BlockOf(d)
  BY DEF BlockOf
<1>5. rs \in Seq(BlockOf(d))
  BY <1>4, SeqOfMore
<1>6. \A id : ~ Has(rs, EnterBlocks(d, id))
  BY PlainOnes, PlainHasNone
<1>7. OnceIn(es, EnterBlocks(d, x))
  BY <1>2, InOne
<1>8. ASSUME NEW id, id # x PROVE ~ Has(es, EnterBlocks(d, id))
  <2>1. b \notin EnterBlocks(d, id)
    BY <1>3, <1>8 DEF EnterBlocks
  <2> QED
    BY <1>2, <2>1, InOne
<1>9. OnceIn(rs \o es, EnterBlocks(d, x))
  BY <1>3, <1>5, <1>6, <1>7, InConcat
<1>10. \A id : id # x => ~ Has(rs \o es, EnterBlocks(d, id))
  BY <1>3, <1>5, <1>6, <1>8, InConcat
<1> QED
  BY <1>3, <1>9, <1>10

(* hostGame for a free code, ...                                           *)
LEMMA HostAccepts ==
    ASSUME LobbyTypes, NEW d \in Devices, HostAnswered(d), CodeIsFree(Head(inbox[d]))
    PROVE  \E x, m, bs : m.op = "setGame" /\ Accepts(d, x, m, bs)
<1>1. PICK a, x : a = Head(inbox[d]) /\ x = a.id
  OBVIOUS
<1>2. PICK m : m = Msg("setGame", x, 0)
  OBVIOUS
<1>3. /\ inbox[d] # <<>> /\ a \in InMsg(d) /\ a.op = "host" /\ x \in Mine(d, Id) /\ ~ a.exists
      /\ InIs(d, Tail(inbox[d]))
  BY <1>1, HostAnsweredStep DEF CodeIsFree
<1>4. PICK rs \in Seq(RoundBlock(d)) : LocalStep(d, <<m>>, <<m>>, rs \o Enters(x, TRUE))
  BY <1>1, <1>2, HostAnsweredStep
<1>5. inbox'[d] = Tail(inbox[d])
  BY <1>3 DEF InIs, IsNow
<1>6. m \in WriteMsg /\ m.op = "setGame" /\ m.id = x
  BY <1>2, <1>3, MsgIs, MineAre DEF WriteOps, Msg
<1>7. a \in Replies(d, x) /\ a \in FreeAnswers(d)
  BY <1>1, <1>3 DEF Replies, FreeAnswers
<1>8. PICK bs : bs = rs \o Enters(x, TRUE)
  OBVIOUS
<1>9. OnceIn(bs, EnterBlocks(d, x)) /\ \A id : id # x => ~ Has(bs, EnterBlocks(d, id))
  BY <1>3, <1>8, EnterLast
<1>10. current' = current /\ screen' = screen /\ taps' = taps /\ contested' = contested
  BY DEF HostAnswered, roomVars, tapVars
<1>11. Accepts(d, x, m, bs)
  BY <1>1, <1>3, <1>4, <1>5, <1>6, <1>7, <1>8, <1>9, <1>10 DEF Accepts
<1> QED
  BY <1>6, <1>11

(* ... and joinGame for a game that exists.                                *)
LEMMA JoinAccepts ==
    ASSUME LobbyTypes, NEW d \in Devices, JoinAnswered(d), GameExists(Head(inbox[d]))
    PROVE  \E x, m, bs : m.op = "setPlayer" /\ Accepts(d, x, m, bs)
<1>1. PICK a, x : a = Head(inbox[d]) /\ x = a.id
  OBVIOUS
<1>2. PICK m : m = Msg("setPlayer", x, 0)
  OBVIOUS
<1>3. /\ inbox[d] # <<>> /\ a \in InMsg(d) /\ a.op = "join" /\ x \in Mine(d, Id) /\ a.exists
      /\ InIs(d, Tail(inbox[d]))
  BY <1>1, JoinAnsweredStep DEF GameExists
<1>4. PICK rs \in Seq(RoundBlock(d)) : LocalStep(d, <<m>>, <<m>>, rs \o Enters(x, FALSE))
  BY <1>1, <1>2, JoinAnsweredStep
<1>5. inbox'[d] = Tail(inbox[d])
  BY <1>3 DEF InIs, IsNow
<1>6. m \in WriteMsg /\ m.op = "setPlayer" /\ m.id = x
  BY <1>2, <1>3, MsgIs, MineAre DEF WriteOps, Msg
<1>7. a \in Replies(d, x)
  BY <1>1, <1>3 DEF Replies
<1>8. PICK bs : bs = rs \o Enters(x, FALSE)
  OBVIOUS
<1>9. OnceIn(bs, EnterBlocks(d, x)) /\ \A id : id # x => ~ Has(bs, EnterBlocks(d, id))
  BY <1>3, <1>8, EnterLast
<1>10. current' = current /\ screen' = screen /\ taps' = taps /\ contested' = contested
  BY DEF JoinAnswered, roomVars, tapVars
<1>11. Accepts(d, x, m, bs)
  BY <1>1, <1>3, <1>4, <1>5, <1>6, <1>7, <1>8, <1>9, <1>10 DEF Accepts
<1> QED
  BY <1>6, <1>11

(* The player moves from the answer to the waiting room's block.           *)
LEMMA TapsAccept ==
    ASSUME LobbyTypes, TapsInv, NEW d \in Devices, NEW x, NEW m, NEW bs, Accepts(d, x, m, bs)
    PROVE  TapsInv'
<1>0. /\ outbox[d] \in Seq(OutMsg(d)) /\ unacked[d] \in Seq(WriteMsg)
      /\ inbox[d] \in Seq(InMsg(d)) /\ mainq[d] \in Seq(BlockOf(d))
  BY DEF LobbyTypes, QueueTypes, OutTypes, UnTypes, InTypes, MainTypes
<1>1. /\ x \in Mine(d, Id) /\ inbox[d] # <<>> /\ Head(inbox[d]) \in Replies(d, x) /\ inbox'[d] = Tail(inbox[d])
      /\ m \in WriteMsg /\ m.op \in {"setGame", "setPlayer"}
      /\ LocalStep(d, <<m>>, <<m>>, bs)
      /\ OnceIn(bs, EnterBlocks(d, x)) /\ \A id : id # x => ~ Has(bs, EnterBlocks(d, id))
      /\ current' = current /\ screen' = screen /\ taps' = taps
  BY DEF Accepts
<1>2. \A id : m \notin Asks(d, id) /\ m \notin Removes(id)
  BY <1>1 DEF Asks, Removes
<1>3. \A id : ~ Has(<<m>>, Asks(d, id)) /\ ~ Has(<<m>>, Removes(id))
  BY <1>2, InOne
<1>4. ASSUME NEW e \in Devices, NEW id \in Id, e # d \/ id # x PROVE CalmQueues(e, id)
  <2>1. CASE e = d
    BY <1>1, <1>3, <1>4, <2>1, LocalIsCalm
  <2>2. CASE e # d
    BY <1>1, <2>2, OthersSame, SameIsCalm
  <2> QED
    BY <2>1, <2>2
<1>5. OneTap(d, x)
  BY <1>1 DEF TapsInv
<1>6. Replied(d, x) /\ ~ Has(inbox'[d], Replies(d, x))
  BY <1>0, <1>1, <1>5, InTail DEF OneTap, OnePlace, Replied
<1>7. /\ ~ Asking(d, x) /\ ~ Entering(d, x) /\ ~ Removed(d, x) /\ current[d] # x /\ x[2] <= taps[d]
      /\ OnceIn(outbox[d], Asks(d, x)) /\ OnceIn(inbox[d], Replies(d, x))
  BY <1>5, <1>6 DEF OneTap, OnePlace, Coming
<1>8. PICK r : r = <<m>>
  OBVIOUS
<1>9. /\ r \in Seq(OutMsg(d)) /\ r \in Seq(WriteMsg) /\ bs \in Seq(BlockOf(d))
      /\ outbox'[d] = outbox[d] \o r /\ unacked'[d] = unacked[d] \o r
      /\ mainq'[d] = mainq[d] \o bs \/ (mainq[d] # <<>> /\ mainq'[d] = Tail(mainq[d]) \o bs)
  BY <1>1, <1>8 DEF LocalStep, Sends, Posts, OutIs, UnIs, MainIs, IsNow
<1>10. ~ Asking(d, x)' /\ OnceIn(outbox'[d], Asks(d, x))
  <2>1. ~ Has(r, Asks(d, x)) /\ ~ Has(outbox[d], Asks(d, x))
    BY <1>3, <1>7, <1>8 DEF Asking
  <2> QED
    BY <1>0, <1>7, <1>9, <2>1, InConcat DEF Asking
<1>11. ~ Removed(d, x)'
  <2>1. ~ Has(r, Removes(x)) /\ ~ Has(unacked[d], Removes(x))
    BY <1>3, <1>7, <1>8 DEF Removed
  <2> QED
    BY <1>0, <1>9, <2>1, InConcat DEF Removed
<1>12. OnceIn(inbox'[d], Replies(d, x))
  BY <1>0, <1>1, <1>7, InTail
<1>13. OnceIn(mainq'[d], EnterBlocks(d, x))
  <2>1. CASE mainq'[d] = mainq[d] \o bs
    BY <1>0, <1>1, <1>7, <1>9, <2>1, InConcat DEF Entering
  <2>2. CASE mainq[d] # <<>> /\ mainq'[d] = Tail(mainq[d]) \o bs
    <3>1. PICK t : t = Tail(mainq[d])
      OBVIOUS
    <3>2. t \in Seq(BlockOf(d)) /\ mainq'[d] = t \o bs
      BY <1>0, <2>2, <3>1
    <3>3. ~ Has(t, EnterBlocks(d, x))
      BY <1>0, <1>7, <2>2, <3>1, InTail DEF Entering
    <3> QED
      BY <1>1, <1>9, <3>2, <3>3, InConcat
  <2> QED
    BY <1>9, <2>1, <2>2
<1>14. OneTap(d, x)'
  BY <1>1, <1>6, <1>7, <1>10, <1>11, <1>12, <1>13 DEF OneTap, OnePlace, Replied
<1> QED
  BY <1>1, <1>4, <1>11, <1>14, TapsKept

(* The waiting room opens for the player of the oldest block.              *)
LEMMA TapsEnter ==
    ASSUME LobbyTypes, TapsInv, NEW d \in Devices, Enter(d)
    PROVE  TapsInv'
<1>0. /\ outbox[d] \in Seq(OutMsg(d)) /\ unacked[d] \in Seq(WriteMsg)
      /\ inbox[d] \in Seq(InMsg(d)) /\ mainq[d] \in Seq(BlockOf(d))
  BY DEF LobbyTypes, QueueTypes, OutTypes, UnTypes, InTypes, MainTypes
<1>1. PICK b, x : b = Head(mainq[d]) /\ x = b.id
  OBVIOUS
<1>2. /\ mainq[d] # <<>> /\ b \in BlockOf(d) /\ b.op = "enter" /\ x \in Mine(d, Id)
  BY <1>1, BlockIs DEF Enter
<1>3. b \in EnterBlocks(d, x)
  BY <1>1, <1>2 DEF EnterBlocks
<1>4. PICK xs \in Seq(PlainMsg(d)), bs \in Seq(PlainBlock(d)) :
        LocalStep(d, xs, <<>>, bs) /\ mainq'[d] = Tail(mainq[d]) \o bs
  <2>2. Tail(mainq[d]) = Tail(mainq[d]) \o <<>>
    BY <1>0, <1>2
  <2>3. CASE Shadowed(d)
    <3>1. PICK bs : bs = SettingsBlocks(x, LocalView(d))
      OBVIOUS
    <3>2. bs \in Seq(SettingsBlock(d)) /\ bs \in Seq(BlockOf(d)) /\ bs \in Seq(PlainBlock(d))
      BY <1>2, <3>1, SettingsBlocksAre, PlainOnes
    <3>3. Blocks(d, Tail(mainq[d]) \o bs) /\ outbox' = outbox /\ unacked' = unacked /\ inbox' = inbox /\ db' = db
      BY <1>1, <2>3, <3>1 DEF Enter
    <3>4. LocalStep(d, <<>>, <<>>, bs)
      BY <1>2, <3>2, <3>3, BlocksPost, SendsNothing, TakesNothing DEF LocalStep
    <3>5. mainq'[d] = Tail(mainq[d]) \o bs
      BY <3>3 DEF Blocks, LobbyTypes, QueueTypes, MainTypes, OnDevices
    <3> QED
      BY <3>2, <3>4, <3>5, PlainOnes
  <2>4. CASE ~ Shadowed(d)
    <3>1. PICK g : g = Get("settings", x)
      OBVIOUS
    <3>2. g \in GetMsg(d) /\ <<g>> \in Seq(PlainMsg(d))
      BY <1>2, <3>1, GetIs, PlainOnes DEF GetOps
    <3>3. Blocks(d, Tail(mainq[d])) /\ Ask(d, g) /\ inbox' = inbox /\ db' = db
      BY <1>1, <2>4, <3>1 DEF Enter
    <3>4. Posts(d, <<>>)
      <4>1. <<>> \in Seq(BlockOf(d))
        OBVIOUS
      <4> QED
        BY <1>2, <3>3, <4>1, BlocksPost
    <3>5. LocalStep(d, <<g>>, <<>>, <<>>)
      BY <3>2, <3>3, <3>4, AskSends, TakesNothing DEF LocalStep
    <3>6. mainq'[d] = Tail(mainq[d])
      BY <3>3 DEF Blocks, LobbyTypes, QueueTypes, MainTypes, OnDevices
    <3> QED
      BY <2>2, <3>2, <3>5, <3>6, PlainOnes
  <2> QED
    BY <2>3, <2>4
<1>5. ASSUME NEW e \in Devices, NEW id PROVE CalmQueues(e, id)
  <2>1. CASE e = d
    BY <1>4, <2>1, PlainOnes, PlainHasNone, LocalIsCalm
  <2>2. CASE e # d
    BY <1>4, <2>2, OthersSame, SameIsCalm
  <2> QED
    BY <2>1, <2>2
<1>6. /\ current' = [current EXCEPT ![d] = x] /\ screen' = [screen EXCEPT ![d] = "WaitingRoom"]
      /\ taps' = taps /\ OnDevices(current) /\ OnDevices(screen)
  BY <1>1 DEF Enter, tapVars, LobbyTypes, RoomTypes, OnDevices
<1>7. /\ current'[d] = x
      /\ \A e \in Devices : e # d => current'[e] = current[e] /\ screen'[e] = screen[e] /\ taps'[e] = taps[e]
  BY <1>6 DEF OnDevices
<1>8. OneTap(d, x)
  BY <1>2 DEF TapsInv
<1>9. PICK t : t = Tail(mainq[d])
  OBVIOUS
<1>10. t \in Seq(BlockOf(d)) /\ mainq'[d] = t \o bs /\ bs \in Seq(BlockOf(d))
  BY <1>0, <1>2, <1>4, <1>9 DEF LocalStep, Posts
<1>11. Entering(d, x) /\ ~ Has(t, EnterBlocks(d, x))
  BY <1>0, <1>1, <1>2, <1>3, <1>8, <1>9, InTail DEF Entering, OneTap, OnePlace
<1>12. ~ Has(bs, EnterBlocks(d, x))
  BY <1>4, PlainHasNone
<1>13. ~ Entering(d, x)'
  BY <1>10, <1>11, <1>12, InConcat DEF Entering
<1>14. ~ Asking(d, x) /\ ~ Replied(d, x) /\ ~ Removed(d, x) /\ x[2] <= taps[d]
  BY <1>8, <1>11 DEF OneTap, OnePlace, Coming
<1>15. CalmQueues(d, x)
  BY <1>5
<1>16. ~ Coming(d, x)' /\ ~ Removed(d, x)' /\ OnePlace(d, x)'
  BY <1>8, <1>13, <1>14, <1>15 DEF CalmQueues, Coming, OneTap, OnePlace
<1>17. OneTap(d, x)'
  BY <1>6, <1>14, <1>16 DEF OneTap
<1> QED
  BY <1>5, <1>6, <1>7, <1>16, <1>17, TapsKept

(* The server answers: a question becomes its answer.                      *)
LEMMA TapsDeliver ==
    ASSUME LobbyTypes, TapsInv, NEW d \in Devices, Deliver(d)
    PROVE  TapsInv'
<1>0. /\ outbox[d] \in Seq(OutMsg(d)) /\ inbox[d] \in Seq(InMsg(d))
  BY DEF LobbyTypes, QueueTypes, OutTypes, InTypes
<1>1. PICK h, a : h = Head(outbox[d]) /\ a = Answer(h)
  OBVIOUS
<1>2. /\ outbox[d] # <<>> /\ h \in OutMsg(d) /\ a \in InMsg(d)
      /\ OutIs(d, Tail(outbox[d])) /\ InIs(d, Append(inbox[d], a))
      /\ unacked' = unacked /\ mainq' = mainq
  BY <1>1, DeliverStep
<1>3. a.op = h.op /\ a.id = h.id
  BY <1>1 DEF Answer
<1>4. /\ outbox'[d] = Tail(outbox[d]) /\ inbox'[d] = Append(inbox[d], a)
      /\ \A e \in Devices : e # d => outbox'[e] = outbox[e] /\ inbox'[e] = inbox[e]
  BY <1>2 DEF OutIs, InIs, IsNow
<1>5. screen' = screen /\ current' = current /\ taps' = taps
  BY DEF Deliver, roomVars, tapVars
<1>6. ASSUME NEW id, h \notin Asks(d, id) PROVE CalmQueues(d, id)
  <2>1. a \notin Replies(d, id)
    BY <1>2, <1>3, <1>6 DEF Asks, Replies
  <2>2. /\ Has(outbox'[d], Asks(d, id)) => Has(outbox[d], Asks(d, id))
        /\ OnceIn(outbox[d], Asks(d, id)) => OnceIn(outbox'[d], Asks(d, id))
    BY <1>0, <1>2, <1>4, InTail
  <2>3. /\ Has(inbox'[d], Replies(d, id)) => Has(inbox[d], Replies(d, id))
        /\ OnceIn(inbox[d], Replies(d, id)) => OnceIn(inbox'[d], Replies(d, id))
    BY <1>0, <1>2, <1>4, <2>1, InAppend
  <2> QED
    BY <1>2, <2>2, <2>3 DEF CalmQueues, Asking, Replied, Entering, Removed
<1>7. PICK x : x = h.id
  OBVIOUS
<1>8. ASSUME NEW e \in Devices, NEW id \in Id, e # d \/ id # x PROVE CalmQueues(e, id)
  <2>1. CASE e = d
    BY <1>6, <1>7, <1>8, <2>1 DEF Asks
  <2>2. CASE e # d
    BY <1>2, <1>4, <2>2, SameIsCalm
  <2> QED
    BY <2>1, <2>2
<1>9. ASSUME x \in Id PROVE Removed(d, x)' => DeviceOf(x) = d
  BY <1>2, <1>9 DEF TapsInv, OwnRemoves, Removed
<1>10. ASSUME x \in Mine(d, Id) PROVE OneTap(d, x)'
  <2>1. OneTap(d, x)
    BY <1>10 DEF TapsInv
  <2>2. CASE h \notin Asks(d, x)
    BY <1>5, <1>6, <2>1, <2>2, TapKept
  <2>3. CASE h \in Asks(d, x)
    <3>1. Asking(d, x) /\ ~ Has(outbox'[d], Asks(d, x)) /\ OnceIn(outbox'[d], Asks(d, x))
      BY <1>0, <1>1, <1>2, <1>4, <2>1, <2>3, InTail DEF Asking, OneTap, OnePlace
    <3>2. /\ ~ Replied(d, x) /\ ~ Entering(d, x) /\ ~ Removed(d, x) /\ current[d] # x /\ x[2] <= taps[d]
          /\ OnceIn(mainq[d], EnterBlocks(d, x))
      BY <2>1, <3>1 DEF OneTap, OnePlace, Coming
    <3>3. OnceIn(inbox'[d], Replies(d, x))
      BY <1>0, <1>2, <1>4, <3>2, InAppend DEF Replied
    <3> QED
      BY <1>2, <1>5, <3>1, <3>2, <3>3 DEF OneTap, OnePlace, Asking, Entering, Removed
  <2> QED
    BY <2>2, <2>3
<1> QED
  BY <1>5, <1>8, <1>9, <1>10, TapsKept

(* A write is not a question.                                              *)
LEMMA WritesAskNothing ==
    ASSUME NEW d \in Devices, NEW q \in Seq(WriteMsg), NEW id
    PROVE  ~ Has(q, Asks(d, id))
<1>1. \A m \in WriteMsg : m \notin Asks(d, id)
  BY DEF WriteMsg, Asks, WriteOps
<1> QED
  BY <1>1, HasNone

(* Faults and acknowledgements bring nobody on the way.                    *)
LEMMA TapsNetwork ==
    ASSUME LobbyTypes, Mirror, TapsInv, NEW d \in Devices, GetFails(d) \/ LoseConnection(d) \/ AckWrite(d)
    PROVE  TapsInv'
<1>0. /\ outbox[d] \in Seq(OutMsg(d)) /\ inbox[d] \in Seq(InMsg(d)) /\ unacked[d] \in Seq(WriteMsg)
  BY DEF LobbyTypes, QueueTypes, OutTypes, InTypes, UnTypes
<1>1. screen' = screen /\ current' = current /\ taps' = taps
  BY DEF GetFails, LoseConnection, AckWrite, roomVars, tapVars
<1>2. ASSUME NEW e \in Devices, NEW id PROVE CalmQueues(e, id)
  <2>1. CASE GetFails(d)
    <3>1. /\ outbox[d] # <<>> /\ OutIs(d, Tail(outbox[d])) /\ unacked' = unacked /\ mainq' = mainq /\ inbox' = inbox
      BY <2>1, GetFailsStep
    <3>2. outbox'[d] = Tail(outbox[d]) /\ (e # d => outbox'[e] = outbox[e])
      BY <3>1 DEF OutIs, IsNow
    <3>3. CASE e = d
      <4>1. /\ Has(outbox'[d], Asks(d, id)) => Has(outbox[d], Asks(d, id))
            /\ OnceIn(outbox[d], Asks(d, id)) => OnceIn(outbox'[d], Asks(d, id))
        BY <1>0, <3>1, <3>2, InTail
      <4> QED
        BY <3>1, <3>3, <4>1 DEF CalmQueues, Asking, Replied, Entering, Removed
    <3>4. CASE e # d
      BY <3>1, <3>2, <3>4, SameIsCalm
    <3> QED
      BY <3>3, <3>4
  <2>2. CASE LoseConnection(d)
    <3>1. /\ OutIs(d, unacked[d]) /\ InIs(d, <<>>) /\ unacked' = unacked /\ mainq' = mainq
      BY <2>2, LoseConnectionStep
    <3>2. /\ outbox'[d] = unacked[d] /\ (e # d => outbox'[e] = outbox[e])
          /\ inbox'[d] = <<>> /\ (e # d => inbox'[e] = inbox[e])
      BY <3>1 DEF OutIs, InIs, IsNow
    <3>3. CASE e = d
      <4>1. ~ Has(outbox'[d], Asks(d, id))
        BY <1>0, <3>2, WritesAskNothing
      <4>2. OnceIn(outbox'[d], Asks(d, id))
        BY <4>1 DEF OnceIn, Has
      <4>3. ~ Has(inbox'[d], Replies(d, id)) /\ OnceIn(inbox'[d], Replies(d, id))
        BY <3>2, InOne
      <4> QED
        BY <3>1, <3>3, <4>1, <4>2, <4>3 DEF CalmQueues, Asking, Replied, Entering, Removed
    <3>4. CASE e # d
      BY <3>1, <3>2, <3>4, SameIsCalm
    <3> QED
      BY <3>3, <3>4
  <2>3. CASE AckWrite(d)
    <3>1. /\ inbox[d] # <<>> /\ unacked[d] # <<>> /\ InIs(d, Tail(inbox[d])) /\ UnIs(d, Tail(unacked[d]))
          /\ outbox' = outbox /\ mainq' = mainq
      BY <2>3, AckWriteStep
    <3>2. /\ unacked'[d] = Tail(unacked[d]) /\ (e # d => unacked'[e] = unacked[e])
          /\ inbox'[d] = Tail(inbox[d]) /\ (e # d => inbox'[e] = inbox[e])
      BY <3>1 DEF UnIs, InIs, IsNow
    <3>3. CASE e = d
      <4>1. Has(unacked'[d], Removes(id)) => Has(unacked[d], Removes(id))
        BY <1>0, <3>1, <3>2, InTail
      <4>2. /\ Has(inbox'[d], Replies(d, id)) => Has(inbox[d], Replies(d, id))
            /\ OnceIn(inbox[d], Replies(d, id)) => OnceIn(inbox'[d], Replies(d, id))
        BY <1>0, <3>1, <3>2, InTail
      <4> QED
        BY <3>1, <3>3, <4>1, <4>2 DEF CalmQueues, Asking, Replied, Entering, Removed
    <3>4. CASE e # d
      BY <3>1, <3>2, <3>4, SameIsCalm
    <3> QED
      BY <3>3, <3>4
  <2> QED
    BY <2>1, <2>2, <2>3
<1>3. ASSUME NEW e \in Devices PROVE OwnRemoves(e)'
  BY <1>2 DEF TapsInv, OwnRemoves, CalmQueues
<1>4. ASSUME NEW e \in Devices, NEW id \in Mine(e, Id) PROVE OneTap(e, id)'
  <2>1. OneTap(e, id) /\ CalmQueues(e, id)
    BY <1>2 DEF TapsInv
  <2> QED
    BY <1>1, <2>1, TapKept
<1> QED
  BY <1>3, <1>4 DEF TapsInv

(* At first nobody is on the way.                                          *)
LEMMA TapsInit ==
    ASSUME Init
    PROVE  TapsInv
<1>1. ASSUME NEW d \in Devices, NEW id \in Id
      PROVE  /\ ~ Removed(d, id) /\ ~ Coming(d, id) /\ OnePlace(d, id) /\ current[d] # id
  <2>1. outbox[d] = <<>> /\ inbox[d] = <<>> /\ mainq[d] = <<>> /\ unacked[d] = <<>> /\ current[d] = NoId
    BY DEF Init
  <2>2. \A X : ~ Has(<<>>, X) /\ OnceIn(<<>>, X)
    BY InOne
  <2>3. NoId \notin Id
    BY MineAre
  <2> QED
    BY <2>1, <2>2, <2>3 DEF Removed, Coming, OnePlace, Asking, Replied, Entering
<1>2. \A d \in Devices : Mine(d, Id) \subseteq Id
  BY MineAre
<1> QED
  BY <1>1, <1>2 DEF TapsInv, OwnRemoves, OneTap

(* Every step keeps to the rules.                                          *)
LEMMA TapsNext ==
    ASSUME LobbyInv, TapsInv, [Next]_lobbyVars
    PROVE  TapsInv'
<1>0. LobbyTypes /\ Mirror
  BY DEF LobbyInv
<1>1. CASE UNCHANGED lobbyVars
  <2>1. /\ outbox' = outbox /\ inbox' = inbox /\ mainq' = mainq /\ unacked' = unacked
        /\ current' = current /\ screen' = screen /\ taps' = taps
    BY <1>1 DEF lobbyVars, netVars, roomVars, tapVars
  <2> QED
    BY <2>1 DEF TapsInv, OwnRemoves, OneTap, OnePlace, Coming, Asking, Replied, Entering, Removed
<1>2. ASSUME NEW d \in Devices, Tap(d) \/ Work(d) \/ GetFails(d) \/ LoseConnection(d)
      PROVE  TapsInv'
  <2>1. CASE TapHost(d) \/ TapJoin(d)
    BY <1>0, <2>1, TapsAsk
  <2>2. CASE TapLeave(d)
    BY <1>0, <2>2, TapsLeave
  <2>3. CASE Deliver(d)
    BY <1>0, <2>3, TapsDeliver
  <2>4. CASE GetFails(d) \/ LoseConnection(d) \/ AckWrite(d)
    BY <1>0, <2>4, TapsNetwork
  <2>5. CASE HostAnswered(d) /\ CodeIsFree(Head(inbox[d]))
    BY <1>0, <2>5, HostAccepts, TapsAccept
  <2>6. CASE JoinAnswered(d) /\ GameExists(Head(inbox[d]))
    BY <1>0, <2>6, JoinAccepts, TapsAccept
  <2>7. CASE Enter(d)
    BY <1>0, <2>7, TapsEnter
  <2>8. CASE \/ TapStart(d) \/ SettingsAnswered(d) \/ StartAnswered(d) \/ RosterAnswered(d)
             \/ HostAnswered(d) /\ ~ CodeIsFree(Head(inbox[d]))
             \/ JoinAnswered(d) /\ ~ GameExists(Head(inbox[d]))
             \/ Listen(d) \/ UpdateGameSettings(d) \/ CheckRoundNum(d) \/ HandlePlayers(d)
    BY <1>0, <2>8, PlainSteps, TapsPlain
  <2> QED
    BY <1>2, <2>1, <2>2, <2>3, <2>4, <2>5, <2>6, <2>7, <2>8 DEF Tap, Work, Complete, Main
<1> QED
  BY <1>1, <1>2 DEF Next

(* The server's list.                                                      *)
GameOf(id)       == {m \in WriteMsg : m.op = "setGame" /\ m.id = id}
PlayerOf(id)     == {m \in WriteMsg : m.op = "setPlayer" /\ m.id = id}
ExistAnswers(d)  == {a \in InMsg(d) : a.exists}
JoinAnswers(d)   == {a \in InMsg(d) : a.op = "join" /\ a.exists}

(* Who is in the waiting room or enters it is on the list, or is about to  *)
(* get on it.                                                              *)
Tracked(d, id) == (screen[d] = "WaitingRoom" /\ current[d] = id) \/ Entering(d, id)
Listed(d, id) ==
    /\ db.exists => db.players[id].joined \/ Has(outbox[d], PlayerOf(id))
    /\ ~ db.exists => Has(outbox[d], GameOf(id))
    /\ Shadowed(d) => Has(unacked[d], GameOf(id))

(* A message of X comes after the acknowledgement of setGame.              *)
After(q, X) == \A i \in 1..Len(q) : q[i] \in X => \E j \in 1..Len(q) : j < i /\ q[j].op = "setGame"

(* The game is written once, and only where there is none.                 *)
GameOnce(d) ==
    /\ Once(unacked[d], "setGame") /\ Once(outbox[d], "setGame")
    /\ Shadowed(d) => Waits(inbox[d], {"setGame"}) \/ Waits(outbox[d], {"setGame"})
FreeIsNew(d)  == FoundFree(d) \/ Waits(outbox[d], {"setGame"}) => ~ db.exists
JoinsAfter(d) == Shadowed(d) => After(inbox[d], JoinAnswers(d))
OnList(d) ==
    /\ GameOnce(d) /\ FreeIsNew(d) /\ JoinsAfter(d)
    /\ \A id \in Mine(d, Id) : Tracked(d, id) => Listed(d, id)

(* The server does not lose a game it has told of.                         *)
AnswersTrue == \A d \in Devices : Has(inbox[d], ExistAnswers(d)) => db.exists

ListInv == AnswersTrue /\ (~ contested => \A d \in Devices : OnList(d))

(* What comes after setGame, when a message is added ...                   *)
LEMMA AfterAppend ==
    ASSUME NEW S, NEW q \in Seq(S), NEW m \in S, NEW X, After(q, X), m \notin X \/ Waits(q, {"setGame"})
    PROVE  After(Append(q, m), X)
<1> DEFINE t == Append(q, m)
           n == Len(q)
<1>1. /\ t \in Seq(S) /\ n \in Nat /\ Len(t) = n + 1
      /\ \A i \in 1..n : i \in 1..(n + 1) /\ t[i] = q[i]
      /\ t[n + 1] = m
      /\ \A i \in 1..(n + 1) : i \in 1..n \/ i = n + 1
  BY AppendAt, Zenon
<1> HIDE DEF t, n
<1>2. ASSUME NEW i \in 1..(n + 1), t[i] \in X PROVE \E j \in 1..(n + 1) : j < i /\ t[j].op = "setGame"
  <2>1. CASE i \in 1..n
    <3>1. PICK j \in 1..n : j < i /\ q[j].op = "setGame"
      BY <1>1, <1>2, <2>1, Zenon DEF After, n
    <3> QED
      BY <1>1, <3>1, Zenon
  <2>2. CASE i = n + 1
    <3>1. m \in X
      BY <1>1, <1>2, <2>2
    <3>2. PICK j \in 1..n : q[j].op = "setGame"
      BY <3>1 DEF Waits, n
    <3>3. j < n + 1
      BY <1>1, <3>2
    <3> QED
      BY <1>1, <2>2, <3>2, <3>3, Zenon
  <2> QED
    BY <1>1, <2>1, <2>2
<1>3. After(t, X)
  BY <1>1, <1>2, Zenon DEF After
<1> QED
  BY <1>3 DEF t

(* ... and when the oldest one is taken.                                   *)
LEMMA AfterTail ==
    ASSUME NEW S, NEW q \in Seq(S), q # <<>>, NEW X, After(q, X)
    PROVE  Head(q) \notin X /\ (Head(q).op # "setGame" => After(Tail(q), X))
<1> DEFINE t == Tail(q)
           h == Head(q)
<1>1. /\ 1 \in 1..Len(q) /\ h = q[1] /\ Len(t) \in Nat
      /\ \A i \in 1..Len(t) : i + 1 \in 1..Len(q) /\ t[i] = q[i + 1]
      /\ \A i \in 1..Len(q) : i = 1 \/ \E j \in 1..Len(t) : i = j + 1
  BY TailAt, Zenon
<1> HIDE DEF t, h
<1>2. ASSUME h \in X PROVE FALSE
  <2>1. PICK j \in 1..Len(q) : j < 1
    BY <1>1, <1>2, Zenon DEF After
  <2> QED
    BY <2>1
<1>3. ASSUME h.op # "setGame", NEW i \in 1..Len(t), t[i] \in X
      PROVE  \E j \in 1..Len(t) : j < i /\ t[j].op = "setGame"
  <2>1. PICK k \in 1..Len(q) : k < i + 1 /\ q[k].op = "setGame"
    BY <1>1, <1>3, Zenon DEF After
  <2>2. PICK j \in 1..Len(t) : k = j + 1
    BY <1>1, <1>3, <2>1
  <2>3. j < i
    BY <2>1, <2>2
  <2> QED
    BY <1>1, <2>1, <2>2, <2>3
<1> QED
  BY <1>2, <1>3 DEF After, t, h

(* What is on its way to the server is pending.                            *)
LEMMA SentIsPending ==
    ASSUME LobbyTypes, Mirror, NEW d \in Devices
    PROVE  /\ \A i \in 1..Len(outbox[d]) : outbox[d][i].op \in WriteOps =>
                \E k \in 1..Len(unacked[d]) : unacked[d][k] = outbox[d][i]
           /\ Waits(outbox[d], {"setGame"}) => Shadowed(d)
           /\ \A id : Has(outbox[d], GameOf(id)) => Waits(outbox[d], {"setGame"}) /\ Shadowed(d)
           /\ \A id : Has(outbox[d], PlayerOf(id)) => Has(unacked[d], PlayerOf(id))
<1> DEFINE in == inbox[d]
           un == unacked[d]
           out == outbox[d]
<1>0. out \in Seq(OutMsg(d)) /\ un \in Seq(WriteMsg) /\ in \in Seq(InMsg(d)) /\ MirrorOf(in, un, out)
  BY DEF LobbyTypes, QueueTypes, OutTypes, UnTypes, InTypes, Mirror
<1> HIDE DEF in, un, out
<1>1. Len(in) \in Nat /\ Len(out) \in Nat /\ Len(un) \in Nat
  BY <1>0
<1>2. ASSUME NEW i \in 1..Len(out), out[i].op \in WriteOps PROVE \E k \in 1..Len(un) : un[k] = out[i]
  <2>1. Acks(out, i) \in Nat /\ 1 <= Acks(out, i) /\ Acks(out, i) <= Acks(out, Len(out)) /\ Acks(out, Len(out)) \in Nat
    BY <1>1, <1>2, AcksAt
  <2>2. Acks(in, Len(in)) \in Nat
    BY <1>1, AcksStep
  <2>3. Acks(in, Len(in)) + Acks(out, Len(out)) = Len(un) /\ un[Acks(in, Len(in)) + Acks(out, i)] = out[i]
    BY <1>0, <1>2 DEF MirrorOf
  <2>4. Acks(in, Len(in)) + Acks(out, i) \in 1..Len(un)
    BY <2>1, <2>2, <2>3
  <2> QED
    BY <2>3, <2>4
<1>3. "setGame" \in WriteOps /\ "setPlayer" \in WriteOps
  BY DEF WriteOps
<1>4. Waits(out, {"setGame"}) => Waits(un, {"setGame"})
  BY <1>2, <1>3 DEF Waits
<1>5. ASSUME NEW id PROVE Has(out, GameOf(id)) => Waits(out, {"setGame"})
  BY DEF Has, Waits, GameOf
<1>6. ASSUME NEW id PROVE Has(out, PlayerOf(id)) => Has(un, PlayerOf(id))
  <2> SUFFICES ASSUME NEW i \in 1..Len(out), out[i] \in PlayerOf(id) PROVE Has(un, PlayerOf(id))
    BY DEF Has
  <2>1. out[i].op \in WriteOps
    BY <1>3 DEF PlayerOf
  <2>2. PICK k \in 1..Len(un) : un[k] = out[i]
    BY <1>2, <2>1
  <2> QED
    BY <2>2 DEF Has
<1> QED
  BY <1>2, <1>4, <1>5, <1>6 DEF Shadowed, un, out

(* A step that writes no game and stores nothing.                          *)
CalmGame(e) ==
    /\ Once(unacked[e], "setGame") => Once(unacked'[e], "setGame")
    /\ Once(outbox[e], "setGame") => Once(outbox'[e], "setGame")
    /\ Shadowed(e)' => Shadowed(e)
    /\ Waits(outbox'[e], {"setGame"}) => Waits(outbox[e], {"setGame"})
    /\ Waits(outbox[e], {"setGame"}) => Waits(outbox'[e], {"setGame"})
    /\ FoundFree(e)' => FoundFree(e)
    /\ Shadowed(e)' => (Waits(inbox[e], {"setGame"}) => Waits(inbox'[e], {"setGame"}))
    /\ Shadowed(e)' => (After(inbox[e], JoinAnswers(e)) => After(inbox'[e], JoinAnswers(e)))
    /\ \A id : Has(outbox[e], GameOf(id)) => Has(outbox'[e], GameOf(id))
    /\ \A id : Has(outbox[e], PlayerOf(id)) => Has(outbox'[e], PlayerOf(id))
    /\ \A id : Shadowed(e)' => (Has(unacked[e], GameOf(id)) => Has(unacked'[e], GameOf(id)))

(* Who was listed then still is.                                           *)
LEMMA CalmListed ==
    ASSUME NEW e, NEW id, CalmGame(e), db' = db, Listed(e, id)
    PROVE  Listed(e, id)'
<1>1. (Shadowed(e)' => Shadowed(e)) /\ (Shadowed(e)' => (Has(unacked[e], GameOf(id)) => Has(unacked'[e], GameOf(id))))
  BY DEF CalmGame
<1>2. /\ Has(outbox[e], GameOf(id)) => Has(outbox'[e], GameOf(id))
      /\ Has(outbox[e], PlayerOf(id)) => Has(outbox'[e], PlayerOf(id))
  BY DEF CalmGame
<1> QED
  BY <1>1, <1>2 DEF Listed

(* It keeps the list, if it keeps who is tracked.                          *)
LEMMA CalmKeeps ==
    ASSUME NEW e \in Devices, CalmGame(e), db' = db, OnList(e),
           \A id \in Mine(e, Id) : Tracked(e, id)' => Tracked(e, id) \/ Listed(e, id)'
    PROVE  OnList(e)'
<1>1. GameOnce(e)'
  BY DEF OnList, GameOnce, CalmGame
<1>2. FreeIsNew(e)'
  BY DEF OnList, FreeIsNew, CalmGame
<1>3. JoinsAfter(e)'
  BY DEF OnList, JoinsAfter, CalmGame
<1>4. ASSUME NEW id \in Mine(e, Id), Tracked(e, id)' PROVE Listed(e, id)'
  BY <1>4, CalmListed DEF OnList
<1> QED
  BY <1>1, <1>2, <1>3, <1>4 DEF OnList

(* The devices that do not step.                                           *)
LEMMA SameCalmGame ==
    ASSUME NEW e, outbox'[e] = outbox[e], unacked'[e] = unacked[e], inbox'[e] = inbox[e]
    PROVE  CalmGame(e)
BY DEF CalmGame, Shadowed, FoundFree

(* A local step that writes no game.                                       *)
LEMMA LocalCalmGame ==
    ASSUME LobbyTypes, NEW d \in Devices, NEW xs, NEW ms, NEW bs, LocalStep(d, xs, ms, bs),
           ~ Waits(xs, {"setGame"}), ~ Waits(ms, {"setGame"})
    PROVE  \A e \in Devices : CalmGame(e)
<1>0. /\ outbox[d] \in Seq(OutMsg(d)) /\ unacked[d] \in Seq(WriteMsg) /\ inbox[d] \in Seq(InMsg(d))
  BY DEF LobbyTypes, QueueTypes, OutTypes, UnTypes, InTypes
<1>1. /\ xs \in Seq(OutMsg(d)) /\ ms \in Seq(WriteMsg)
      /\ outbox'[d] = outbox[d] \o xs /\ unacked'[d] = unacked[d] \o ms
      /\ inbox'[d] = inbox[d] \/ (inbox[d] # <<>> /\ IsGet(Head(inbox[d])) /\ inbox'[d] = Tail(inbox[d]))
  BY DEF LocalStep, Sends, Takes, OutIs, UnIs, InIs, IsNow
<1>2. /\ Once(unacked[d], "setGame") => Once(unacked'[d], "setGame")
      /\ Waits(unacked'[d], {"setGame"}) => Waits(unacked[d], {"setGame"})
  BY <1>0, <1>1, OnceConcat, WaitsConcat
<1>3. /\ Once(outbox[d], "setGame") => Once(outbox'[d], "setGame")
      /\ Waits(outbox'[d], {"setGame"}) <=> Waits(outbox[d], {"setGame"})
  BY <1>0, <1>1, OnceConcat, WaitsConcat
<1>4. ASSUME NEW X PROVE /\ Has(outbox[d], X) => Has(outbox'[d], X)
                         /\ Has(unacked[d], X) => Has(unacked'[d], X)
  BY <1>0, <1>1, InConcat
<1>5. ASSUME NEW X PROVE Has(inbox'[d], X) => Has(inbox[d], X)
  <2>1. CASE inbox[d] # <<>> /\ inbox'[d] = Tail(inbox[d])
    BY <1>0, <2>1, InTail
  <2> QED
    BY <1>1, <2>1
<1>6. /\ Waits(inbox[d], {"setGame"}) => Waits(inbox'[d], {"setGame"})
      /\ After(inbox[d], JoinAnswers(d)) => After(inbox'[d], JoinAnswers(d))
  <2>1. CASE inbox[d] # <<>> /\ IsGet(Head(inbox[d])) /\ inbox'[d] = Tail(inbox[d])
    <3>1. Head(inbox[d]).op # "setGame" /\ Head(inbox[d]).op \notin {"setGame"}
      BY <2>1 DEF IsGet, GetOps
    <3>2. Waits(inbox[d], {"setGame"}) => Waits(inbox'[d], {"setGame"})
      BY <1>0, <2>1, <3>1, WaitsTail
    <3>3. After(inbox[d], JoinAnswers(d)) => After(inbox'[d], JoinAnswers(d))
      BY <1>0, <2>1, <3>1, AfterTail
    <3> QED
      BY <3>2, <3>3
  <2> QED
    BY <1>1, <2>1
<1>7. CalmGame(d)
  <2>1. FoundFree(d)' => FoundFree(d)
    BY <1>5 DEF FoundFree
  <2>2. Shadowed(d)' => Shadowed(d)
    BY <1>2 DEF Shadowed
  <2> QED
    BY <1>2, <1>3, <1>4, <1>6, <2>1, <2>2 DEF CalmGame
<1>8. ASSUME NEW e \in Devices, e # d PROVE CalmGame(e)
  BY <1>8, OthersSame, SameCalmGame
<1> QED
  BY <1>7, <1>8

(* Who is on the way stays on the way, and nobody joins him.               *)
LEMMA TrackedCalm ==
    ASSUME NEW e, NEW id, CalmQueues(e, id), current'[e] = current[e],
           screen'[e] = "WaitingRoom" => screen[e] = "WaitingRoom"
    PROVE  Tracked(e, id)' => Tracked(e, id)
BY DEF Tracked, CalmQueues

(* None of the other messages writes a game.                               *)
LEMMA PlainNoGame ==
    ASSUME NEW d \in Devices
    PROVE  /\ \A xs \in Seq(PlainMsg(d)) : ~ Waits(xs, {"setGame"})
           /\ \A ms \in Seq(PlainWrite) : ~ Waits(ms, {"setGame"})
<1>1. /\ \A m \in PlainMsg(d) : m.op # "setGame"
      /\ \A m \in PlainWrite : m.op # "setGame"
  BY DEF PlainMsg, PlainWrite
<1> QED
  BY <1>1 DEF Waits

(* The other steps, ...                                                    *)
LEMMA ListPlain ==
    ASSUME LobbyTypes, NEW d \in Devices, Plain(d), \A e \in Devices : OnList(e)
    PROVE  \A e \in Devices : OnList(e)'
<1>1. PICK xs \in Seq(PlainMsg(d)), ms \in Seq(PlainWrite), bs \in Seq(PlainBlock(d)) : LocalStep(d, xs, ms, bs)
  BY DEF Plain
<1>2. /\ current' = current /\ db' = db
      /\ \A e \in Devices : screen'[e] = "WaitingRoom" => screen[e] = "WaitingRoom"
  BY <1>1 DEF Plain, RoomsKept, LocalStep
<1>3. ASSUME NEW e \in Devices, NEW id PROVE CalmQueues(e, id)
  <2>1. CASE e = d
    BY <1>1, <2>1, PlainHasNone, LocalIsCalm
  <2>2. CASE e # d
    BY <1>1, <2>2, OthersSame, SameIsCalm
  <2> QED
    BY <2>1, <2>2
<1>4. \A e \in Devices : CalmGame(e)
  BY <1>1, PlainNoGame, LocalCalmGame
<1>5. \A e \in Devices : \A id : Tracked(e, id)' => Tracked(e, id)
  BY <1>2, <1>3, TrackedCalm
<1> QED
  BY <1>2, <1>4, <1>5, CalmKeeps

(* ... the taps on Host, Join and Leave, ...                               *)
LEMMA ListTaps ==
    ASSUME LobbyTypes, NEW d \in Devices, TapHost(d) \/ TapJoin(d) \/ TapLeave(d),
           \A e \in Devices : OnList(e)
    PROVE  \A e \in Devices : OnList(e)'
<1>1. PICK xs, ms : LocalStep(d, xs, ms, <<>>) /\ ~ Waits(xs, {"setGame"}) /\ ~ Waits(ms, {"setGame"})
  <2>1. CASE TapHost(d)
    <3>1. PICK g : g = Get("host", <<d, taps[d] + 1>>)
      OBVIOUS
    <3>2. g.op \notin {"setGame"} /\ LocalStep(d, <<g>>, <<>>, <<>>)
      BY <2>1, <3>1, TapHostStep DEF Get, Msg
    <3> QED
      BY <3>2, WaitsOne
  <2>2. CASE TapJoin(d)
    <3>1. PICK g : g = Get("join", <<d, taps[d] + 1>>)
      OBVIOUS
    <3>2. g.op \notin {"setGame"} /\ LocalStep(d, <<g>>, <<>>, <<>>)
      BY <2>2, <3>1, TapJoinStep DEF Get, Msg
    <3> QED
      BY <3>2, WaitsOne
  <2>3. CASE TapLeave(d)
    <3>1. PICK m : m = Msg("remove", current[d], 0)
      OBVIOUS
    <3>2. m.op \notin {"setGame"} /\ (LocalStep(d, <<>>, <<>>, <<>>) \/ LocalStep(d, <<m>>, <<m>>, <<>>))
      BY <2>3, <3>1, TapLeaveStep DEF Msg
    <3> QED
      BY <3>2, WaitsOne
  <2> QED
    BY <2>1, <2>2, <2>3
<1>2. /\ current' = current /\ db' = db /\ mainq' = mainq
      /\ \A e \in Devices : screen'[e] = "WaitingRoom" => screen[e] = "WaitingRoom"
  BY DEF TapHost, TapJoin, TapLeave, roomVars, LobbyTypes, RoomTypes
<1>3. \A e \in Devices : CalmGame(e)
  BY <1>1, LocalCalmGame
<1>4. \A e \in Devices : \A id : Tracked(e, id)' => Tracked(e, id)
  BY <1>2 DEF Tracked, Entering
<1> QED
  BY <1>2, <1>3, <1>4, CalmKeeps

(* ... the waiting room that opens, ...                                    *)
LEMMA ListEnter ==
    ASSUME LobbyTypes, NEW d \in Devices, Enter(d), \A e \in Devices : OnList(e)
    PROVE  \A e \in Devices : OnList(e)'
<1>0. mainq[d] \in Seq(BlockOf(d))
  BY DEF LobbyTypes, QueueTypes, MainTypes
<1>1. PICK b, x : b = Head(mainq[d]) /\ x = b.id
  OBVIOUS
<1>2. /\ mainq[d] # <<>> /\ b \in BlockOf(d) /\ b.op = "enter" /\ x \in Mine(d, Id)
  BY <1>1, BlockIs DEF Enter
<1>3. PICK xs \in Seq(PlainMsg(d)), bs \in Seq(PlainBlock(d)) : LocalStep(d, xs, <<>>, bs)
  <2>1. CASE \E bs \in Seq(SettingsBlock(d)) : LocalStep(d, <<>>, <<>>, bs)
    BY <2>1, PlainOnes
  <2>2. CASE \E id \in Mine(d, Id) : LocalStep(d, <<Get("settings", id)>>, <<>>, <<>>)
    BY <2>2, PlainOnes
  <2> QED
    BY <2>1, <2>2, EnterStep
<1>4. ASSUME NEW e \in Devices, NEW id PROVE CalmQueues(e, id)
  <2>1. CASE e = d
    BY <1>3, <2>1, PlainOnes, PlainHasNone, LocalIsCalm
  <2>2. CASE e # d
    BY <1>3, <2>2, OthersSame, SameIsCalm
  <2> QED
    BY <2>1, <2>2
<1>5. \A e \in Devices : CalmGame(e)
  BY <1>3, PlainOnes, PlainNoGame, LocalCalmGame
<1>6. /\ current' = [current EXCEPT ![d] = x] /\ screen' = [screen EXCEPT ![d] = "WaitingRoom"]
      /\ OnDevices(current) /\ OnDevices(screen) /\ db' = db
  BY <1>1 DEF Enter, LobbyTypes, RoomTypes, OnDevices
<1>7. /\ current'[d] = x
      /\ \A e \in Devices : e # d => current'[e] = current[e] /\ screen'[e] = screen[e]
  BY <1>6 DEF OnDevices
<1>8. Entering(d, x)
  <2>1. b \in EnterBlocks(d, x)
    BY <1>1, <1>2 DEF EnterBlocks
  <2> QED
    BY <1>0, <1>1, <1>2, <2>1, InTail DEF Entering
<1>9. ASSUME NEW e \in Devices, NEW id, Tracked(e, id)' PROVE Tracked(e, id)
  <2>1. CASE e # d
    BY <1>4, <1>7, <1>9, <2>1, TrackedCalm
  <2>2. CASE e = d /\ id = x
    BY <1>8, <2>2 DEF Tracked
  <2>3. CASE e = d /\ id # x
    <3>1. Entering(d, id)'
      BY <1>7, <1>9, <2>3 DEF Tracked
    <3> QED
      BY <1>4, <2>3, <3>1 DEF CalmQueues, Tracked
  <2> QED
    BY <2>1, <2>2, <2>3
<1> QED
  BY <1>5, <1>6, <1>9, CalmKeeps

(* A message that is sent arrives in the queue.                            *)
LEMMA AcceptSends ==
    ASSUME LobbyTypes, NEW d \in Devices, NEW x, NEW m, NEW bs, Accepts(d, x, m, bs)
    PROVE  /\ \A X : Has(outbox'[d], X) <=> Has(outbox[d], X) \/ m \in X
           /\ \A X : Has(unacked'[d], X) <=> Has(unacked[d], X) \/ m \in X
           /\ \A e \in Devices : \A id \in Mine(e, Id) : Tracked(e, id)' => Tracked(e, id) \/ (e = d /\ id = x)
           /\ db' = db /\ contested' = contested
<1>0. /\ outbox[d] \in Seq(OutMsg(d)) /\ unacked[d] \in Seq(WriteMsg)
  BY DEF LobbyTypes, QueueTypes, OutTypes, UnTypes
<1>1. /\ m \in WriteMsg /\ m.op \in {"setGame", "setPlayer"}
      /\ LocalStep(d, <<m>>, <<m>>, bs) /\ \A id : id # x => ~ Has(bs, EnterBlocks(d, id))
      /\ current' = current /\ screen' = screen /\ contested' = contested
  BY DEF Accepts
<1>2. PICK r : r = <<m>>
  OBVIOUS
<1>3. /\ r \in Seq(OutMsg(d)) /\ r \in Seq(WriteMsg)
      /\ outbox'[d] = outbox[d] \o r /\ unacked'[d] = unacked[d] \o r /\ db' = db
  BY <1>1, <1>2 DEF LocalStep, Sends, OutIs, UnIs, IsNow
<1>4. \A X : Has(r, X) <=> m \in X
  BY <1>2, InOne
<1>5. \A X : Has(outbox'[d], X) <=> Has(outbox[d], X) \/ m \in X
  BY <1>0, <1>3, <1>4, InConcat
<1>6. \A X : Has(unacked'[d], X) <=> Has(unacked[d], X) \/ m \in X
  BY <1>0, <1>3, <1>4, InConcat
<1>7. ASSUME NEW e \in Devices, NEW id, e # d \/ id # x PROVE Tracked(e, id)' => Tracked(e, id)
  <2>0. \A y : m \notin Asks(d, y) /\ m \notin Removes(y)
    BY <1>1 DEF Asks, Removes
  <2>1. CASE e = d
    <3>1. ~ Has(<<m>>, Asks(d, id)) /\ ~ Has(<<m>>, Removes(id)) /\ ~ Has(bs, EnterBlocks(d, id))
      BY <1>1, <1>7, <2>0, <2>1, InOne
    <3>2. CalmQueues(d, id)
      BY <1>1, <3>1, LocalIsCalm
    <3> QED
      BY <1>1, <2>1, <3>2, TrackedCalm
  <2>2. CASE e # d
    BY <1>1, <2>2, OthersSame, SameIsCalm, TrackedCalm
  <2> QED
    BY <2>1, <2>2
<1> QED
  BY <1>1, <1>3, <1>5, <1>6, <1>7

(* ... who joins the game that is there, ...                               *)
LEMMA ListJoin ==
    ASSUME LobbyTypes, AnswersTrue, NEW d \in Devices, NEW x, NEW m, NEW bs, Accepts(d, x, m, bs),
           m.op = "setPlayer", \A e \in Devices : OnList(e)
    PROVE  \A e \in Devices : OnList(e)'
<1>0. inbox[d] \in Seq(InMsg(d))
  BY DEF LobbyTypes, QueueTypes, InTypes
<1>1. /\ inbox[d] # <<>> /\ Head(inbox[d]) \in InMsg(d) /\ Head(inbox[d]).op = "join" /\ Head(inbox[d]).exists
      /\ m \in PlayerOf(x) /\ LocalStep(d, <<m>>, <<m>>, bs)
  BY DEF Accepts, PlayerOf, Replies
<1>2. Head(inbox[d]) \in ExistAnswers(d) /\ Head(inbox[d]) \in JoinAnswers(d)
  BY <1>1 DEF ExistAnswers, JoinAnswers
<1>3. db.exists
  BY <1>0, <1>1, <1>2, InTail DEF AnswersTrue
<1>4. ~ Shadowed(d)
  <2>1. After(inbox[d], JoinAnswers(d)) => Head(inbox[d]) \notin JoinAnswers(d)
    BY <1>0, <1>1, AfterTail
  <2> QED
    BY <1>2, <2>1 DEF OnList, JoinsAfter
<1>5. ~ Waits(<<m>>, {"setGame"})
  <2>1. m.op \notin {"setGame"}
    OBVIOUS
  <2> QED
    BY <2>1, WaitsOne
<1>6. \A e \in Devices : CalmGame(e)
  BY <1>1, <1>5, LocalCalmGame
<1>7. Has(outbox'[d], PlayerOf(x)) /\ db' = db
  BY <1>1, AcceptSends
<1>8. Listed(d, x)'
  <2>1. ~ Shadowed(d)'
    BY <1>4, <1>6 DEF CalmGame
  <2> QED
    BY <1>3, <1>7, <2>1 DEF Listed
<1>9. ASSUME NEW e \in Devices, NEW id \in Mine(e, Id), Tracked(e, id)' PROVE Tracked(e, id) \/ Listed(e, id)'
  BY <1>8, <1>9, AcceptSends
<1> QED
  BY <1>6, <1>7, <1>9, CalmKeeps

(* ... who hosts it where there is none: nobody is on the way then, ...    *)
LEMMA ListHost ==
    ASSUME LobbyInv, HostInv, AnswersTrue, ~ contested, NEW d \in Devices, NEW x, NEW m, NEW bs,
           Accepts(d, x, m, bs), m.op = "setGame", \A e \in Devices : OnList(e)
    PROVE  \A e \in Devices : OnList(e)'
<1>0. /\ LobbyTypes /\ Mirror /\ inbox[d] \in Seq(InMsg(d))
      /\ outbox[d] \in Seq(OutMsg(d)) /\ unacked[d] \in Seq(WriteMsg)
  BY DEF LobbyInv, LobbyTypes, QueueTypes, InTypes, OutTypes, UnTypes
<1>1. /\ inbox[d] # <<>> /\ Head(inbox[d]) \in FreeAnswers(d) /\ inbox'[d] = Tail(inbox[d])
      /\ m \in GameOf(x) /\ LocalStep(d, <<m>>, <<m>>, bs)
  BY DEF Accepts, GameOf
<1>2. FoundFree(d)
  BY <1>0, <1>1, InTail DEF FoundFree
<1>3. ~ db.exists /\ db' = db
  BY <1>0, <1>2, AcceptSends DEF OnList, FreeIsNew
<1>4. \A e \in Devices : ~ Shadowed(e)
  BY <1>2 DEF HostInv, FreeIsFree, Owner
<1>5. \A e \in Devices : ~ Waits(outbox[e], {"setGame"})
  BY <1>0, <1>4, SentIsPending
<1>6. ASSUME NEW e \in Devices, NEW id \in Mine(e, Id) PROVE ~ Tracked(e, id)
  <2>1. Tracked(e, id) => Has(outbox[e], GameOf(id))
    BY <1>3 DEF OnList, Listed
  <2> QED
    BY <1>0, <1>4, <2>1, SentIsPending
<1>7. ASSUME NEW e \in Devices, NEW id \in Mine(e, Id), Tracked(e, id)' PROVE e = d /\ id = x
  BY <1>0, <1>6, <1>7, AcceptSends
<1>8. Has(outbox'[d], GameOf(x)) /\ Has(unacked'[d], GameOf(x))
  BY <1>0, <1>1, AcceptSends
<1>9. Listed(d, x)'
  BY <1>3, <1>8 DEF Listed
<1>10. PICK r : r = <<m>>
  OBVIOUS
<1>11. /\ r \in Seq(OutMsg(d)) /\ r \in Seq(WriteMsg) /\ m \in OutMsg(d) /\ m \in WriteMsg
       /\ outbox'[d] = Append(outbox[d], m) /\ unacked'[d] = Append(unacked[d], m)
  <2>1. /\ r \in Seq(OutMsg(d)) /\ r \in Seq(WriteMsg)
        /\ outbox'[d] = outbox[d] \o r /\ unacked'[d] = unacked[d] \o r
    BY <1>1, <1>10 DEF LocalStep, Sends, OutIs, UnIs, IsNow
  <2>2. m \in OutMsg(d) /\ m \in WriteMsg
    BY <1>1 DEF GameOf, OutMsg
  <2> QED
    BY <1>0, <1>10, <2>1, <2>2
<1>12. GameOnce(d)'
  <2>1. Once(outbox[d], "setGame") /\ Once(unacked[d], "setGame")
    BY DEF OnList, GameOnce
  <2>2. Once(outbox'[d], "setGame")
    BY <1>0, <1>5, <1>11, <2>1, OnceAppend
  <2>3. Once(unacked'[d], "setGame")
    BY <1>0, <1>4, <1>11, <2>1, OnceAppend DEF Shadowed
  <2>4. Waits(outbox'[d], {"setGame"})
    BY <1>8 DEF Has, Waits, GameOf
  <2> QED
    BY <2>2, <2>3, <2>4 DEF GameOnce
<1>13. FreeIsNew(d)'
  BY <1>3 DEF FreeIsNew
<1>14. JoinsAfter(d)'
  <2>1. ~ Has(inbox[d], ExistAnswers(d))
    BY <1>3 DEF AnswersTrue
  <2>2. ~ Has(inbox'[d], ExistAnswers(d))
    BY <1>0, <1>1, <2>1, InTail
  <2>3. JoinAnswers(d) \subseteq ExistAnswers(d)
    BY DEF JoinAnswers, ExistAnswers
  <2> QED
    BY <2>2, <2>3 DEF JoinsAfter, After, Has
<1>15. OnList(d)'
  BY <1>7, <1>9, <1>12, <1>13, <1>14 DEF OnList
<1>16. ASSUME NEW e \in Devices, e # d PROVE OnList(e)'
  <2>1. CalmGame(e)
    BY <1>1, <1>16, OthersSame, SameCalmGame
  <2>2. \A id \in Mine(e, Id) : ~ Tracked(e, id)'
    BY <1>7, <1>16
  <2> QED
    BY <1>3, <2>1, <2>2, CalmKeeps
<1> QED
  BY <1>15, <1>16

(* ... a get that fails, a lost connection and an acknowledgement.         *)
LEMMA ListGetFails ==
    ASSUME LobbyTypes, NEW d \in Devices, GetFails(d), \A e \in Devices : OnList(e)
    PROVE  \A e \in Devices : OnList(e)'
<1>0. outbox[d] \in Seq(OutMsg(d))
  BY DEF LobbyTypes, QueueTypes, OutTypes
<1>1. /\ outbox[d] # <<>> /\ Head(outbox[d]).op \in GetOps /\ OutIs(d, Tail(outbox[d]))
      /\ unacked' = unacked /\ mainq' = mainq /\ inbox' = inbox /\ db' = db
  BY GetFailsStep
<1>2. outbox'[d] = Tail(outbox[d]) /\ \A e \in Devices : e # d => outbox'[e] = outbox[e]
  BY <1>1 DEF OutIs, IsNow
<1>3. screen' = screen /\ current' = current
  BY DEF GetFails, roomVars
<1>4. Head(outbox[d]).op \notin {"setGame"} /\ Head(outbox[d]).op # "setPlayer"
  BY <1>1 DEF GetOps
<1>5. \A id : Head(outbox[d]) \notin GameOf(id) /\ Head(outbox[d]) \notin PlayerOf(id)
  BY <1>4 DEF GameOf, PlayerOf
<1>6. Waits(outbox'[d], {"setGame"}) <=> Waits(outbox[d], {"setGame"})
  BY <1>0, <1>1, <1>2, <1>4, WaitsTail
<1>7. Once(outbox[d], "setGame") => Once(outbox'[d], "setGame")
  BY <1>0, <1>1, <1>2, OnceTail
<1>8. \A id : /\ Has(outbox[d], GameOf(id)) => Has(outbox'[d], GameOf(id))
              /\ Has(outbox[d], PlayerOf(id)) => Has(outbox'[d], PlayerOf(id))
  BY <1>0, <1>1, <1>2, <1>5, InTail
<1>9. CalmGame(d)
  BY <1>1, <1>6, <1>7, <1>8 DEF CalmGame, Shadowed, FoundFree
<1>10. \A e \in Devices : CalmGame(e)
  BY <1>1, <1>2, <1>9, SameCalmGame
<1>11. \A e \in Devices : \A id : Tracked(e, id)' => Tracked(e, id)
  BY <1>1, <1>3 DEF Tracked, Entering
<1> QED
  BY <1>1, <1>10, <1>11, CalmKeeps

(* A lost connection: what is pending is sent again, and it is no game.    *)
LEMMA ListLoseConnection ==
    ASSUME LobbyInv, NEW d \in Devices, LoseConnection(d), ~ contested', \A e \in Devices : OnList(e)
    PROVE  \A e \in Devices : OnList(e)'
<1>0. /\ LobbyTypes /\ Mirror /\ outbox[d] \in Seq(OutMsg(d)) /\ unacked[d] \in Seq(WriteMsg)
  BY DEF LobbyInv, LobbyTypes, QueueTypes, OutTypes, UnTypes
<1>1. /\ OutIs(d, unacked[d]) /\ InIs(d, <<>>) /\ unacked' = unacked /\ mainq' = mainq /\ db' = db
  BY <1>0, LoseConnectionStep
<1>2. /\ outbox'[d] = unacked[d] /\ inbox'[d] = <<>>
      /\ \A e \in Devices : e # d => outbox'[e] = outbox[e] /\ inbox'[e] = inbox[e]
  BY <1>1 DEF OutIs, InIs, IsNow
<1>3. screen' = screen /\ current' = current /\ ~ Shadowed(d)
  BY DEF LoseConnection, roomVars
<1>4. ~ Shadowed(d)' /\ ~ Waits(outbox'[d], {"setGame"})
  BY <1>1, <1>2, <1>3 DEF Shadowed
<1>5. GameOnce(d)'
  <2>1. Once(outbox'[d], "setGame")
    BY <1>4, OnceNone
  <2>2. Once(unacked'[d], "setGame")
    BY <1>1, <1>3, OnceNone DEF Shadowed
  <2> QED
    BY <1>4, <2>1, <2>2 DEF GameOnce
<1>6. FreeIsNew(d)' /\ JoinsAfter(d)'
  <2>1. ~ FoundFree(d)'
    BY <1>2, EmptyHasNone DEF FoundFree
  <2> QED
    BY <1>4, <2>1 DEF FreeIsNew, JoinsAfter
<1>7. \A e \in Devices : \A id : Tracked(e, id)' => Tracked(e, id)
  BY <1>1, <1>3 DEF Tracked, Entering
<1>8. ASSUME NEW id \in Mine(d, Id), Tracked(d, id)' PROVE Listed(d, id)'
  <2>1. Listed(d, id)
    BY <1>7, <1>8 DEF OnList
  <2>2. ~ Has(outbox[d], GameOf(id)) /\ (Has(outbox[d], PlayerOf(id)) => Has(unacked[d], PlayerOf(id)))
    BY <1>0, <1>3, SentIsPending
  <2> QED
    BY <1>1, <1>2, <1>4, <2>1, <2>2 DEF Listed
<1>9. OnList(d)'
  BY <1>5, <1>6, <1>8 DEF OnList
<1>10. ASSUME NEW e \in Devices, e # d PROVE OnList(e)'
  BY <1>1, <1>2, <1>7, <1>10, SameCalmGame, CalmKeeps
<1> QED
  BY <1>9, <1>10

(* An acknowledgement: as long as a game is pending, it is of another      *)
(* write.                                                                  *)
LEMMA ListAckWrite ==
    ASSUME LobbyInv, NEW d \in Devices, AckWrite(d), \A e \in Devices : OnList(e)
    PROVE  \A e \in Devices : OnList(e)'
<1>0. /\ LobbyTypes /\ Mirror /\ inbox[d] \in Seq(InMsg(d)) /\ unacked[d] \in Seq(WriteMsg)
  BY DEF LobbyInv, LobbyTypes, QueueTypes, InTypes, UnTypes
<1>1. /\ inbox[d] # <<>> /\ unacked[d] # <<>> /\ Head(unacked[d]).op = Head(inbox[d]).op
      /\ InIs(d, Tail(inbox[d])) /\ UnIs(d, Tail(unacked[d]))
      /\ outbox' = outbox /\ mainq' = mainq /\ db' = db
  BY <1>0, AckWriteStep
<1>2. /\ unacked'[d] = Tail(unacked[d]) /\ inbox'[d] = Tail(inbox[d])
      /\ \A e \in Devices : e # d => unacked'[e] = unacked[e] /\ inbox'[e] = inbox[e]
  BY <1>1 DEF UnIs, InIs, IsNow
<1>3. screen' = screen /\ current' = current
  BY DEF AckWrite, roomVars
<1>4. Once(unacked[d], "setGame")
  BY DEF OnList, GameOnce
<1>5. Once(unacked'[d], "setGame") /\ (Head(unacked[d]).op = "setGame" => ~ Waits(unacked'[d], {"setGame"}))
  BY <1>0, <1>1, <1>2, <1>4, OnceTail
<1>6. Waits(unacked'[d], {"setGame"}) => Waits(unacked[d], {"setGame"})
  BY <1>0, <1>1, <1>2, WaitsTail
<1>7. FoundFree(d)' => FoundFree(d)
  BY <1>0, <1>1, <1>2, InTail DEF FoundFree
<1>8. ASSUME Shadowed(d)'
      PROVE  /\ Waits(inbox[d], {"setGame"}) => Waits(inbox'[d], {"setGame"})
             /\ After(inbox[d], JoinAnswers(d)) => After(inbox'[d], JoinAnswers(d))
             /\ \A id : Has(unacked[d], GameOf(id)) => Has(unacked'[d], GameOf(id))
  <2>1. Head(unacked[d]).op # "setGame" /\ Head(inbox[d]).op # "setGame" /\ Head(inbox[d]).op \notin {"setGame"}
    BY <1>1, <1>5, <1>8 DEF Shadowed
  <2>2. Waits(inbox[d], {"setGame"}) => Waits(inbox'[d], {"setGame"})
    BY <1>0, <1>1, <1>2, <2>1, WaitsTail
  <2>3. After(inbox[d], JoinAnswers(d)) => After(inbox'[d], JoinAnswers(d))
    BY <1>0, <1>1, <1>2, <2>1, AfterTail
  <2>4. \A id : Head(unacked[d]) \notin GameOf(id)
    BY <2>1 DEF GameOf
  <2>5. \A id : Has(unacked[d], GameOf(id)) => Has(unacked'[d], GameOf(id))
    BY <1>0, <1>1, <1>2, <2>4, InTail
  <2> QED
    BY <2>2, <2>3, <2>5
<1>9. Shadowed(d)' => Shadowed(d)
  BY <1>6 DEF Shadowed
<1>10. CalmGame(d)
  BY <1>1, <1>5, <1>7, <1>8, <1>9 DEF CalmGame
<1>11. \A e \in Devices : CalmGame(e)
  BY <1>1, <1>2, <1>10, SameCalmGame
<1>12. \A e \in Devices : \A id : Tracked(e, id)' => Tracked(e, id)
  BY <1>1, <1>3 DEF Tracked, Entering
<1> QED
  BY <1>1, <1>11, <1>12, CalmKeeps

(* Only setGame and the player's own removal take a player off the list.   *)
LEMMA StoredJoined ==
    ASSUME NEW g \in Game, NEW m \in WriteMsg, NEW id \in Id
    PROVE  /\ m.op # "setGame" => Stored(g, m).exists = g.exists
           /\ m \in GameOf(id) \/ m \in PlayerOf(id) => Stored(g, m).players[id].joined
           /\ m.op # "setGame" /\ m \notin Removes(id) /\ g.players[id].joined => Stored(g, m).players[id].joined
<1>1. m.op \in WriteOps /\ (m.op # "setRound" => m.id \in Id)
  BY DEF WriteMsg
<1>2. g.players \in [Id -> Entry] /\ g.players[id] \in Entry /\ Empty \in [Id -> Entry]
  BY DEF Game, Empty, Absent, Entry
<1>3. CASE m.op = "setGame"
  <2>1. Stored(g, m) = [exists |-> TRUE, roundNum |-> 0, players |-> [Empty EXCEPT ![m.id].joined = TRUE]]
    BY <1>3 DEF Stored
  <2>2. m.id = id => [Empty EXCEPT ![m.id].joined = TRUE][id].joined
    BY <1>2 DEF Entry
  <2> QED
    BY <1>3, <2>1, <2>2 DEF GameOf, PlayerOf
<1>4. CASE m.op = "setPlayer"
  <2>1. Stored(g, m) = [g EXCEPT !.players = [g.players EXCEPT ![m.id] = [joined |-> TRUE, number |-> 0]]]
    BY <1>4 DEF Stored
  <2>2. [g.players EXCEPT ![m.id] = [joined |-> TRUE, number |-> 0]][id]
          = IF id = m.id THEN [joined |-> TRUE, number |-> 0] ELSE g.players[id]
    BY <1>2
  <2>3. Stored(g, m).exists = g.exists
          /\ Stored(g, m).players[id] = IF id = m.id THEN [joined |-> TRUE, number |-> 0] ELSE g.players[id]
    BY <2>1, <2>2 DEF Game
  <2> QED
    BY <1>4, <2>3 DEF GameOf, PlayerOf
<1>5. CASE m.op = "setNumber"
  <2>1. Stored(g, m) = [g EXCEPT !.players = [g.players EXCEPT ![m.id].number = m.number]]
    BY <1>5 DEF Stored
  <2>2. [g.players EXCEPT ![m.id].number = m.number][id].joined = g.players[id].joined
    BY <1>2 DEF Entry
  <2> QED
    BY <1>5, <2>1, <2>2 DEF GameOf, PlayerOf, Game
<1>6. CASE m.op = "remove"
  <2>1. Stored(g, m) = [g EXCEPT !.players = [g.players EXCEPT ![m.id] = Absent]]
    BY <1>6 DEF Stored
  <2>2. id # m.id => [g.players EXCEPT ![m.id] = Absent][id] = g.players[id]
    BY <1>2
  <2>3. m \notin Removes(id) => id # m.id
    BY <1>6 DEF Removes
  <2> QED
    BY <1>6, <2>1, <2>2, <2>3 DEF GameOf, PlayerOf, Game
<1>7. CASE m.op = "setRound"
  <2>1. Stored(g, m) = [g EXCEPT !.roundNum = m.number]
    BY <1>7 DEF Stored
  <2> QED
    BY <1>7, <2>1 DEF GameOf, PlayerOf, Game
<1> QED
  BY <1>1, <1>3, <1>4, <1>5, <1>6, <1>7 DEF WriteOps

(* What a delivery does to the queues of its device.                       *)
LEMMA DeliverList ==
    ASSUME LobbyTypes, NEW d \in Devices, Deliver(d), NEW h, NEW a, h = Head(outbox[d]), a = Answer(h)
    PROVE  /\ outbox[d] # <<>> /\ h \in OutMsg(d) /\ a \in InMsg(d) /\ a.op = h.op
           /\ a.exists = (h.op \in GetOps /\ db.exists)
           /\ outbox'[d] = Tail(outbox[d]) /\ inbox'[d] = Append(inbox[d], a)
           /\ \A e \in Devices : e # d => outbox'[e] = outbox[e] /\ inbox'[e] = inbox[e]
           /\ unacked' = unacked /\ mainq' = mainq /\ screen' = screen /\ current' = current /\ contested' = contested
           /\ db' = IF h.op \in GetOps THEN db ELSE Stored(db, h)
           /\ h.op \notin GetOps => h \in WriteMsg
<1>1. /\ outbox[d] # <<>> /\ h \in OutMsg(d) /\ a \in InMsg(d)
      /\ OutIs(d, Tail(outbox[d])) /\ InIs(d, Append(inbox[d], a))
      /\ unacked' = unacked /\ mainq' = mainq
      /\ db' = IF h.op \in GetOps THEN db ELSE Stored(db, h)
  BY DeliverStep DEF IsGet
<1>2. a.op = h.op /\ a.exists = (h.op \in GetOps /\ db.exists)
  BY DEF Answer, IsGet
<1>3. screen' = screen /\ current' = current /\ contested' = contested
  BY DEF Deliver, roomVars
<1>4. h.op \notin GetOps => h \in WriteMsg
  BY <1>1 DEF OutMsg, GetMsg
<1>5. /\ outbox'[d] = Tail(outbox[d]) /\ inbox'[d] = Append(inbox[d], a)
      /\ \A e \in Devices : e # d => outbox'[e] = outbox[e] /\ inbox'[e] = inbox[e]
  BY <1>1 DEF OutIs, InIs, IsNow
<1> QED
  BY <1>1, <1>2, <1>3, <1>4, <1>5

(* The game is written once when the server stores it, ...                 *)
LEMMA DeliverOnce ==
    ASSUME LobbyTypes, NEW d \in Devices, Deliver(d), OnList(d)
    PROVE  GameOnce(d)' /\ JoinsAfter(d)'
<1>0. outbox[d] \in Seq(OutMsg(d)) /\ inbox[d] \in Seq(InMsg(d))
  BY DEF LobbyTypes, QueueTypes, OutTypes, InTypes
<1>1. PICK h, a : h = Head(outbox[d]) /\ a = Answer(h)
  OBVIOUS
<1>2. /\ outbox[d] # <<>> /\ h \in OutMsg(d) /\ a \in InMsg(d) /\ a.op = h.op
      /\ a.exists = (h.op \in GetOps /\ db.exists)
      /\ outbox'[d] = Tail(outbox[d]) /\ inbox'[d] = Append(inbox[d], a)
      /\ unacked' = unacked
  BY <1>1, DeliverList
<1>3. /\ Once(unacked[d], "setGame") /\ Once(outbox[d], "setGame")
      /\ Shadowed(d) => Waits(inbox[d], {"setGame"}) \/ Waits(outbox[d], {"setGame"})
      /\ Shadowed(d)' <=> Shadowed(d)
  BY <1>2 DEF OnList, GameOnce, Shadowed
<1>4. Once(outbox'[d], "setGame") /\ Once(unacked'[d], "setGame")
  BY <1>0, <1>2, <1>3, OnceTail
<1>5. Waits(outbox[d], {"setGame"}) => h.op = "setGame" \/ Waits(outbox'[d], {"setGame"})
  BY <1>0, <1>1, <1>2, WaitsTail
<1>6. Waits(inbox'[d], {"setGame"}) <=> Waits(inbox[d], {"setGame"}) \/ h.op = "setGame"
  BY <1>0, <1>2, WaitsAppend
<1>7. GameOnce(d)'
  BY <1>3, <1>4, <1>5, <1>6 DEF GameOnce
<1>8. ASSUME Shadowed(d) PROVE After(inbox'[d], JoinAnswers(d))
  <2>1. After(inbox[d], JoinAnswers(d))
    BY <1>8 DEF OnList, JoinsAfter
  <2>2. a \in JoinAnswers(d) => db.exists
    BY <1>2 DEF JoinAnswers
  <2>3. db.exists => ~ Waits(outbox[d], {"setGame"})
    BY DEF OnList, FreeIsNew
  <2>4. a \notin JoinAnswers(d) \/ Waits(inbox[d], {"setGame"})
    BY <1>3, <1>8, <2>2, <2>3
  <2> QED
    BY <1>0, <1>2, <2>1, <2>4, AfterAppend
<1>9. JoinsAfter(d)'
  BY <1>3, <1>8 DEF JoinsAfter
<1> QED
  BY <1>7, <1>9

(* ... and only where there is none, ...                                   *)
LEMMA DeliverNew ==
    ASSUME LobbyInv, HostInv, ~ contested, NEW d \in Devices, Deliver(d), \A e \in Devices : OnList(e)
    PROVE  \A e \in Devices : FreeIsNew(e)'
<1>0. LobbyTypes /\ Mirror /\ outbox[d] \in Seq(OutMsg(d)) /\ inbox[d] \in Seq(InMsg(d)) /\ db \in Game
  BY DEF LobbyInv, LobbyTypes, QueueTypes, OutTypes, InTypes
<1>1. PICK h, a : h = Head(outbox[d]) /\ a = Answer(h)
  OBVIOUS
<1>2. /\ outbox[d] # <<>> /\ h \in OutMsg(d) /\ a \in InMsg(d) /\ a.op = h.op
      /\ a.exists = (h.op \in GetOps /\ db.exists)
      /\ outbox'[d] = Tail(outbox[d]) /\ inbox'[d] = Append(inbox[d], a)
      /\ \A e \in Devices : e # d => outbox'[e] = outbox[e] /\ inbox'[e] = inbox[e]
      /\ db' = IF h.op \in GetOps THEN db ELSE Stored(db, h)
      /\ h.op \notin GetOps => h \in WriteMsg
  BY <1>0, <1>1, DeliverList
<1>3. ASSUME NEW e \in Devices PROVE Waits(outbox'[e], {"setGame"}) => Waits(outbox[e], {"setGame"})
  BY <1>0, <1>2, WaitsTail
<1>4. ASSUME NEW e \in Devices, FoundFree(e)', ~ FoundFree(e) PROVE e = d /\ a \in FreeAnswers(d)
  <2>1. FoundFree(d)' => FoundFree(d) \/ a \in FreeAnswers(d)
    BY <1>0, <1>2, InAppend DEF FoundFree
  <2> QED
    BY <1>2, <1>4, <2>1 DEF FoundFree
<1>5. CASE h.op # "setGame"
  <2>1. db'.exists = db.exists
    <3>1. CASE h.op \in GetOps
      BY <1>2, <3>1
    <3>2. CASE h.op \notin GetOps
      <4>1. h \in WriteMsg /\ db' = Stored(db, h)
        BY <1>2, <3>2
      <4>2. h.op = "setPlayer" \/ h.op = "setNumber" \/ h.op = "remove" \/ h.op = "setRound"
        BY <1>5, <4>1 DEF WriteMsg, WriteOps
      <4> QED
        BY <1>0, <4>1, <4>2 DEF Stored, Game
    <3> QED
      BY <3>1, <3>2
  <2>2. a \in FreeAnswers(d) => ~ db.exists
    BY <1>2 DEF FreeAnswers, GetOps
  <2> QED
    BY <1>3, <1>4, <2>1, <2>2 DEF OnList, FreeIsNew
<1>6. CASE h.op = "setGame"
  <2>1. Waits(outbox[d], {"setGame"})
    BY <1>0, <1>1, <1>2, <1>6, WaitsTail
  <2>2. Shadowed(d)
    BY <1>0, <2>1, SentIsPending
  <2>3. \A e \in Devices : ~ FoundFree(e)
    BY <2>2 DEF HostInv, FreeIsFree, Owner
  <2>4. a \notin FreeAnswers(d)
    BY <1>2, <1>6 DEF FreeAnswers
  <2>5. \A e \in Devices : ~ FoundFree(e)'
    BY <1>4, <2>3, <2>4
  <2>6. ASSUME NEW e \in Devices, Waits(outbox'[e], {"setGame"}) PROVE FALSE
    <3>1. Shadowed(e)
      BY <1>0, <1>3, <2>6, SentIsPending
    <3>2. e = d
      BY <2>2, <3>1 DEF HostInv, OneOwner, Owner
    <3>3. Once(outbox[d], "setGame")
      BY DEF OnList, GameOnce
    <3> QED
      BY <1>0, <1>1, <1>2, <1>6, <2>6, <3>2, <3>3, OnceTail
  <2> QED
    BY <2>5, <2>6 DEF FreeIsNew
<1> QED
  BY <1>5, <1>6

(* ... and who is on the list stays on it.                                 *)
LEMMA DeliverListed ==
    ASSUME LobbyInv, HostInv, TapsInv, ~ contested, NEW d \in Devices, Deliver(d), \A e \in Devices : OnList(e),
           NEW e \in Devices, NEW id \in Mine(e, Id), Tracked(e, id)
    PROVE  Listed(e, id)'
<1>0. /\ LobbyTypes /\ Mirror /\ outbox[d] \in Seq(OutMsg(d)) /\ db \in Game /\ id \in Id
  BY MineAre DEF LobbyInv, LobbyTypes, QueueTypes, OutTypes
<1>1. PICK h, a : h = Head(outbox[d]) /\ a = Answer(h)
  OBVIOUS
<1>2. /\ outbox[d] # <<>> /\ h \in OutMsg(d)
      /\ outbox'[d] = Tail(outbox[d]) /\ unacked' = unacked
      /\ \A f \in Devices : f # d => outbox'[f] = outbox[f]
      /\ db' = IF h.op \in GetOps THEN db ELSE Stored(db, h)
      /\ h.op \notin GetOps => h \in WriteMsg
  BY <1>0, <1>1, DeliverList
<1>3. Listed(e, id)
  BY DEF OnList
<1>4. Shadowed(e)' => Has(unacked'[e], GameOf(id))
  BY <1>2, <1>3 DEF Listed, Shadowed
<1>5. ASSUME NEW X, Has(outbox[e], X) PROVE Has(outbox'[e], X) \/ (e = d /\ h \in X)
  BY <1>0, <1>1, <1>2, <1>5, InTail
<1>6. CASE h.op \in GetOps
  <2>1. h \notin GameOf(id) /\ h \notin PlayerOf(id)
    BY <1>6 DEF GameOf, PlayerOf, GetOps
  <2> QED
    BY <1>2, <1>3, <1>4, <1>5, <1>6, <2>1 DEF Listed
<1>7. CASE h.op \notin GetOps /\ h.op # "setGame"
  <2>1. h \in WriteMsg /\ db' = Stored(db, h)
    BY <1>2, <1>7
  <2>2. h \notin Removes(id)
    <3> SUFFICES ASSUME h \in Removes(id) PROVE FALSE
      OBVIOUS
    <3>1. 1 \in 1..Len(outbox[d]) /\ outbox[d][1] = h
      BY <1>0, <1>1, <1>2
    <3>2. h.op \in WriteOps
      BY <2>1 DEF WriteMsg
    <3>3. PICK k \in 1..Len(unacked[d]) : unacked[d][k] = h
      BY <1>0, <3>1, <3>2, SentIsPending
    <3>4. Removed(d, id)
      BY <3>3 DEF Removed, Has
    <3>5. e = d
      BY <1>0, <3>4, MineAre DEF TapsInv, OwnRemoves
    <3>6. OneTap(d, id)
      BY <3>5 DEF TapsInv
    <3> QED
      BY <3>4, <3>5, <3>6 DEF OneTap, Coming, Tracked
  <2>3. /\ db'.exists = db.exists
        /\ h \in PlayerOf(id) => db'.players[id].joined
        /\ db.players[id].joined => db'.players[id].joined
    BY <1>0, <1>7, <2>1, <2>2, StoredJoined
  <2>4. h \notin GameOf(id)
    BY <1>7 DEF GameOf
  <2> QED
    BY <1>3, <1>4, <1>5, <2>3, <2>4 DEF Listed
<1>8. CASE h.op = "setGame"
  <2>1. h \in WriteMsg /\ db' = Stored(db, h)
    BY <1>2, <1>8 DEF GetOps
  <2>2. Waits(outbox[d], {"setGame"})
    BY <1>0, <1>1, <1>2, <1>8, WaitsTail
  <2>3. Shadowed(d) /\ ~ db.exists
    BY <1>0, <2>2, SentIsPending DEF OnList, FreeIsNew
  <2>4. Has(outbox[e], GameOf(id))
    BY <1>3, <2>3 DEF Listed
  <2>5. Shadowed(e)
    BY <1>0, <2>4, SentIsPending
  <2>6. e = d
    BY <2>3, <2>5 DEF HostInv, OneOwner, Owner
  <2>7. PICK i \in 1..Len(outbox[d]) : outbox[d][i] \in GameOf(id)
    BY <2>4, <2>6 DEF Has
  <2>8. 1 \in 1..Len(outbox[d]) /\ outbox[d][1] = h
    BY <1>0, <1>1, <1>2
  <2>9. outbox[d][i].op = "setGame" /\ Once(outbox[d], "setGame")
    BY <2>7 DEF GameOf, OnList, GameOnce
  <2>10. i = 1
    BY <1>8, <2>8, <2>9 DEF Once
  <2>11. h \in GameOf(id)
    BY <2>7, <2>8, <2>10
  <2>12. db'.players[id].joined
    BY <1>0, <2>1, <2>11, StoredJoined
  <2>13. db'.exists
    BY <1>0, <1>8, <2>1, StoredExists
  <2> QED
    BY <1>4, <2>12, <2>13 DEF Listed
<1> QED
  BY <1>6, <1>7, <1>8

(* The server's steps.                                                     *)
LEMMA ListDeliver ==
    ASSUME LobbyInv, HostInv, TapsInv, ~ contested, NEW d \in Devices, Deliver(d), \A e \in Devices : OnList(e)
    PROVE  \A e \in Devices : OnList(e)'
<1>0. LobbyTypes
  BY DEF LobbyInv
<1>1. /\ \A e \in Devices : e # d => outbox'[e] = outbox[e] /\ inbox'[e] = inbox[e]
      /\ unacked' = unacked /\ mainq' = mainq /\ screen' = screen /\ current' = current
  BY <1>0, DeliverList
<1>2. \A e \in Devices : FreeIsNew(e)'
  BY DeliverNew
<1>3. ASSUME NEW e \in Devices PROVE GameOnce(e)' /\ JoinsAfter(e)'
  <2>1. CASE e = d
    BY <1>0, <2>1, DeliverOnce
  <2>2. CASE e # d
    BY <1>1, <2>2 DEF OnList, GameOnce, JoinsAfter, Shadowed
  <2> QED
    BY <2>1, <2>2
<1>4. ASSUME NEW e \in Devices, NEW id \in Mine(e, Id), Tracked(e, id)' PROVE Listed(e, id)'
  <2>1. Tracked(e, id)
    BY <1>1, <1>4 DEF Tracked, Entering
  <2> QED
    BY <2>1, DeliverListed
<1> QED
  BY <1>2, <1>3, <1>4 DEF OnList

(* A game of which a device was told remains.                              *)
LEMMA AnswersNext ==
    ASSUME LobbyInv, AnswersTrue, Next
    PROVE  AnswersTrue'
<1>0. LobbyTypes /\ Mirror /\ db \in Game /\ \A e \in Devices : inbox[e] \in Seq(InMsg(e))
  BY DEF LobbyInv, LobbyTypes, QueueTypes, InTypes
<1>1. PICK d \in Devices : IsLocal(d) \/ Deliver(d) \/ GetFails(d) \/ LoseConnection(d) \/ AckWrite(d)
  BY <1>0, StepIs
<1>2. ASSUME db' = db, \A e \in Devices : e # d => inbox'[e] = inbox[e],
             \/ inbox'[d] = inbox[d] \/ inbox'[d] = <<>>
             \/ inbox[d] # <<>> /\ inbox'[d] = Tail(inbox[d])
      PROVE  AnswersTrue'
  <2> SUFFICES ASSUME NEW e \in Devices, Has(inbox'[e], ExistAnswers(e)) PROVE db'.exists
    BY DEF AnswersTrue
  <2>1. Has(inbox[e], ExistAnswers(e))
    <3>1. CASE inbox'[e] = inbox[e]
      BY <3>1
    <3>2. CASE inbox'[e] = <<>>
      BY <3>2, EmptyHasNone
    <3>3. CASE inbox[e] # <<>> /\ inbox'[e] = Tail(inbox[e])
      BY <1>0, <3>3, InTail
    <3> QED
      BY <1>2, <3>1, <3>2, <3>3
  <2> QED
    BY <1>2, <2>1 DEF AnswersTrue
<1>3. CASE IsLocal(d)
  <2>1. PICK xs, ms, bs : LocalStep(d, xs, ms, bs)
    BY <1>3 DEF IsLocal
  <2> QED
    BY <1>2, <2>1 DEF LocalStep, Takes, InIs, IsNow
<1>4. CASE GetFails(d)
  BY <1>0, <1>2, <1>4, GetFailsStep
<1>5. CASE LoseConnection(d)
  <2>1. InIs(d, <<>>) /\ db' = db
    BY <1>0, <1>5, LoseConnectionStep
  <2> QED
    BY <1>2, <2>1 DEF InIs, IsNow
<1>6. CASE AckWrite(d)
  <2>1. inbox[d] # <<>> /\ InIs(d, Tail(inbox[d])) /\ db' = db
    BY <1>0, <1>6, AckWriteStep
  <2> QED
    BY <1>2, <2>1 DEF InIs, IsNow
<1>7. CASE Deliver(d)
  <2>1. PICK h, a : h = Head(outbox[d]) /\ a = Answer(h)
    OBVIOUS
  <2>2. /\ a \in InMsg(d) /\ a.exists = (h.op \in GetOps /\ db.exists)
        /\ inbox'[d] = Append(inbox[d], a)
        /\ \A e \in Devices : e # d => inbox'[e] = inbox[e]
        /\ db' = IF h.op \in GetOps THEN db ELSE Stored(db, h)
        /\ h.op \notin GetOps => h \in WriteMsg
    BY <1>0, <1>7, <2>1, DeliverList
  <2>3. db.exists => db'.exists
    BY <1>0, <2>2, StoredExists
  <2> SUFFICES ASSUME NEW e \in Devices, Has(inbox'[e], ExistAnswers(e)) PROVE db'.exists
    BY DEF AnswersTrue
  <2>4. CASE e # d
    BY <2>2, <2>3, <2>4 DEF AnswersTrue
  <2>5. CASE e = d
    <3>1. Has(inbox[d], ExistAnswers(d)) \/ a \in ExistAnswers(d)
      BY <1>0, <2>2, <2>5, InAppend
    <3> QED
      BY <2>2, <2>3, <3>1 DEF AnswersTrue, ExistAnswers
  <2> QED
    BY <2>4, <2>5
<1> QED
  BY <1>1, <1>3, <1>4, <1>5, <1>6, <1>7

(* At first there is no game and no player.                                *)
LEMMA ListInit ==
    ASSUME Init
    PROVE  ListInv
<1>1. ASSUME NEW d \in Devices PROVE OnList(d) /\ ~ Has(inbox[d], ExistAnswers(d))
  <2>1. outbox[d] = <<>> /\ inbox[d] = <<>> /\ mainq[d] = <<>> /\ unacked[d] = <<>> /\ screen[d] = "Home"
    BY DEF Init
  <2>2. \A X : ~ Has(<<>>, X) /\ ~ Waits(<<>>, X)
    BY EmptyHasNone
  <2>3. Once(<<>>, "setGame")
    BY <2>2, OnceNone
  <2>4. ~ Shadowed(d) /\ ~ FoundFree(d) /\ \A id : ~ Tracked(d, id)
    BY <2>1, <2>2 DEF Shadowed, FoundFree, Tracked, Entering
  <2> QED
    BY <2>1, <2>2, <2>3, <2>4 DEF OnList, GameOnce, FreeIsNew, JoinsAfter
<1> QED
  BY <1>1 DEF ListInv, AnswersTrue

(* Every step keeps the list.                                              *)
LEMMA ListNext ==
    ASSUME LobbyInv, HostInv, TapsInv, ListInv, [Next]_lobbyVars
    PROVE  ListInv'
<1>0. LobbyTypes /\ AnswersTrue /\ (~ contested => \A e \in Devices : OnList(e))
  BY DEF LobbyInv, ListInv
<1>1. CASE UNCHANGED lobbyVars
  <2>1. /\ outbox' = outbox /\ inbox' = inbox /\ mainq' = mainq /\ unacked' = unacked /\ db' = db
        /\ current' = current /\ screen' = screen /\ contested' = contested
    BY <1>1 DEF lobbyVars, netVars, roomVars
  <2>2. AnswersTrue'
    BY <1>0, <2>1 DEF AnswersTrue
  <2>3. \A e \in Devices : OnList(e) => OnList(e)'
    BY <2>1 DEF OnList, GameOnce, FreeIsNew, JoinsAfter, Listed, Tracked, Entering, Shadowed, FoundFree
  <2> QED
    BY <1>0, <2>1, <2>2, <2>3 DEF ListInv
<1>2. ASSUME NEW d \in Devices, Tap(d) \/ Work(d) \/ GetFails(d) \/ LoseConnection(d), ~ contested'
      PROVE  \A e \in Devices : OnList(e)'
  <2>1. ~ contested
    BY <1>2 DEF Tap, Work, Complete, Main, Listen, TapHost, TapJoin, TapStart, TapLeave, Deliver, AckWrite,
                HostAnswered, JoinAnswered, SettingsAnswered, StartAnswered, RosterAnswered, ToldRoundNum,
                ToldPlayers, Enter, UpdateGameSettings, CheckRoundNum, HandlePlayers, GetFails, LoseConnection
  <2>2. \A e \in Devices : OnList(e)
    BY <1>0, <2>1
  <2>3. CASE TapHost(d) \/ TapJoin(d) \/ TapLeave(d)
    BY <1>0, <2>2, <2>3, ListTaps
  <2>4. CASE Deliver(d)
    BY <2>1, <2>2, <2>4, ListDeliver
  <2>5. CASE GetFails(d)
    BY <1>0, <2>2, <2>5, ListGetFails
  <2>6. CASE LoseConnection(d)
    BY <1>2, <2>2, <2>6, ListLoseConnection
  <2>7. CASE AckWrite(d)
    BY <2>2, <2>7, ListAckWrite
  <2>8. CASE HostAnswered(d) /\ CodeIsFree(Head(inbox[d]))
    BY <1>0, <2>1, <2>2, <2>8, HostAccepts, ListHost
  <2>9. CASE JoinAnswered(d) /\ GameExists(Head(inbox[d]))
    BY <1>0, <2>2, <2>9, JoinAccepts, ListJoin
  <2>10. CASE Enter(d)
    BY <1>0, <2>2, <2>10, ListEnter
  <2>11. CASE \/ TapStart(d) \/ SettingsAnswered(d) \/ StartAnswered(d) \/ RosterAnswered(d)
              \/ HostAnswered(d) /\ ~ CodeIsFree(Head(inbox[d]))
              \/ JoinAnswered(d) /\ ~ GameExists(Head(inbox[d]))
              \/ Listen(d) \/ UpdateGameSettings(d) \/ CheckRoundNum(d) \/ HandlePlayers(d)
    BY <1>0, <2>2, <2>11, PlainSteps, ListPlain
  <2> QED
    BY <1>2, <2>3, <2>4, <2>5, <2>6, <2>7, <2>8, <2>9, <2>10, <2>11 DEF Tap, Work, Complete, Main
<1>3. CASE Next
  <2>1. AnswersTrue'
    BY <1>0, <1>3, AnswersNext
  <2>2. ~ contested' => \A e \in Devices : OnList(e)'
    BY <1>2, <1>3 DEF Next
  <2> QED
    BY <2>1, <2>2 DEF ListInv
<1> QED
  BY <1>1, <1>3

(* A player who is on the server's list, or gets on it by the pending      *)
(* write p, is on the list the device shows, unless a later one takes him  *)
(* off.                                                                    *)
LEMMA ViewLists ==
    ASSUME LobbyTypes, NEW d \in Devices, NEW id \in Id, NEW p \in 0..Len(unacked[d]),
           p = 0 => db.players[id].joined,
           p > 0 => unacked[d][p] \in GameOf(id) \/ unacked[d][p] \in PlayerOf(id),
           \A i \in 1..Len(unacked[d]) : i > p => unacked[d][i].op # "setGame" /\ unacked[d][i] \notin Removes(id)
    PROVE  LocalView(d).players[id].joined
<1> DEFINE u == unacked[d]
           N == Len(u)
<1>0. u \in Seq(WriteMsg) /\ N \in Nat /\ db \in Game /\ \A i \in 1..N : u[i] \in WriteMsg
  BY DEF LobbyTypes, QueueTypes, UnTypes
<1>1. \A g \in Game : \A i \in 1..Len(unacked[d]) : Stored(g, unacked[d][i]) \in Game
  BY <1>0, StoredIsGame
<1>2. PICK View : ViewOf(d, View)
  BY <1>0, <1>1, LocalViewSteps, Zenon
<1> HIDE DEF u, N
<1>3. LocalView(d) = View[N] /\ \A i \in 0..N : View[i] = IF i = 0 THEN db ELSE Stored(View[i - 1], u[i])
  BY <1>2, Zenon DEF ViewOf, N, u
<1> DEFINE Shows(n) == View[n] \in Game /\ (n >= p => View[n].players[id].joined)
           K == {n \in Nat : n <= N => Shows(n)}
<1>4. 0 \in K
  <2>1. View[0] = db
    BY <1>0, <1>3
  <2>2. 0 >= p => p = 0
    OBVIOUS
  <2> QED
    BY <1>0, <2>1, <2>2
<1>5. ASSUME NEW n \in Nat, n \in K PROVE n + 1 \in K
  <2> SUFFICES ASSUME n + 1 <= N PROVE Shows(n + 1)
    <3> HIDE DEF Shows
    <3> QED
      OBVIOUS
  <2>1. n + 1 \in 0..N /\ n + 1 # 0 /\ (n + 1) - 1 = n /\ n <= N /\ n + 1 \in 1..N /\ p \in Nat
    BY <1>0
  <2>2. Shows(n)
    BY <1>5, <2>1
  <2>3. PICK g, m : g = View[n] /\ m = u[n + 1]
    OBVIOUS
  <2>4. View[n + 1] = Stored(g, m) /\ g \in Game /\ m \in WriteMsg
    BY <1>0, <1>3, <2>1, <2>2, <2>3
  <2>5. Stored(g, m) \in Game
    BY <2>4, StoredIsGame
  <2>6. /\ m \in GameOf(id) \/ m \in PlayerOf(id) => Stored(g, m).players[id].joined
        /\ m.op # "setGame" /\ m \notin Removes(id) /\ g.players[id].joined => Stored(g, m).players[id].joined
    BY <2>4, StoredJoined
  <2>7. CASE n + 1 = p
    <3>1. m \in GameOf(id) \/ m \in PlayerOf(id)
      BY <2>1, <2>3, <2>7 DEF u
    <3> QED
      BY <2>4, <2>5, <2>6, <3>1
  <2>8. CASE n + 1 > p
    <3>1. n >= p
      BY <2>1, <2>8
    <3>2. g.players[id].joined
      BY <2>2, <2>3, <3>1
    <3>3. m.op # "setGame" /\ m \notin Removes(id)
      BY <2>1, <2>3, <2>8 DEF u, N
    <3> QED
      BY <2>4, <2>5, <2>6, <3>2, <3>3
  <2>9. CASE n + 1 < p
    <3>1. ~ (n + 1 >= p)
      BY <2>1, <2>9
    <3> QED
      BY <2>4, <2>5, <3>1
  <2>10. n + 1 = p \/ n + 1 > p \/ n + 1 < p
    BY <2>1
  <2> QED
    BY <2>7, <2>8, <2>9, <2>10
<1>6. N \in K
  <2> HIDE DEF K
  <2> QED
    BY <1>0, <1>4, <1>5, InductionOnSets
<1>7. N >= p
  BY <1>0 DEF N, u
<1> QED
  BY <1>0, <1>3, <1>6, <1>7

(* Who waits is on the list he is shown.                                   *)
LEMMA OnTheListFromInv ==
    ASSUME LobbyInv, TapsInv, ListInv
    PROVE  OnTheList
<1> SUFFICES ASSUME ~ contested, NEW d \in Devices, screen[d] = "WaitingRoom"
             PROVE  current[d] \in Present(LocalView(d).players)
  BY DEF OnTheList
<1>0. LobbyTypes /\ Mirror /\ OnList(d) /\ unacked[d] \in Seq(WriteMsg)
  BY DEF LobbyInv, ListInv, LobbyTypes, QueueTypes, UnTypes
<1>1. PICK id : id = current[d]
  OBVIOUS
<1>2. id \in Mine(d, Id) /\ id \in Id
  BY <1>0, <1>1, MineAre DEF LobbyTypes, RoomTypes
<1>3. Listed(d, id)
  BY <1>0, <1>1, <1>2 DEF OnList, Tracked
<1>4. ~ Removed(d, id)
  BY <1>1, <1>2 DEF TapsInv, OneTap
<1>5. \A i \in 1..Len(unacked[d]) : unacked[d][i] \notin Removes(id)
  BY <1>4 DEF Removed, Has
<1>6. Len(unacked[d]) \in Nat
  BY <1>0
<1>7. LocalView(d).players[id].joined
  <2>1. CASE Shadowed(d)
    <3>1. PICK p \in 1..Len(unacked[d]) : unacked[d][p] \in GameOf(id)
      BY <1>3, <2>1 DEF Listed, Has
    <3>2. \A i \in 1..Len(unacked[d]) : i > p => unacked[d][i].op # "setGame"
      <4>1. unacked[d][p].op = "setGame" /\ Once(unacked[d], "setGame")
        BY <1>0, <3>1 DEF GameOf, OnList, GameOnce
      <4>2. \A i \in 1..Len(unacked[d]) : unacked[d][i].op = "setGame" => i = p
        BY <4>1 DEF Once
      <4> QED
        BY <3>1, <4>2
    <3>3. p \in 0..Len(unacked[d]) /\ p > 0 /\ p # 0
      BY <1>6, <3>1
    <3> QED
      BY <1>0, <1>2, <1>5, <3>1, <3>2, <3>3, ViewLists
  <2>2. CASE ~ Shadowed(d)
    <3>1. \A i \in 1..Len(unacked[d]) : unacked[d][i].op # "setGame"
      BY <2>2 DEF Shadowed, Waits
    <3>2. ~ Has(outbox[d], GameOf(id)) /\ (Has(outbox[d], PlayerOf(id)) => Has(unacked[d], PlayerOf(id)))
      BY <1>0, <2>2, SentIsPending
    <3>3. db.players[id].joined \/ Has(unacked[d], PlayerOf(id))
      BY <1>3, <3>2 DEF Listed
    <3>4. CASE db.players[id].joined
      <4>1. 0 \in 0..Len(unacked[d]) /\ ~ (0 > 0)
        BY <1>6
      <4> QED
        BY <1>0, <1>2, <1>5, <3>1, <3>4, <4>1, ViewLists
    <3>5. CASE Has(unacked[d], PlayerOf(id))
      <4>1. PICK p \in 1..Len(unacked[d]) : unacked[d][p] \in PlayerOf(id)
        BY <3>5 DEF Has
      <4>2. p \in 0..Len(unacked[d]) /\ p > 0 /\ p # 0
        BY <1>6, <4>1
      <4> QED
        BY <1>0, <1>2, <1>5, <3>1, <4>1, <4>2, ViewLists
    <3> QED
      BY <3>3, <3>4, <3>5
  <2> QED
    BY <2>1, <2>2
<1>8. LocalView(d).players[id] # Absent
  BY <1>7 DEF Absent
<1> QED
  BY <1>1, <1>2, <1>8 DEF Present

(* Who waits is on the list of players that the SDK of his device shows,   *)
(* whatever joins, leaves, failed gets and lost connections come in        *)
(* between, as long as no two devices host at once and no game is written  *)
(* twice (hostGame and joinGame of StorageController_Home): for any number *)
(* of devices, taps, starts and faults.                                    *)
THEOREM WaitingIsListed == Spec => []OnTheList
<1>1. Init => LobbyInv /\ HostInv /\ TapsInv /\ ListInv
  BY LobbyInit, HostInit, TapsInit, ListInit
<1>2. LobbyInv /\ HostInv /\ TapsInv /\ ListInv /\ [Next]_lobbyVars => (LobbyInv /\ HostInv /\ TapsInv /\ ListInv)'
  BY LobbyNext, HostNext, TapsNext, ListNext
<1>3. LobbyInv /\ HostInv /\ TapsInv /\ ListInv => OnTheList
  BY OnTheListFromInv
<1> QED
  BY <1>1, <1>2, <1>3, PTL DEF Spec

=============================================================================
