--------------------------- MODULE ConnectionProofs ---------------------------
(***************************************************************************)
(* Proofs about Connection, for any number of writes, gets, listens and    *)
(* lost connections: the type invariant, what a get is given, which write  *)
(* stands in the end, which listens the server keeps, and that the writes  *)
(* of the connection implement WriteChannel.                               *)
(*                                                                         *)
(* All of them follow from ConnectionInv.  Its heart is Writes(a, b): at   *)
(* any time the writes 1..a are answered for good, a+1..b have been taken  *)
(* by the server and their responses are on the connection, in order, and  *)
(* b+1..putCounter are on the connection as requests, in order.            *)
(***************************************************************************)
EXTENDS Connection, FirstOrderInduction, SequenceTheorems

-----------------------------------------------------------------------------
(* The inductive invariant.                                                *)

Request == [op : {"listen", "unlisten"}, arg : Queries] \cup [op : {"put", "get"}, arg : Nat]
Answer  == [op : {"listen", "put", "get"}, arg : Nat, value : Nat]

Numbered(s, puts, gets) ==
    \A i \in 1..Len(s) : /\ s[i].op = "put" => s[i].arg \in 1..puts
                         /\ s[i].op = "get" => s[i].arg \in 1..gets

WritesTyped ==
    /\ putCounter \in Nat /\ outstandingPuts \subseteq 1..putCounter
    /\ completed \subseteq 1..putCounter
    /\ putsToAck \in Seq(Nat) /\ \A i \in 1..Len(putsToAck) : putsToAck[i] \in 1..putCounter
    /\ log \in Seq(Nat) /\ \A i \in 1..Len(log) : log[i] \in 1..putCounter

GetsTyped ==
    /\ getCounter \in Nat /\ outstandingGets \subseteq 1..getCounter
    /\ sentGets \subseteq 1..getCounter /\ getTimers \subseteq 1..getCounter
    /\ before \in Seq(Nat) /\ Len(before) = getCounter
    /\ results \in Seq([get : Nat, value : Int])

ListensTyped ==
    /\ listens \subseteq Queries /\ serverListens \subseteq Queries
    /\ loading \in Nat /\ unackedListensCount \in Int

MessagesTyped ==
    /\ connectionState \in {"Disconnected", "Connecting", "Connected"}
    /\ requests \in Seq(Request) /\ responses \in Seq(Answer)
    /\ Numbered(requests, putCounter, getCounter) /\ Numbered(responses, putCounter, getCounter)

Typed == WritesTyped /\ GetsTyped /\ ListensTyped /\ MessagesTyped

(* Without a connection nothing is on its way, and the server holds no     *)
(* listens of this device.                                                 *)
Idle ==
    ~Connected => /\ requests = <<>> /\ responses = <<>>
                  /\ loading = 0 /\ serverListens = {} /\ unackedListensCount = 0

(* A listen without a handled response is a request, loading at the server *)
(* or a response.                                                          *)
Count(s, op) == Cardinality({i \in 1..Len(s) : s[i].op = op})

Counting == unackedListensCount = Count(requests, "listen") + loading + Count(responses, "listen")

(* The last of the messages s that concerns the query q says whether it is *)
(* listened to, on; if none concerns it, it is listened to already, was.   *)
Concerns(m, q) == m.op \in {"listen", "unlisten"} /\ m.arg = q

Silent(s, q) == \A p \in 1..Len(s) : ~Concerns(s[p], q)

Settled(s, q, on) ==
    \E p \in 1..Len(s) : /\ Concerns(s[p], q) /\ (s[p].op = "listen" <=> on)
                         /\ \A k \in (p + 1)..Len(s) : ~Concerns(s[k], q)

Heard(s, q, was, on) == Settled(s, q, on) \/ (Silent(s, q) /\ (was <=> on))

Listening == Connected => \A q \in Queries : Heard(requests, q, q \in serverListens, q \in listens)

(* The writes among the messages s are lo+1..hi, each once and in order.   *)
InSequence(s, lo, hi) ==
    /\ \A i \in 1..Len(s) : s[i].op = "put" => s[i].arg \in (lo + 1)..hi
    /\ \A v \in (lo + 1)..hi : \E i \in 1..Len(s) : s[i].op = "put" /\ s[i].arg = v
    /\ \A i, j \in 1..Len(s) : i < j /\ s[i].op = "put" /\ s[j].op = "put" => s[i].arg < s[j].arg

Window(a, b) ==
    /\ outstandingPuts = (a + 1)..putCounter
    /\ InSequence(responses, a, b)
    /\ Connected => InSequence(requests, b, putCounter)

(* The value in the database is not older than b; a write taken by the     *)
(* server but not answered for is followed by newer ones only; an answered *)
(* one that an older one overwrote was written again.                      *)
Logged(a, b) ==
    /\ Value >= b
    /\ \A v \in (a + 1)..b : \E k \in 1..Len(log) :
          log[k] = v /\ \A j \in (k + 1)..Len(log) : log[j] > v
    /\ \A i, j \in 1..Len(log) : i < j /\ log[j] < log[i] =>
          log[i] > a \/ \E k \in (j + 1)..Len(log) : log[k] = log[i]

Writes(a, b) ==
    /\ a \in Nat /\ b \in Nat /\ a <= b /\ b <= putCounter
    /\ Window(a, b) /\ Logged(a, b)

(* past[g] is the last write made before the get g.  A write behind a get  *)
(* on the connection was made after it.                                    *)
BeforeIsPast == \A g \in 1..getCounter : before[g] <= putCounter

WritesAfterGet(s, past) ==
    \A i, j \in 1..Len(s) : i < j /\ s[i].op = "get" /\ s[j].op = "put" => s[j].arg > past[s[i].arg]

AnswersRecent(s, past) == \A i \in 1..Len(s) : s[i].op = "get" => s[i].value >= past[s[i].arg]

ResultsRecent ==
    \A i \in 1..Len(results) :
        /\ results[i].get \in (1..getCounter) \ outstandingGets
        /\ results[i].value # Failed => results[i].value >= before[results[i].get]
        /\ \A j \in 1..(i - 1) : results[j].get # results[i].get

Reads ==
    /\ BeforeIsPast /\ WritesAfterGet(requests, before)
    /\ AnswersRecent(responses, before) /\ ResultsRecent

ConnectionInv ==
    /\ Typed /\ Idle /\ Counting /\ Listening /\ Reads
    /\ \E a, b \in 0..putCounter : Writes(a, b)

-----------------------------------------------------------------------------
(* Sequences.                                                              *)

(* The elements of a concatenation, for what restoreState sends.            *)
LEMMA ConcatAre ==
    ASSUME NEW R, NEW x \in Seq(R), NEW y \in Seq(R), NEW w, w = x \o y
    PROVE  /\ w \in Seq(R)
           /\ Len(w) = Len(x) + Len(y)
           /\ \A i \in 1..Len(x) : w[i] = x[i]
           /\ \A i \in (Len(x) + 1)..Len(w) : w[i] = y[i - Len(x)]
  OBVIOUS

(* What is left when the head of a queue is taken, as ServerTakes and       *)
(* OnDataMessage do.                                                        *)
LEMMA TailAre ==
    ASSUME NEW R, NEW s \in Seq(R), s # <<>>
    PROVE  /\ Len(s) \in Nat /\ Len(s) > 0
           /\ Head(s) = s[1] /\ Head(s) \in R
           /\ Tail(s) \in Seq(R) /\ Len(Tail(s)) = Len(s) - 1
           /\ \A i \in 1..Len(Tail(s)) : i + 1 \in 1..Len(s) /\ Tail(s)[i] = s[i + 1]
  OBVIOUS

(* The elements of a queue to which sendAction: or the server appends a     *)
(* message.                                                                 *)
LEMMA AppendAre ==
    ASSUME NEW R, NEW s \in Seq(R), NEW m \in R
    PROVE  /\ Append(s, m) \in Seq(R) /\ Len(s) \in Nat /\ Len(Append(s, m)) = Len(s) + 1
           /\ Append(s, m)[Len(s) + 1] = m
           /\ \A i \in 1..Len(s) : Append(s, m)[i] = s[i]
           /\ \A i \in 1..Len(Append(s, m)) : i \in 1..Len(s) \/ i = Len(s) + 1
  OBVIOUS

-----------------------------------------------------------------------------
(* The sorted keys that restoreState sends.                                *)

Increasing(s, S) ==
    /\ s \in [1..Cardinality(S) -> S]
    /\ \A i, j \in 1..Cardinality(S) : i < j => s[i] < s[j]

(* A set of indices can be sorted, by induction on its bound: InOrder is the *)
(* increasing sequence of its elements.                                     *)
LEMMA SortedExists ==
    ASSUME NEW n \in Nat, NEW S \in SUBSET (1..n)
    PROVE  Increasing(InOrder(S), S)
<1> DEFINE G == {m \in Nat : \A T \in SUBSET (1..m) : \E s : Increasing(s, T)}
<1>1. 0 \in G
  <2>1. \A T \in SUBSET (1..0) : T = {}
    OBVIOUS
  <2>2. Increasing(<<>>, {})
    BY FS_EmptySet DEF Increasing
  <2> QED
    BY <2>1, <2>2
<1>2. ASSUME NEW m \in Nat, m \in G
      PROVE  m + 1 \in G
  <2> SUFFICES ASSUME NEW T \in SUBSET (1..(m + 1))
               PROVE  \E s : Increasing(s, T)
    OBVIOUS
  <2>1. CASE m + 1 \notin T
    <3>1. T \in SUBSET (1..m)
      BY <2>1
    <3> QED
      BY <3>1, <1>2
  <2>2. CASE m + 1 \in T
    <3> DEFINE U == T \ {m + 1}
    <3>1. U \in SUBSET (1..m) /\ IsFiniteSet(U) /\ Cardinality(U) \in Nat
      <4>1. U \in SUBSET (1..m)
        OBVIOUS
      <4>2. IsFiniteSet(1..m)
        BY FS_Interval
      <4> QED
        BY <4>1, <4>2, FS_Subset, FS_CardinalityType
    <3>2. PICK s : Increasing(s, U)
      BY <3>1, <1>2
    <3>3. Cardinality(T) = Cardinality(U) + 1
      <4>1. T = U \cup {m + 1} /\ m + 1 \notin U
        BY <2>2
      <4> HIDE DEF U
      <4> QED
        BY <4>1, <3>1, FS_AddElement
    <3> DEFINE k == Cardinality(U)
               t == [i \in 1..(k + 1) |-> IF i = k + 1 THEN m + 1 ELSE s[i]]
    <3>4. /\ k \in Nat /\ s \in [1..k -> U]
          /\ \A i, j \in 1..k : i < j => s[i] < s[j]
          /\ \A u \in U : u \in T /\ u \in 1..m
      BY <3>1, <3>2 DEF Increasing
    <3> HIDE DEF U, k
    <3>5. t \in [1..(k + 1) -> T]
      BY <3>4, <2>2
    <3>6. \A i, j \in 1..(k + 1) : i < j => t[i] < t[j]
      BY <3>4
    <3> QED
      BY <3>3, <3>5, <3>6 DEF Increasing, k
  <2> QED
    BY <2>1, <2>2
<1>3. n \in G
  <2> HIDE DEF G
  <2> QED BY <1>1, <1>2, InductionOnSets
<1>4. \E s : Increasing(s, S)
  BY <1>3
<1> QED
  BY <1>4 DEF Increasing, InOrder

(* The sorted sequence of an interval counts it out.                        *)
LEMMA SortedInterval ==
    ASSUME NEW a \in Nat, NEW c \in Nat, a <= c
    PROVE  InOrder((a + 1)..c) = [i \in 1..(c - a) |-> a + i]
<1> DEFINE S == (a + 1)..c
           s == InOrder(S)
           n == c - a
<1>1. n \in Nat /\ Cardinality(S) = n
  <2>1. Cardinality(S) = IF a + 1 > c THEN 0 ELSE c - (a + 1) + 1
    BY FS_Interval
  <2> QED
    BY <2>1
<1>2. s \in [1..n -> S] /\ \A i, j \in 1..n : i < j => s[i] < s[j]
  <2>1. S \in SUBSET (1..c)
    OBVIOUS
  <2>2. Increasing(s, S)
    BY <2>1, SortedExists
  <2> QED
    BY <2>2, <1>1 DEF Increasing
<1> HIDE DEF s
<1>3. \A k \in Nat : k \in 1..n => s[k] >= a + k
  <2> DEFINE G == {k \in Nat : k \in 1..n => s[k] >= a + k}
  <2>1. 0 \in G
    OBVIOUS
  <2>2. ASSUME NEW k \in Nat, k \in G PROVE k + 1 \in G
    <3> SUFFICES ASSUME k + 1 \in 1..n PROVE s[k + 1] >= a + (k + 1)
      OBVIOUS
    <3>1. CASE k = 0
      BY <3>1, <1>1, <1>2
    <3>2. CASE k # 0
      <4>1. k \in 1..n /\ s[k] >= a + k /\ s[k] < s[k + 1] /\ s[k] \in Int /\ s[k + 1] \in Int
        BY <3>2, <1>1, <1>2, <2>2
      <4> QED BY <4>1
    <3> QED BY <3>1, <3>2
  <2> HIDE DEF G
  <2>3. \A k \in Nat : k \in G
    BY <2>1, <2>2, InductionOnSets
  <2> QED BY <2>3 DEF G
<1>4. \A k \in Nat : k < n => s[n - k] <= c - k
  <2> DEFINE G == {k \in Nat : k < n => s[n - k] <= c - k}
  <2>1. 0 \in G
    BY <1>1, <1>2
  <2>2. ASSUME NEW k \in Nat, k \in G PROVE k + 1 \in G
    <3> SUFFICES ASSUME k + 1 < n PROVE s[n - (k + 1)] <= c - (k + 1)
      OBVIOUS
    <3>1. n - k \in 1..n /\ n - (k + 1) \in 1..n /\ n - (k + 1) < n - k
      BY <1>1
    <3>2. s[n - k] <= c - k /\ s[n - (k + 1)] < s[n - k] /\ s[n - k] \in Int /\ s[n - (k + 1)] \in Int
      BY <3>1, <1>1, <1>2, <2>2
    <3> QED BY <3>2
  <2> HIDE DEF G
  <2>3. \A k \in Nat : k \in G
    BY <2>1, <2>2, InductionOnSets
  <2> QED BY <2>3 DEF G
<1>5. ASSUME NEW i \in 1..n PROVE s[i] = a + i
  <2>1. n - i \in Nat /\ n - i < n /\ n - (n - i) = i
    BY <1>1
  <2>2. s[n - (n - i)] <= c - (n - i)
    BY <2>1, <1>4
  <2>3. s[i] >= a + i /\ s[i] \in Int
    BY <1>1, <1>2, <1>3
  <2> QED BY <2>1, <2>2, <2>3, <1>1
<1>6. s = [i \in 1..n |-> a + i]
  BY <1>2, <1>5
<1> QED BY <1>6 DEF s

(* The sorted sequence of a set of indices is a sequence of its elements.   *)
LEMMA SortedSet ==
    ASSUME NEW n \in Nat, NEW S \in SUBSET (1..n)
    PROVE  InOrder(S) \in Seq(Nat) /\ \A i \in 1..Len(InOrder(S)) : InOrder(S)[i] \in S
<1> DEFINE s == InOrder(S)
           k == Cardinality(S)
<1>1. k \in Nat
  <2>1. IsFiniteSet(1..n)
    BY FS_Interval
  <2> QED
    BY <2>1, FS_Subset, FS_CardinalityType
<1>2. s \in [1..k -> S]
  BY SortedExists, Zenon DEF Increasing
<1> HIDE DEF s, k
<1>3. s \in [1..k -> Nat]
  <2>1. \A x \in S : x \in Nat
    OBVIOUS
  <2> QED
    BY <2>1, <1>2
<1>4. s \in Seq(Nat) /\ Len(s) = k
  BY <1>1, <1>3
<1>5. \A i \in 1..Len(s) : s[i] \in S
  BY <1>2, <1>4
<1> QED
  BY <1>4, <1>5 DEF s

-----------------------------------------------------------------------------
(* The operators of the invariant, when messages are sent and taken.       *)

(* The messages of a kind on the connection can be counted.                 *)
LEMMA CountType ==
    ASSUME NEW R, NEW s \in Seq(R), NEW op
    PROVE  /\ IsFiniteSet({i \in 1..Len(s) : s[i].op = op})
           /\ Count(s, op) \in Nat
<1>1. IsFiniteSet(1..Len(s))
  BY FS_Interval
<1> QED
  BY <1>1, FS_Subset, FS_CardinalityType DEF Count

(* An empty connection holds no message of any kind.                        *)
LEMMA CountEmpty ==
    ASSUME NEW op
    PROVE  Count(<<>>, op) = 0
<1>1. {i \in 1..Len(<<>>) : <<>>[i].op = op} = {}
  OBVIOUS
<1> QED
  BY <1>1, FS_EmptySet DEF Count

(* Sending a message adds one to the count of its kind.                     *)
LEMMA CountAppend ==
    ASSUME NEW R, NEW s \in Seq(R), NEW m \in R, NEW op
    PROVE  Count(Append(s, m), op) = Count(s, op) + IF m.op = op THEN 1 ELSE 0
<1> DEFINE S == {i \in 1..Len(s) : s[i].op = op}
           t == Append(s, m)
           T == {i \in 1..Len(t) : t[i].op = op}
<1>0. Count(s, op) = Cardinality(S) /\ Count(t, op) = Cardinality(T)
  BY Zenon DEF Count
<1>1. IsFiniteSet(S) /\ Cardinality(S) \in Nat
  BY CountType DEF Count
<1>2. Len(s) + 1 \notin S
  OBVIOUS
<1>3. CASE m.op = op
  <2>1. T = S \cup {Len(s) + 1}
    BY <1>3
  <2> HIDE DEF S, T
  <2>2. Cardinality(T) = Cardinality(S) + 1
    BY <2>1, <1>1, <1>2, FS_AddElement
  <2> QED
    BY <2>2, <1>0, <1>3
<1>4. CASE m.op # op
  <2>1. T = S
    BY <1>4
  <2> HIDE DEF S, T
  <2> QED
    BY <2>1, <1>0, <1>1, <1>4
<1> QED
  BY <1>3, <1>4

(* Taking a message takes one from the count of its kind.                   *)
LEMMA CountTail ==
    ASSUME NEW R, NEW s \in Seq(R), s # <<>>, NEW op
    PROVE  Count(s, op) = Count(Tail(s), op) + IF Head(s).op = op THEN 1 ELSE 0
<1> DEFINE t == Tail(s)
           T == {i \in 1..Len(t) : t[i].op = op}
           S == {i \in 1..Len(s) : s[i].op = op}
           U == {i \in 2..Len(s) : s[i].op = op}
           f == [i \in T |-> i + 1]
<1>0. Count(s, op) = Cardinality(S) /\ Count(t, op) = Cardinality(T)
  BY Zenon DEF Count
<1>1. t \in Seq(R) /\ Len(t) = Len(s) - 1 /\ \A i \in 1..Len(t) : t[i] = s[i + 1]
  OBVIOUS
<1>2. IsFiniteSet(T) /\ IsFiniteSet(S)
  BY <1>1, CountType
<1>3. ExistsBijection(T, U)
  <2>1. f \in [T -> U]
    BY <1>1
  <2>2. \A i, j \in T : f[i] = f[j] => i = j
    BY <1>1
  <2>3. \A u \in U : \E i \in T : f[i] = u
    <3> SUFFICES ASSUME NEW u \in U PROVE \E i \in T : f[i] = u
      OBVIOUS
    <3>1. u - 1 \in T /\ f[u - 1] = u
      BY <1>1
    <3> QED
      BY <3>1
  <2>4. f \in Bijection(T, U)
    <3> HIDE DEF f, T, U
    <3> QED
      BY <2>1, <2>2, <2>3 DEF Bijection, Injection, Surjection, IsInjective
  <2> QED
    BY <2>4 DEF ExistsBijection
<1>4. IsFiniteSet(U) /\ Cardinality(U) = Cardinality(T) /\ Cardinality(U) \in Nat
  <2> HIDE DEF T, U
  <2> QED
    BY <1>2, <1>3, FS_Bijection, FS_CardinalityType
<1>5. 1 \notin U /\ Head(s) = s[1] /\ 1 \in 1..Len(s)
  OBVIOUS
<1>6. CASE Head(s).op = op
  <2>1. S = U \cup {1}
    BY <1>5, <1>6
  <2> HIDE DEF S, T, U
  <2>2. Cardinality(S) = Cardinality(U) + 1
    BY <2>1, <1>4, <1>5, FS_AddElement
  <2> QED
    BY <2>2, <1>0, <1>4, <1>6
<1>7. CASE Head(s).op # op
  <2>1. S = U
    BY <1>5, <1>7
  <2> HIDE DEF S, T, U
  <2> QED
    BY <2>1, <1>0, <1>4, <1>7
<1> QED
  BY <1>6, <1>7

(* Sending the next write, or what is not a write, keeps the writes in      *)
(* sequence.                                                                *)
LEMMA InSequenceAppend ==
    ASSUME NEW R, NEW s \in Seq(R), NEW m \in R, NEW lo \in Nat, NEW hi \in Nat, lo <= hi,
           InSequence(s, lo, hi)
    PROVE  /\ m.op # "put" => InSequence(Append(s, m), lo, hi)
           /\ m.op = "put" /\ m.arg = hi + 1 => InSequence(Append(s, m), lo, hi + 1)
<1> DEFINE t == Append(s, m)
<1>1. /\ Len(t) = Len(s) + 1 /\ t[Len(s) + 1] = m /\ Len(s) \in Nat
      /\ \A i \in 1..Len(s) : t[i] = s[i]
  OBVIOUS
<1> HIDE DEF t
<1>2. \A i \in 1..Len(t) : i = Len(s) + 1 \/ i \in 1..Len(s)
  BY <1>1
<1>3. ASSUME m.op # "put" PROVE InSequence(t, lo, hi)
  <2>1. \A i \in 1..Len(t) : t[i].op = "put" => i \in 1..Len(s) /\ t[i] = s[i]
    BY <1>1, <1>2, <1>3
  <2>2. \A i \in 1..Len(s) : i \in 1..Len(t)
    BY <1>1
  <2> QED
    BY <2>1, <2>2, <1>1 DEF InSequence
<1>4. ASSUME m.op = "put", m.arg = hi + 1 PROVE InSequence(t, lo, hi + 1)
  <2>1. \A i \in 1..Len(t) : t[i].op = "put" => t[i].arg \in (lo + 1)..(hi + 1)
    BY <1>1, <1>2, <1>4 DEF InSequence
  <2>2. \A v \in (lo + 1)..(hi + 1) : \E i \in 1..Len(t) : t[i].op = "put" /\ t[i].arg = v
    <3> SUFFICES ASSUME NEW v \in (lo + 1)..(hi + 1)
                 PROVE  \E i \in 1..Len(t) : t[i].op = "put" /\ t[i].arg = v
      OBVIOUS
    <3>1. CASE v = hi + 1
      BY <3>1, <1>1, <1>4
    <3>2. CASE v # hi + 1
      <4>1. v \in (lo + 1)..hi
        BY <3>2
      <4>2. PICK i \in 1..Len(s) : s[i].op = "put" /\ s[i].arg = v
        BY <4>1 DEF InSequence
      <4> QED
        BY <4>2, <1>1
    <3> QED
      BY <3>1, <3>2
  <2>3. \A i, j \in 1..Len(t) : i < j /\ t[i].op = "put" /\ t[j].op = "put" => t[i].arg < t[j].arg
    BY <1>1, <1>2, <1>4 DEF InSequence
  <2> QED
    BY <2>1, <2>2, <2>3 DEF InSequence
<1> QED
  BY <1>3, <1>4 DEF t

(* The first write taken is the oldest, and the rest stay in sequence.      *)
LEMMA InSequenceTail ==
    ASSUME NEW R, NEW s \in Seq(R), s # <<>>, NEW lo \in Nat, NEW hi \in Nat, lo <= hi,
           InSequence(s, lo, hi)
    PROVE  /\ Head(s).op # "put" => InSequence(Tail(s), lo, hi)
           /\ Head(s).op = "put" =>
                /\ lo < hi /\ Head(s).arg = lo + 1
                /\ InSequence(Tail(s), lo + 1, hi)
<1> DEFINE t == Tail(s)
<1>1. /\ Len(s) \in Nat /\ Len(s) > 0 /\ Len(t) = Len(s) - 1 /\ Head(s) = s[1]
      /\ \A i \in 1..Len(t) : t[i] = s[i + 1] /\ i + 1 \in 1..Len(s)
      /\ \A i \in 1..Len(s) : i = 1 \/ (i - 1 \in 1..Len(t) /\ t[i - 1] = s[i])
  OBVIOUS
<1> HIDE DEF t
<1>2. ASSUME Head(s).op # "put" PROVE InSequence(t, lo, hi)
  <2>1. \A i \in 1..Len(t) : t[i].op = "put" => t[i].arg \in (lo + 1)..hi
    BY <1>1 DEF InSequence
  <2>2. \A v \in (lo + 1)..hi : \E i \in 1..Len(t) : t[i].op = "put" /\ t[i].arg = v
    BY <1>1, <1>2 DEF InSequence
  <2>3. \A i, j \in 1..Len(t) : i < j /\ t[i].op = "put" /\ t[j].op = "put" => t[i].arg < t[j].arg
    BY <1>1 DEF InSequence
  <2> QED
    BY <2>1, <2>2, <2>3 DEF InSequence
<1>3. ASSUME Head(s).op = "put"
      PROVE  lo < hi /\ Head(s).arg = lo + 1 /\ InSequence(t, lo + 1, hi)
  <2>1. Head(s).arg \in (lo + 1)..hi
    BY <1>1, <1>3 DEF InSequence
  <2>0. lo + 1 \in (lo + 1)..hi
    BY <2>1
  <2>2. PICK k \in 1..Len(s) : s[k].op = "put" /\ s[k].arg = lo + 1
    BY <2>0, Zenon DEF InSequence
  <2>3. k = 1
    BY <1>1, <1>3, <2>1, <2>2 DEF InSequence
  <2>4. Head(s).arg = lo + 1
    BY <1>1, <2>2, <2>3
  <2>5. \A i \in 1..Len(t) : t[i].op = "put" => t[i].arg \in (lo + 1 + 1)..hi
    BY <1>1, <1>3, <2>4, SMTT(20) DEF InSequence
  <2>6. \A v \in (lo + 1 + 1)..hi : \E i \in 1..Len(t) : t[i].op = "put" /\ t[i].arg = v
    <3> SUFFICES ASSUME NEW v \in (lo + 1 + 1)..hi
                 PROVE  \E i \in 1..Len(t) : t[i].op = "put" /\ t[i].arg = v
      OBVIOUS
    <3>1. PICK i \in 1..Len(s) : s[i].op = "put" /\ s[i].arg = v
      BY DEF InSequence
    <3>2. i # 1
      BY <3>1, <1>1, <2>4
    <3> QED
      BY <3>1, <3>2, <1>1
  <2>7. \A i, j \in 1..Len(t) : i < j /\ t[i].op = "put" /\ t[j].op = "put" => t[i].arg < t[j].arg
    BY <1>1, SMTT(20) DEF InSequence
  <2> QED
    BY <2>1, <2>4, <2>5, <2>6, <2>7 DEF InSequence
<1> QED
  BY <1>2, <1>3 DEF t

(* Writes in sequence can be counted by their range.                        *)
LEMMA CountedWrites ==
    ASSUME NEW R, NEW s \in Seq(R), NEW a \in Nat, NEW b \in Nat, a <= b, InSequence(s, a, b)
    PROVE  Cardinality({i \in 1..Len(s) : s[i].op = "put"}) = b - a
<1> DEFINE S == {i \in 1..Len(s) : s[i].op = "put"}
           T == (a + 1)..b
           f == [i \in S |-> s[i].arg]
<1>1. IsFiniteSet(S)
  BY CountType
<1>2. f \in [S -> T]
  BY DEF InSequence
<1>3. \A i, j \in S : f[i] = f[j] => i = j
  <2> SUFFICES ASSUME NEW i \in S, NEW j \in S, i # j PROVE s[i].arg # s[j].arg
    OBVIOUS
  <2>1. s[i].arg \in Int /\ s[j].arg \in Int
    BY DEF InSequence
  <2>2. i < j \/ j < i
    OBVIOUS
  <2> QED
    BY <2>1, <2>2 DEF InSequence
<1>4. \A v \in T : \E i \in S : f[i] = v
  BY DEF InSequence
<1>5. ExistsBijection(S, T)
  <2> HIDE DEF S, T, f
  <2> QED
    BY <1>2, <1>3, <1>4 DEF ExistsBijection, Bijection, Injection, Surjection, IsInjective
<1>6. Cardinality(T) = Cardinality(S)
  <2> HIDE DEF S, T
  <2> QED
    BY <1>1, <1>5, FS_Bijection
<1>7. Cardinality(T) = IF a + 1 > b THEN 0 ELSE b - (a + 1) + 1
  <2>1. a + 1 \in Int /\ b \in Int
    OBVIOUS
  <2> QED
    BY <2>1, FS_Interval, Zenon
<1> QED
  BY <1>6, <1>7

(* Messages numbered below the counters stay so when the counters grow.     *)
LEMMA NumberedMore ==
    ASSUME NEW s, NEW p \in Nat, NEW g \in Nat, NEW q \in Nat, NEW h \in Nat, p <= q, g <= h,
           Numbered(s, p, g)
    PROVE  Numbered(s, q, h)
  BY DEF Numbered

(* A message numbered below the counters may be sent.                       *)
LEMMA NumberedAppend ==
    ASSUME NEW R, NEW s \in Seq(R), NEW m \in R, NEW p, NEW g, Numbered(s, p, g),
           m.op = "put" => m.arg \in 1..p, m.op = "get" => m.arg \in 1..g
    PROVE  Numbered(Append(s, m), p, g)
<1> DEFINE t == Append(s, m)
<1>1. /\ Len(t) = Len(s) + 1 /\ t[Len(s) + 1] = m
      /\ \A i \in 1..Len(s) : t[i] = s[i]
      /\ \A i \in 1..Len(t) : i \in 1..Len(s) \/ i = Len(s) + 1
  BY AppendAre
<1> HIDE DEF t
<1>2. Numbered(t, p, g)
  BY <1>1 DEF Numbered
<1> QED
  BY <1>2 DEF t

(* The message taken is numbered below the counters, and so are the others. *)
LEMMA NumberedTail ==
    ASSUME NEW R, NEW s \in Seq(R), s # <<>>, NEW p, NEW g, Numbered(s, p, g)
    PROVE  /\ Numbered(Tail(s), p, g)
           /\ Head(s).op = "put" => Head(s).arg \in 1..p
           /\ Head(s).op = "get" => Head(s).arg \in 1..g
<1> DEFINE t == Tail(s)
<1>1. /\ Len(s) \in Nat /\ Len(s) > 0 /\ Head(s) = s[1]
      /\ \A i \in 1..Len(t) : i + 1 \in 1..Len(s) /\ t[i] = s[i + 1]
  BY TailAre
<1> HIDE DEF t
<1>2. Numbered(t, p, g)
  BY <1>1 DEF Numbered
<1>3. 1 \in 1..Len(s)
  BY <1>1
<1> QED
  BY <1>1, <1>2, <1>3 DEF t, Numbered

(* A message that does not concern a query leaves what the server will hear *)
(* of it.                                                                   *)
LEMMA HeardAppendOther ==
    ASSUME NEW R, NEW s \in Seq(R), NEW m \in R, NEW q, NEW was, NEW on,
           ~Concerns(m, q), Heard(s, q, was, on)
    PROVE  Heard(Append(s, m), q, was, on)
<1> DEFINE t == Append(s, m)
<1>1. /\ Len(s) \in Nat /\ Len(t) = Len(s) + 1 /\ t[Len(s) + 1] = m
      /\ \A i \in 1..Len(s) : t[i] = s[i]
      /\ \A i \in 1..Len(t) : i \in 1..Len(s) \/ i = Len(s) + 1
  BY AppendAre
<1> HIDE DEF t
<1>2. CASE Silent(s, q)
  BY <1>1, <1>2 DEF Silent, Heard, Settled, t
<1>3. CASE Settled(s, q, on)
  <2>1. PICK p \in 1..Len(s) : /\ Concerns(s[p], q) /\ (s[p].op = "listen" <=> on)
                               /\ \A k \in (p + 1)..Len(s) : ~Concerns(s[k], q)
    BY <1>3 DEF Settled
  <2>2. p \in 1..Len(t) /\ t[p] = s[p]
    BY <1>1
  <2>3. \A k \in (p + 1)..Len(t) : ~Concerns(t[k], q)
    <3> SUFFICES ASSUME NEW k \in (p + 1)..Len(t) PROVE ~Concerns(t[k], q)
      OBVIOUS
    <3>1. k \in (p + 1)..Len(s) \/ k = Len(s) + 1
      BY <1>1
    <3>2. k \in (p + 1)..Len(s) => t[k] = s[k]
      BY <1>1
    <3> QED
      BY <3>1, <3>2, <2>1, <1>1
  <2> QED
    BY <2>1, <2>2, <2>3 DEF Heard, Settled, t
<1> QED
  BY <1>2, <1>3 DEF Heard

(* A new listen or unlisten request has the last word on its query.         *)
LEMMA HeardAppend ==
    ASSUME NEW R, NEW s \in Seq(R), NEW m \in R, NEW q, NEW was, NEW on,
           Concerns(m, q), m.op = "listen" <=> on
    PROVE  Heard(Append(s, m), q, was, on)
<1> DEFINE t == Append(s, m)
<1>1. /\ Len(s) \in Nat /\ Len(t) = Len(s) + 1 /\ t[Len(s) + 1] = m
  BY AppendAre
<1> HIDE DEF t
<1>2. Len(s) + 1 \in 1..Len(t) /\ \A k \in ((Len(s) + 1) + 1)..Len(t) : FALSE
  BY <1>1
<1>3. Settled(t, q, on)
  BY <1>1, <1>2 DEF Settled
<1> QED
  BY <1>3 DEF Heard, t

(* Taking a request moves what it says of a query from the connection to the *)
(* server.                                                                  *)
LEMMA HeardTail ==
    ASSUME NEW R, NEW s \in Seq(R), s # <<>>, NEW q, NEW was, NEW on, Heard(s, q, was, on)
    PROVE  /\ ~Concerns(Head(s), q) => Heard(Tail(s), q, was, on)
           /\ Concerns(Head(s), q) => Heard(Tail(s), q, Head(s).op = "listen", on)
<1> DEFINE t == Tail(s)
<1>1. /\ Len(s) \in Nat /\ Len(s) > 0 /\ Len(t) = Len(s) - 1 /\ Head(s) = s[1]
      /\ \A i \in 1..Len(t) : t[i] = s[i + 1] /\ i + 1 \in 1..Len(s)
  BY TailAre
<1> HIDE DEF t
<1>2. CASE Silent(s, q)
  <2>1. ~Concerns(Head(s), q) /\ Silent(t, q)
    BY <1>1, <1>2 DEF Silent
  <2>2. ~Settled(s, q, on)
    BY <1>2 DEF Silent, Settled
  <2> QED
    BY <2>1, <2>2, Zenon DEF Heard, t
<1>3. CASE Settled(s, q, on)
  <2>1. PICK p \in 1..Len(s) : /\ Concerns(s[p], q) /\ (s[p].op = "listen" <=> on)
                               /\ \A k \in (p + 1)..Len(s) : ~Concerns(s[k], q)
    BY <1>3 DEF Settled
  <2>2. CASE p = 1
    <3>1. Silent(t, q)
      <4> SUFFICES ASSUME NEW i \in 1..Len(t) PROVE ~Concerns(t[i], q)
        BY DEF Silent
      <4>1. i + 1 \in (p + 1)..Len(s) /\ t[i] = s[i + 1]
        BY <1>1, <2>2
      <4> QED
        BY <4>1, <2>1
    <3>2. Concerns(Head(s), q) /\ (Head(s).op = "listen" <=> on)
      BY <1>1, <2>1, <2>2
    <3> QED
      BY <3>1, <3>2, Zenon DEF Heard, t
  <2>3. CASE p # 1
    <3>1. p - 1 \in 1..Len(t) /\ t[p - 1] = s[p]
      BY <1>1, <2>1, <2>3
    <3>2. ASSUME NEW k \in ((p - 1) + 1)..Len(t) PROVE ~Concerns(t[k], q)
      <4>1. k + 1 \in (p + 1)..Len(s) /\ t[k] = s[k + 1]
        BY <1>1, <2>1, <2>3
      <4> QED
        BY <4>1, <2>1
    <3>3. Settled(t, q, on)
      BY <2>1, <3>1, <3>2 DEF Settled
    <3> QED
      BY <3>3, Zenon DEF Heard, t
  <2> QED
    BY <2>2, <2>3
<1> QED
  BY <1>2, <1>3, Zenon DEF Heard

(* A write may be sent behind a get made before it.                         *)
LEMMA WritesAfterGetAppend ==
    ASSUME NEW R, NEW s \in Seq(R), NEW m \in R, NEW past, WritesAfterGet(s, past),
           m.op = "put" => \A i \in 1..Len(s) : s[i].op = "get" => m.arg > past[s[i].arg]
    PROVE  WritesAfterGet(Append(s, m), past)
<1> DEFINE t == Append(s, m)
<1>1. /\ Len(s) \in Nat /\ Len(t) = Len(s) + 1 /\ t[Len(s) + 1] = m
      /\ \A i \in 1..Len(s) : t[i] = s[i]
      /\ \A i \in 1..Len(t) : i \in 1..Len(s) \/ i = Len(s) + 1
  BY AppendAre
<1> HIDE DEF t
<1>2. WritesAfterGet(t, past)
  BY <1>1 DEF WritesAfterGet
<1> QED
  BY <1>2 DEF t

(* The writes behind a get that is taken were made after it.                *)
LEMMA WritesAfterGetTail ==
    ASSUME NEW R, NEW s \in Seq(R), s # <<>>, NEW past, WritesAfterGet(s, past)
    PROVE  /\ WritesAfterGet(Tail(s), past)
           /\ Head(s).op = "get" =>
                \A j \in 1..Len(Tail(s)) : Tail(s)[j].op = "put" => Tail(s)[j].arg > past[Head(s).arg]
<1> DEFINE t == Tail(s)
<1>1. /\ Len(s) \in Nat /\ Len(s) > 0 /\ Head(s) = s[1]
      /\ \A i \in 1..Len(t) : i + 1 \in 1..Len(s) /\ t[i] = s[i + 1]
  BY TailAre
<1> HIDE DEF t
<1>2. WritesAfterGet(t, past)
  BY <1>1 DEF WritesAfterGet
<1>3. ASSUME Head(s).op = "get", NEW j \in 1..Len(t), t[j].op = "put"
      PROVE  t[j].arg > past[Head(s).arg]
  <2>1. 1 \in 1..Len(s) /\ 1 < j + 1
    BY <1>1
  <2> QED
    BY <1>1, <1>3, <2>1 DEF WritesAfterGet
<1> QED
  BY <1>2, <1>3 DEF t

-----------------------------------------------------------------------------
(* What restoreState sends.                                                *)

(* The messages made of a sequence of arguments.                            *)
LEMMA MsgsAre ==
    ASSUME NEW A, NEW s \in Seq(A), NEW op, \A x \in A : Msg(op, x) \in Request
    PROVE  /\ Msgs(op, s) \in Seq(Request) /\ Len(Msgs(op, s)) = Len(s)
           /\ \A i \in 1..Len(s) : Msgs(op, s)[i] = Msg(op, s[i])
<1>1. \A i \in 1..Len(s) : Msg(op, s[i]) \in Request
  OBVIOUS
<1> QED
  BY <1>1 DEF Msgs

(* Restored is the listens, then the writes, then the gets.                 *)
LEMMA RestoredAre ==
    ASSUME NEW queries \in Seq(Queries), NEW puts \in Seq(Nat), NEW gets \in Seq(Nat)
    PROVE  LET t == Restored(queries, puts, gets)
               p == Len(queries)
               g == Len(queries) + Len(puts)
           IN /\ t \in Seq(Request) /\ p \in Nat /\ g \in Nat /\ p <= g
              /\ Len(t) = g + Len(gets)
              /\ \A i \in 1..p : t[i] = Msg("listen", queries[i])
              /\ \A i \in (p + 1)..g : t[i] = Msg("put", puts[i - p])
              /\ \A i \in (g + 1)..Len(t) : t[i] = Msg("get", gets[i - g])
<1> DEFINE x == Msgs("listen", queries)
           y == Msgs("put", puts)
           z == Msgs("get", gets)
           p == Len(queries)
           g == Len(queries) + Len(puts)
<1>0. /\ \A arg \in Queries : Msg("listen", arg) \in Request
      /\ \A arg \in Nat : Msg("put", arg) \in Request /\ Msg("get", arg) \in Request
  BY DEF Msg, Request
<1>1. /\ x \in Seq(Request) /\ Len(x) = p /\ p \in Nat
      /\ \A i \in 1..p : x[i] = Msg("listen", queries[i])
  BY <1>0, MsgsAre, LenProperties, Zenon
<1>2. /\ y \in Seq(Request) /\ Len(y) = Len(puts) /\ Len(puts) \in Nat
      /\ \A i \in 1..Len(puts) : y[i] = Msg("put", puts[i])
  BY <1>0, MsgsAre, LenProperties, ZenonT(40)
<1>3. /\ z \in Seq(Request) /\ Len(z) = Len(gets) /\ Len(gets) \in Nat
      /\ \A i \in 1..Len(gets) : z[i] = Msg("get", gets[i])
  BY <1>0, MsgsAre, LenProperties, ZenonT(40)
<1> HIDE DEF x, y, z
<1> DEFINE w == x \o y
           t == w \o z
<1>4. /\ w \in Seq(Request) /\ Len(w) = g
      /\ \A i \in 1..p : w[i] = x[i]
      /\ \A i \in (p + 1)..g : w[i] = y[i - p]
  <2>1. /\ w \in Seq(Request) /\ Len(w) = Len(x) + Len(y)
        /\ \A i \in 1..Len(x) : w[i] = x[i]
        /\ \A i \in (Len(x) + 1)..Len(w) : w[i] = y[i - Len(x)]
    <3> HIDE DEF w
    <3>1. w = x \o y
      BY DEF w
    <3>2. x \in Seq(Request) /\ y \in Seq(Request)
      BY <1>1, <1>2
    <3> QED
      BY <3>1, <3>2, ConcatAre
  <2> HIDE DEF w
  <2> QED
    BY <2>1, <1>1, <1>2
<1> HIDE DEF w
<1>5. /\ t \in Seq(Request) /\ Len(t) = g + Len(gets)
      /\ \A i \in 1..g : t[i] = w[i]
      /\ \A i \in (g + 1)..Len(t) : t[i] = z[i - g]
  <2>1. /\ t \in Seq(Request) /\ Len(t) = Len(w) + Len(z)
        /\ \A i \in 1..Len(w) : t[i] = w[i]
        /\ \A i \in (Len(w) + 1)..Len(t) : t[i] = z[i - Len(w)]
    <3> HIDE DEF t
    <3>1. t = w \o z
      BY DEF t
    <3>2. w \in Seq(Request) /\ z \in Seq(Request)
      BY <1>3, <1>4
    <3> QED
      BY <3>1, <3>2, ConcatAre
  <2> HIDE DEF t
  <2> QED
    BY <2>1, <1>3, <1>4
<1>6. t = Restored(queries, puts, gets)
  BY DEF Restored, x, y, z, w
<1> HIDE DEF t
<1>7. \A i \in 1..p : t[i] = Msg("listen", queries[i])
  BY <1>1, <1>2, <1>4, <1>5
<1>8. \A i \in (p + 1)..g : t[i] = Msg("put", puts[i - p])
  <2> SUFFICES ASSUME NEW i \in (p + 1)..g PROVE t[i] = Msg("put", puts[i - p])
    OBVIOUS
  <2>1. i \in 1..g /\ i - p \in 1..Len(puts)
    BY <1>1, <1>2
  <2> QED
    BY <2>1, <1>2, <1>4, <1>5
<1>9. \A i \in (g + 1)..Len(t) : t[i] = Msg("get", gets[i - g])
  <2> SUFFICES ASSUME NEW i \in (g + 1)..Len(t) PROVE t[i] = Msg("get", gets[i - g])
    OBVIOUS
  <2>1. i - g \in 1..Len(gets)
    BY <1>1, <1>2, <1>3, <1>5
  <2> QED
    BY <2>1, <1>3, <1>5
<1> QED
  BY <1>1, <1>2, <1>5, <1>6, <1>7, <1>8, <1>9

(* The writes of Restored are all the outstanding ones, in sequence.        *)
LEMMA RestoredWrites ==
    ASSUME NEW queries \in Seq(Queries), NEW a \in Nat, NEW c \in Nat, a <= c,
           NEW gets \in Seq(Nat)
    PROVE  InSequence(Restored(queries, [i \in 1..(c - a) |-> a + i], gets), a, c)
<1> DEFINE puts == [i \in 1..(c - a) |-> a + i]
           t == Restored(queries, puts, gets)
           p == Len(queries)
           g == p + Len(puts)
<1>1. puts \in Seq(Nat) /\ Len(puts) = c - a /\ \A i \in 1..(c - a) : puts[i] = a + i
  OBVIOUS
<1> HIDE DEF puts
<1>2. /\ t \in Seq(Request) /\ p \in Nat /\ g \in Nat /\ p <= g
      /\ Len(t) = g + Len(gets) /\ Len(gets) \in Nat
      /\ \A i \in 1..p : t[i] = Msg("listen", queries[i])
      /\ \A i \in (p + 1)..g : t[i] = Msg("put", puts[i - p])
      /\ \A i \in (g + 1)..Len(t) : t[i] = Msg("get", gets[i - g])
  BY <1>1, RestoredAre, LenProperties, Zenon
<1> HIDE DEF t
<1>3. \A i \in (p + 1)..g : t[i].op = "put" /\ t[i].arg = a + (i - p)
  <2> SUFFICES ASSUME NEW i \in (p + 1)..g PROVE t[i].op = "put" /\ t[i].arg = a + (i - p)
    OBVIOUS
  <2>1. i - p \in 1..(c - a)
    BY <1>1, <1>2
  <2>2. t[i] = Msg("put", puts[i - p]) /\ puts[i - p] = a + (i - p)
    BY <2>1, <1>1, <1>2
  <2> QED
    BY <2>2 DEF Msg
<1>4. \A i \in 1..Len(t) : t[i].op = "put" => i \in (p + 1)..g
  <2> SUFFICES ASSUME NEW i \in 1..Len(t), i \notin (p + 1)..g PROVE t[i].op # "put"
    OBVIOUS
  <2>1. i \in 1..p \/ i \in (g + 1)..Len(t)
    BY <1>2
  <2>2. t[i] = Msg("listen", queries[i]) \/ t[i] = Msg("get", gets[i - g])
    BY <2>1, <1>2
  <2> QED
    BY <2>2 DEF Msg
<1>5. \A i \in 1..Len(t) : t[i].op = "put" => t[i].arg \in (a + 1)..c
  <2> SUFFICES ASSUME NEW i \in (p + 1)..g PROVE a + (i - p) \in (a + 1)..c
    BY <1>3, <1>4
  <2> QED
    BY <1>1, <1>2
<1>6. \A v \in (a + 1)..c : \E i \in 1..Len(t) : t[i].op = "put" /\ t[i].arg = v
  <2> SUFFICES ASSUME NEW v \in (a + 1)..c
               PROVE  \E i \in 1..Len(t) : t[i].op = "put" /\ t[i].arg = v
    OBVIOUS
  <2>1. p + (v - a) \in (p + 1)..g /\ p + (v - a) \in 1..Len(t) /\ a + ((p + (v - a)) - p) = v
    BY <1>1, <1>2
  <2> QED
    BY <2>1, <1>3
<1>7. \A i, j \in 1..Len(t) : i < j /\ t[i].op = "put" /\ t[j].op = "put" => t[i].arg < t[j].arg
  BY <1>2, <1>3, <1>4
<1> QED
  BY <1>5, <1>6, <1>7 DEF InSequence, t, puts

(* Restored holds one listen for each query.                                *)
LEMMA RestoredCount ==
    ASSUME NEW queries \in Seq(Queries), NEW puts \in Seq(Nat), NEW gets \in Seq(Nat)
    PROVE  Count(Restored(queries, puts, gets), "listen") = Len(queries)
<1> DEFINE t == Restored(queries, puts, gets)
           p == Len(queries)
           g == p + Len(puts)
<1>1. /\ p \in Nat /\ g \in Nat /\ p <= g
      /\ Len(t) = g + Len(gets) /\ Len(gets) \in Nat
      /\ \A i \in 1..p : t[i] = Msg("listen", queries[i])
      /\ \A i \in (p + 1)..g : t[i] = Msg("put", puts[i - p])
      /\ \A i \in (g + 1)..Len(t) : t[i] = Msg("get", gets[i - g])
  BY RestoredAre
<1> HIDE DEF t
<1>2. \A i \in 1..Len(t) : t[i].op = "listen" <=> i \in 1..p
  <2> SUFFICES ASSUME NEW i \in 1..Len(t) PROVE t[i].op = "listen" <=> i \in 1..p
    OBVIOUS
  <2>1. i \in 1..p \/ i \in (p + 1)..g \/ i \in (g + 1)..Len(t)
    BY <1>1
  <2>2. CASE i \in 1..p
    <3>1. t[i] = Msg("listen", queries[i])
      BY <2>2, <1>1
    <3> QED
      BY <3>1, <2>2 DEF Msg
  <2>3. CASE i \in (p + 1)..g
    <3>1. t[i] = Msg("put", puts[i - p]) /\ i \notin 1..p
      BY <2>3, <1>1
    <3> QED
      BY <3>1 DEF Msg
  <2>4. CASE i \in (g + 1)..Len(t)
    <3>1. t[i] = Msg("get", gets[i - g]) /\ i \notin 1..p
      BY <2>4, <1>1
    <3> QED
      BY <3>1 DEF Msg
  <2> QED
    BY <2>1, <2>2, <2>3, <2>4
<1>3. {i \in 1..Len(t) : t[i].op = "listen"} = 1..p
  BY <1>1, <1>2
<1>4. Cardinality(1..p) = p
  <2>1. 1 \in Int /\ p \in Int
    BY <1>1
  <2>2. Cardinality(1..p) = IF 1 > p THEN 0 ELSE p - 1 + 1
    BY <2>1, FS_Interval, Zenon
  <2> QED
    BY <2>2, <1>1
<1> QED
  BY <1>3, <1>4 DEF Count, t

(* Restored holds writes and gets below the counters only.                  *)
LEMMA RestoredNumbered ==
    ASSUME NEW queries \in Seq(Queries), NEW puts \in Seq(Nat), NEW gets \in Seq(Nat),
           NEW c \in Nat, NEW d \in Nat,
           \A i \in 1..Len(puts) : puts[i] \in 1..c,
           \A i \in 1..Len(gets) : gets[i] \in 1..d
    PROVE  Numbered(Restored(queries, puts, gets), c, d)
<1> DEFINE t == Restored(queries, puts, gets)
           p == Len(queries)
           g == p + Len(puts)
<1>1. /\ p \in Nat /\ g \in Nat /\ p <= g /\ Len(puts) \in Nat /\ Len(gets) \in Nat
      /\ Len(t) = g + Len(gets)
      /\ \A i \in 1..p : t[i] = Msg("listen", queries[i])
      /\ \A i \in (p + 1)..g : t[i] = Msg("put", puts[i - p])
      /\ \A i \in (g + 1)..Len(t) : t[i] = Msg("get", gets[i - g])
  BY RestoredAre, LenProperties, Zenon
<1> HIDE DEF t
<1>2. ASSUME NEW i \in 1..Len(t)
      PROVE  /\ t[i].op = "put" => t[i].arg \in 1..c
             /\ t[i].op = "get" => t[i].arg \in 1..d
  <2>1. i \in 1..p \/ i \in (p + 1)..g \/ i \in (g + 1)..Len(t)
    BY <1>1
  <2>2. CASE i \in 1..p
    <3>1. t[i] = Msg("listen", queries[i])
      BY <2>2, <1>1
    <3> QED
      BY <3>1 DEF Msg
  <2>3. CASE i \in (p + 1)..g
    <3>1. i - p \in 1..Len(puts)
      BY <2>3, <1>1
    <3>2. t[i] = Msg("put", puts[i - p]) /\ puts[i - p] \in 1..c
      BY <2>3, <3>1, <1>1
    <3> QED
      BY <3>2 DEF Msg
  <2>4. CASE i \in (g + 1)..Len(t)
    <3>1. i - g \in 1..Len(gets)
      BY <2>4, <1>1
    <3>2. t[i] = Msg("get", gets[i - g]) /\ gets[i - g] \in 1..d
      BY <2>4, <3>1, <1>1
    <3> QED
      BY <3>2 DEF Msg
  <2> QED
    BY <2>1, <2>2, <2>3, <2>4
<1> QED
  BY <1>2, Zenon DEF Numbered, t

(* In Restored no write is behind a get.                                    *)
LEMMA WritesAfterGetRestored ==
    ASSUME NEW queries \in Seq(Queries), NEW puts \in Seq(Nat), NEW gets \in Seq(Nat), NEW past
    PROVE  WritesAfterGet(Restored(queries, puts, gets), past)
<1> DEFINE t == Restored(queries, puts, gets)
           p == Len(queries)
           g == p + Len(puts)
<1>1. /\ p \in Nat /\ g \in Nat /\ p <= g /\ Len(gets) \in Nat
      /\ Len(t) = g + Len(gets)
      /\ \A i \in 1..p : t[i] = Msg("listen", queries[i])
      /\ \A i \in (p + 1)..g : t[i] = Msg("put", puts[i - p])
      /\ \A i \in (g + 1)..Len(t) : t[i] = Msg("get", gets[i - g])
  BY RestoredAre, LenProperties, Zenon
<1> HIDE DEF t
<1> SUFFICES ASSUME NEW i \in 1..Len(t), NEW j \in 1..Len(t), i < j, t[i].op = "get", t[j].op = "put"
             PROVE  FALSE
  BY DEF WritesAfterGet, t
<1>2. i \in (g + 1)..Len(t)
  <2> SUFFICES ASSUME i \in 1..p \/ i \in (p + 1)..g PROVE FALSE
    BY <1>1
  <2>1. t[i] = Msg("listen", queries[i]) \/ t[i] = Msg("put", puts[i - p])
    BY <1>1
  <2> QED
    BY <2>1 DEF Msg
<1>3. t[j] = Msg("get", gets[j - g])
  <2>1. j \in (g + 1)..Len(t)
    BY <1>1, <1>2
  <2> QED
    BY <1>1, <2>1
<1> QED
  BY <1>3 DEF Msg

(* sendAction: appends the message if there is a connection.                *)
LEMMA SentMessage ==
    ASSUME Typed, NEW m \in Request, Send(<<m>>)
    PROVE  requests' = IF Connected THEN Append(requests, m) ELSE requests
<1>1. Append(requests, m) = requests \o <<m>>
  BY AppendIsConcat, Zenon DEF Typed, MessagesTyped
<1> QED
  BY <1>1, Zenon DEF Send

(* A sequence of the dictionary of listens holds each of them once.         *)
LEMMA ListensInOrder ==
    ASSUME Typed, NEW queries \in SetToSeqs(listens)
    PROVE  /\ queries \in Seq(Queries) /\ Len(queries) = Cardinality(listens)
           /\ Cardinality(listens) \in Nat
           /\ \A i \in 1..Len(queries) : queries[i] \in listens
           /\ \A q \in listens : \E i \in 1..Len(queries) : queries[i] = q
           /\ \A i, j \in 1..Len(queries) : i # j => queries[i] # queries[j]
<1> DEFINE n == Cardinality(listens)
<1>1. IsFiniteSet(listens) /\ n \in Nat
  <2>1. IsFiniteSet(Queries) /\ listens \in SUBSET Queries
    BY ConnectionAssumption DEF Typed, ListensTyped
  <2> QED
    BY <2>1, FS_Subset, FS_CardinalityType, Zenon
<1>2. queries \in [1..n -> listens] /\ \A i, j \in 1..n : i # j => queries[i] # queries[j]
  BY DEF SetToSeqs
<1>3. IsFiniteSet(1..n) /\ Cardinality(1..n) = n
  <2>1. 1 \in Int /\ n \in Int
    BY <1>1
  <2>2. IsFiniteSet(1..n) /\ Cardinality(1..n) = IF 1 > n THEN 0 ELSE n - 1 + 1
    BY <2>1, FS_Interval, Zenon
  <2> QED
    BY <2>2, <1>1
<1>4. queries \in Surjection(1..n, listens)
  <2>1. queries \in Injection(1..n, listens)
    BY <1>2, Zenon DEF Injection, IsInjective
  <2> QED
    BY <2>1, <1>1, <1>3, FS_Injection
<1>5. \A q \in listens : \E i \in 1..n : queries[i] = q
  BY <1>4 DEF Surjection
<1> HIDE DEF n
<1>6. queries \in Seq(listens) /\ Len(queries) = n
  BY <1>1, <1>2
<1>7. queries \in Seq(Queries)
  BY <1>6 DEF Typed, ListensTyped
<1> QED
  BY <1>1, <1>2, <1>5, <1>6, <1>7 DEF n

(* The sorted outstanding writes are writes.                                *)
LEMMA PutsInOrder ==
    ASSUME Typed
    PROVE  /\ InOrder(outstandingPuts) \in Seq(Nat)
           /\ \A i \in 1..Len(InOrder(outstandingPuts)) : InOrder(outstandingPuts)[i] \in 1..putCounter
<1>1. outstandingPuts \in SUBSET (1..putCounter) /\ putCounter \in Nat
  BY DEF Typed, WritesTyped
<1> QED
  BY <1>1, SortedSet, Zenon

(* The sorted gets that were never sent are gets.                           *)
LEMMA GetsInOrder ==
    ASSUME Typed
    PROVE  /\ InOrder(outstandingGets \ sentGets) \in Seq(Nat)
           /\ \A i \in 1..Len(InOrder(outstandingGets \ sentGets)) :
                 InOrder(outstandingGets \ sentGets)[i] \in 1..getCounter
<1> DEFINE S == outstandingGets \ sentGets
<1>1. S \in SUBSET (1..getCounter) /\ getCounter \in Nat
  BY DEF Typed, GetsTyped
<1> QED
  BY <1>1, SortedSet, Zenon

(* Restored says of every query whether it is listened to.                  *)
LEMMA RestoredHeard ==
    ASSUME Typed, NEW queries \in SetToSeqs(listens), NEW puts \in Seq(Nat), NEW gets \in Seq(Nat),
           NEW q \in Queries
    PROVE  Heard(Restored(queries, puts, gets), q, FALSE, q \in listens)
<1> DEFINE t == Restored(queries, puts, gets)
           p == Len(queries)
           g == p + Len(puts)
<1>1. /\ queries \in Seq(Queries)
      /\ \A i \in 1..p : queries[i] \in listens
      /\ \A r \in listens : \E i \in 1..p : queries[i] = r
      /\ \A i, j \in 1..p : i # j => queries[i] # queries[j]
  BY ListensInOrder
<1>2. /\ p \in Nat /\ g \in Nat /\ p <= g /\ Len(gets) \in Nat
      /\ Len(t) = g + Len(gets)
      /\ \A i \in 1..p : t[i] = Msg("listen", queries[i])
      /\ \A i \in (p + 1)..g : t[i] = Msg("put", puts[i - p])
      /\ \A i \in (g + 1)..Len(t) : t[i] = Msg("get", gets[i - g])
  BY <1>1, RestoredAre, LenProperties, ZenonT(40)
<1> HIDE DEF t
<1>3. \A i \in 1..Len(t) : Concerns(t[i], q) <=> i \in 1..p /\ queries[i] = q
  <2> SUFFICES ASSUME NEW i \in 1..Len(t) PROVE Concerns(t[i], q) <=> i \in 1..p /\ queries[i] = q
    OBVIOUS
  <2>1. i \in 1..p \/ i \in (p + 1)..g \/ i \in (g + 1)..Len(t)
    BY <1>2
  <2>2. CASE i \in 1..p
    <3>1. t[i] = Msg("listen", queries[i])
      BY <2>2, <1>2
    <3> QED
      BY <3>1, <2>2 DEF Msg, Concerns
  <2>3. CASE i \in (p + 1)..g \/ i \in (g + 1)..Len(t)
    <3>1. (t[i] = Msg("put", puts[i - p]) \/ t[i] = Msg("get", gets[i - g])) /\ i \notin 1..p
      BY <2>3, <1>2
    <3> QED
      BY <3>1 DEF Msg, Concerns
  <2> QED
    BY <2>1, <2>2, <2>3
<1>4. CASE q \in listens
  <2>1. PICK i \in 1..p : queries[i] = q
    BY <1>1, <1>4
  <2>2. i \in 1..Len(t) /\ t[i] = Msg("listen", q) /\ Concerns(t[i], q)
    BY <1>2, <1>3, <2>1
  <2>3. \A k \in (i + 1)..Len(t) : ~Concerns(t[k], q)
    <3> SUFFICES ASSUME NEW k \in (i + 1)..Len(t), Concerns(t[k], q) PROVE FALSE
      OBVIOUS
    <3>1. k \in 1..p /\ queries[k] = q
      BY <1>2, <1>3
    <3> QED
      BY <3>1, <2>1, <1>1
  <2>4. t[i].op = "listen"
    BY <2>2 DEF Msg
  <2>5. Settled(t, q, q \in listens)
    BY <1>4, <2>2, <2>3, <2>4 DEF Settled
  <2> QED
    BY <2>5 DEF Heard, t
<1>5. CASE q \notin listens
  <2>1. Silent(t, q)
    BY <1>1, <1>3, <1>5, SMTT(20) DEF Silent
  <2> QED
    BY <1>5, <2>1 DEF Heard, t
<1> QED
  BY <1>4, <1>5

-----------------------------------------------------------------------------
(* The cases of ServerTakes and OnDataMessage.                             *)

TakesListen ==
    /\ requests # <<>> /\ Head(requests).op = "listen"
    /\ requests' = Tail(requests) /\ responses' = responses
    /\ serverListens' = serverListens \cup {Head(requests).arg}
    /\ loading' = loading + 1 /\ log' = log

TakesUnlisten ==
    /\ requests # <<>> /\ Head(requests).op = "unlisten"
    /\ requests' = Tail(requests) /\ responses' = responses
    /\ serverListens' = serverListens \ {Head(requests).arg}
    /\ loading' = loading /\ log' = log

TakesPut ==
    /\ requests # <<>> /\ Head(requests).op = "put"
    /\ requests' = Tail(requests)
    /\ responses' = Append(responses, Response("put", Head(requests).arg, Head(requests).arg))
    /\ log' = Append(log, Head(requests).arg)
    /\ serverListens' = serverListens /\ loading' = loading

TakesGet ==
    /\ requests # <<>> /\ Head(requests).op = "get"
    /\ requests' = Tail(requests)
    /\ responses' = Append(responses, Response("get", Head(requests).arg, Value))
    /\ log' = log
    /\ serverListens' = serverListens /\ loading' = loading

(* The server takes one request of one of the four kinds.                   *)
LEMMA ServerTakesOne ==
    ASSUME ServerTakes
    PROVE  /\ TakesListen \/ TakesUnlisten \/ TakesPut \/ TakesGet
           /\ UNCHANGED <<connectionState, putVars, getVars, listenVars, disconnects>>
  BY DEF ServerTakes, TakesListen, TakesUnlisten, TakesPut, TakesGet

HandlesPut ==
    /\ responses # <<>> /\ Head(responses).op = "put"
    /\ PutResponse(Head(responses).arg)

HandlesGet ==
    /\ responses # <<>> /\ Head(responses).op = "get"
    /\ GetResponse(Head(responses).arg, Head(responses).value)

HandlesListen ==
    /\ responses # <<>> /\ Head(responses).op = "listen"
    /\ ListenResponse

(* onDataMessage: runs the callback of one of three kinds of request.       *)
LEMMA OnDataMessageHandles ==
    ASSUME OnDataMessage
    PROVE  /\ HandlesPut \/ HandlesGet \/ HandlesListen
           /\ responses' = Tail(responses)
           /\ UNCHANGED <<connectionState, requests, serverVars, disconnects>>
  BY DEF OnDataMessage, HandlesPut, HandlesGet, HandlesListen

(* The value in the database is that of a write, or 0.                      *)
LEMMA ValueIs ==
    ASSUME WritesTyped
    PROVE  /\ Value \in 0..putCounter
           /\ log # <<>> => Len(log) \in 1..Len(log) /\ Value = log[Len(log)]
           /\ log = <<>> => Value = 0
  BY DEF WritesTyped, Value, Last

(* The request the server takes is well formed.                             *)
LEMMA HeadRequest ==
    ASSUME Typed, requests # <<>>
    PROVE  /\ Head(requests) \in Request
           /\ Head(requests).op \in {"listen", "unlisten", "put", "get"}
           /\ Head(requests).op \in {"listen", "unlisten"} => Head(requests).arg \in Queries
           /\ Head(requests).op = "put" => Head(requests).arg \in 1..putCounter
           /\ Head(requests).op = "get" => Head(requests).arg \in 1..getCounter
           /\ Tail(requests) \in Seq(Request) /\ Numbered(Tail(requests), putCounter, getCounter)
<1>1. requests \in Seq(Request) /\ Numbered(requests, putCounter, getCounter)
  BY DEF Typed, MessagesTyped
<1>2. Head(requests) \in Request /\ Tail(requests) \in Seq(Request)
  BY <1>1, TailAre
<1>3. /\ Numbered(Tail(requests), putCounter, getCounter)
      /\ Head(requests).op = "put" => Head(requests).arg \in 1..putCounter
      /\ Head(requests).op = "get" => Head(requests).arg \in 1..getCounter
  BY <1>1, NumberedTail
<1>4. /\ Head(requests).op \in {"listen", "unlisten", "put", "get"}
      /\ Head(requests).op \in {"listen", "unlisten"} => Head(requests).arg \in Queries
  BY <1>2 DEF Request
<1> QED
  BY <1>2, <1>3, <1>4

(* The response that is handled is well formed.                             *)
LEMMA HeadResponse ==
    ASSUME Typed, responses # <<>>
    PROVE  /\ Head(responses) \in Answer
           /\ Head(responses).op \in {"listen", "put", "get"}
           /\ Head(responses).value \in Nat
           /\ Head(responses).op = "put" => Head(responses).arg \in 1..putCounter
           /\ Head(responses).op = "get" => Head(responses).arg \in 1..getCounter
           /\ Tail(responses) \in Seq(Answer) /\ Numbered(Tail(responses), putCounter, getCounter)
<1>1. responses \in Seq(Answer) /\ Numbered(responses, putCounter, getCounter)
  BY DEF Typed, MessagesTyped
<1>2. Head(responses) \in Answer /\ Tail(responses) \in Seq(Answer)
  BY <1>1, TailAre
<1>3. /\ Numbered(Tail(responses), putCounter, getCounter)
      /\ Head(responses).op = "put" => Head(responses).arg \in 1..putCounter
      /\ Head(responses).op = "get" => Head(responses).arg \in 1..getCounter
  BY <1>1, NumberedTail
<1>4. Head(responses).op \in {"listen", "put", "get"} /\ Head(responses).value \in Nat
  BY <1>2 DEF Answer
<1> QED
  BY <1>2, <1>3, <1>4

-----------------------------------------------------------------------------
(* Types, and the state of an idle connection.                             *)

(* The state of the writes stays well formed in every step.                 *)
LEMMA WritesTypedStep ==
    ASSUME Typed, Next
    PROVE  WritesTyped'
<1> USE DEF Typed
<1>1. CASE PutData
  BY <1>1 DEF PutData, WritesTyped, serverVars
<1>2. CASE ServerTakes
  <2>1. UNCHANGED putVars /\ (TakesPut \/ log' = log)
    BY <1>2, ServerTakesOne DEF TakesListen, TakesUnlisten, TakesGet
  <2>2. CASE TakesPut
    <3>1. Head(requests).arg \in 1..putCounter /\ log' = Append(log, Head(requests).arg)
      BY <2>2, HeadRequest DEF TakesPut
    <3> QED
      BY <2>1, <3>1 DEF WritesTyped, putVars
  <2>3. CASE log' = log
    BY <2>1, <2>3 DEF WritesTyped, putVars
  <2> QED
    BY <2>1, <2>2, <2>3
<1>3. CASE OnDataMessage
  <2>1. log' = log /\ (HandlesPut \/ HandlesGet \/ HandlesListen)
    BY <1>3, OnDataMessageHandles DEF serverVars
  <2>2. CASE HandlesPut
    <3>1. Head(responses).arg \in 1..putCounter /\ PutResponse(Head(responses).arg)
      BY <2>2, HeadResponse DEF HandlesPut
    <3> DEFINE v == Head(responses).arg
    <3>2. CASE putsToAck' = Append(putsToAck, v)
      <4>1. /\ putsToAck' \in Seq(Nat)
            /\ \A i \in 1..Len(putsToAck') : putsToAck'[i] \in 1..putCounter
        BY <3>1, <3>2, AppendAre DEF WritesTyped
      <4> QED
        BY <2>1, <3>1, <4>1 DEF WritesTyped, PutResponse
    <3>3. CASE putsToAck' = putsToAck
      BY <2>1, <3>1, <3>3 DEF WritesTyped, PutResponse
    <3> QED
      BY <3>1, <3>2, <3>3 DEF PutResponse
  <2>3. CASE HandlesGet
    BY <2>1, <2>3 DEF HandlesGet, GetResponse, putVars, WritesTyped
  <2>4. CASE HandlesListen
    <3>1. Range(putsToAck) \subseteq 1..putCounter
      BY DEF WritesTyped, Range
    <3>2. /\ UNCHANGED <<putCounter, outstandingPuts>>
          /\ \/ completed' = completed \cup Range(putsToAck) /\ putsToAck' = <<>>
             \/ UNCHANGED <<completed, putsToAck>>
      BY <2>4 DEF HandlesListen, ListenResponse
    <3>3. CASE completed' = completed \cup Range(putsToAck) /\ putsToAck' = <<>>
      <4>1. putsToAck' \in Seq(Nat) /\ \A i \in 1..Len(putsToAck') : putsToAck'[i] \in 1..putCounter
        BY <3>3
      <4>2. completed' \subseteq 1..putCounter
        BY <3>1, <3>3 DEF WritesTyped
      <4> QED
        BY <2>1, <3>2, <4>1, <4>2 DEF WritesTyped
    <3>4. CASE UNCHANGED <<completed, putsToAck>>
      BY <2>1, <3>2, <3>4 DEF WritesTyped
    <3> QED
      BY <3>2, <3>3, <3>4
  <2> QED
    BY <2>1, <2>2, <2>3, <2>4
<1>4. CASE UNCHANGED <<putVars, log>>
  BY <1>4 DEF WritesTyped, putVars
<1> QED
  BY <1>1, <1>2, <1>3, <1>4
  DEF Next, Listen, Unlisten, GetData, GetTimesOut, OpenNetworkConnection, OnReady, OnDisconnect,
      ServerLoads, serverVars

(* The state of the gets stays well formed in every step.                   *)
LEMMA GetsTypedStep ==
    ASSUME Typed, Next
    PROVE  GetsTyped'
<1> USE DEF Typed
<1>1. CASE GetData
  <2>1. before' \in Seq(Nat) /\ Len(before') = getCounter + 1
    BY <1>1, AppendAre DEF GetData, GetsTyped, WritesTyped
  <2>2. /\ getCounter' = getCounter + 1 /\ UNCHANGED results
        /\ outstandingGets' = outstandingGets \cup {getCounter + 1}
        /\ sentGets' \subseteq sentGets \cup {getCounter + 1}
        /\ getTimers' \subseteq getTimers \cup {getCounter + 1}
    BY <1>1 DEF GetData
  <2>3. \A S \in SUBSET (1..getCounter) : S \cup {getCounter + 1} \subseteq 1..(getCounter + 1)
    BY DEF GetsTyped
  <2> QED
    BY <2>1, <2>2, <2>3 DEF GetsTyped
<1>2. ASSUME NEW g \in getTimers, GetTimesOut(g) PROVE GetsTyped'
  <2>1. CASE Complete(g, Failed)
    <3>1. g \in 1..getCounter /\ [get |-> g, value |-> Failed] \in [get : Nat, value : Int]
      BY DEF GetsTyped, Failed
    <3>2. results' \in Seq([get : Nat, value : Int])
      BY <2>1, <3>1, AppendAre DEF Complete, GetsTyped
    <3> QED
      BY <1>2, <2>1, <3>1, <3>2 DEF GetTimesOut, Complete, GetsTyped
  <2>2. CASE UNCHANGED <<sentGets, outstandingGets, results>>
    BY <1>2, <2>2 DEF GetTimesOut, GetsTyped
  <2> QED
    BY <1>2, <2>1, <2>2 DEF GetTimesOut
<1>3. CASE OnReady
  BY <1>3 DEF OnReady, GetsTyped
<1>4. CASE OnDataMessage
  <2>1. HandlesPut \/ HandlesGet \/ HandlesListen
    BY <1>4, OnDataMessageHandles
  <2>2. CASE HandlesGet
    <3>1. /\ Head(responses).arg \in 1..getCounter /\ Head(responses).value \in Nat
          /\ GetResponse(Head(responses).arg, Head(responses).value)
      BY <2>2, HeadResponse DEF HandlesGet
    <3> DEFINE r == [get |-> Head(responses).arg, value |-> Head(responses).value]
    <3>2. r \in [get : Nat, value : Int]
      BY <3>1 DEF GetsTyped
    <3>3. Append(results, r) \in Seq([get : Nat, value : Int])
      BY <3>2, AppendAre DEF GetsTyped
    <3>4. results' = results \/ results' = Append(results, r)
      BY <3>1 DEF GetResponse, Complete
    <3> HIDE DEF r
    <3> QED
      BY <3>1, <3>3, <3>4 DEF GetsTyped, GetResponse, Complete
  <2>3. CASE HandlesPut
    BY <2>3 DEF HandlesPut, PutResponse, getVars, GetsTyped
  <2>4. CASE HandlesListen
    BY <2>4 DEF HandlesListen, ListenResponse, getVars, GetsTyped
  <2> QED
    BY <2>1, <2>2, <2>3, <2>4
<1>5. CASE UNCHANGED <<getCounter, outstandingGets, sentGets, getTimers, results, before>>
  BY <1>5 DEF GetsTyped
<1> QED
  BY <1>1, <1>2, <1>3, <1>4, <1>5
  DEF Next, Listen, Unlisten, PutData, OpenNetworkConnection, OnDisconnect, ServerTakes,
      ServerLoads, getVars

(* The state of the listens stays well formed in every step.                *)
LEMMA ListensTypedStep ==
    ASSUME Typed, Next
    PROVE  ListensTyped'
<1> USE DEF Typed
<1>1. ASSUME NEW q \in Queries, Listen(q) PROVE ListensTyped'
  BY <1>1 DEF Listen, ListensTyped, serverVars
<1>2. ASSUME NEW q \in Queries, Unlisten(q) PROVE ListensTyped'
  BY <1>2 DEF Unlisten, ListensTyped, serverVars
<1>3. CASE OnReady
  <2>1. Cardinality(listens) \in Nat
    <3>1. listens \in SUBSET Queries /\ IsFiniteSet(Queries)
      BY ConnectionAssumption DEF ListensTyped, ConnectionAssumption
    <3> QED
      BY <3>1, FS_Subset, FS_CardinalityType, Zenon
  <2> QED
    BY <1>3, <2>1 DEF OnReady, ListensTyped, serverVars
<1>4. CASE OnDisconnect
  BY <1>4 DEF OnDisconnect, ListensTyped
<1>5. CASE ServerTakes
  <2>1. UNCHANGED listenVars /\ (TakesListen \/ TakesUnlisten \/ TakesPut \/ TakesGet)
    BY <1>5, ServerTakesOne
  <2>2. requests # <<>>
    BY <1>5 DEF ServerTakes
  <2> QED
    BY <2>1, <2>2, HeadRequest
    DEF TakesListen, TakesUnlisten, TakesPut, TakesGet, ListensTyped, listenVars
<1>6. CASE ServerLoads
  BY <1>6 DEF ServerLoads, ListensTyped, listenVars
<1>7. CASE OnDataMessage
  <2>1. UNCHANGED serverVars /\ (HandlesPut \/ HandlesGet \/ HandlesListen)
    BY <1>7, OnDataMessageHandles
  <2> QED
    BY <2>1 DEF HandlesPut, HandlesGet, HandlesListen, PutResponse, GetResponse, ListenResponse,
                ListensTyped, listenVars, serverVars
<1>8. CASE UNCHANGED <<listenVars, serverVars>>
  BY <1>8 DEF ListensTyped, listenVars, serverVars
<1> QED
  BY <1>1, <1>2, <1>3, <1>4, <1>5, <1>6, <1>7, <1>8
  DEF Next, PutData, GetData, GetTimesOut, OpenNetworkConnection

(* Sending a well-formed request keeps the requests well formed.            *)
LEMMA RequestSent ==
    ASSUME Typed, NEW m \in Request, Send(<<m>>),
           NEW p \in Nat, NEW g \in Nat, p >= putCounter, g >= getCounter,
           m.op = "put" => m.arg \in 1..p, m.op = "get" => m.arg \in 1..g
    PROVE  requests' \in Seq(Request) /\ Numbered(requests', p, g)
<1>0. putCounter \in Nat /\ getCounter \in Nat /\ requests \in Seq(Request)
  BY DEF Typed, WritesTyped, GetsTyped, MessagesTyped
<1>1. requests' = IF Connected THEN Append(requests, m) ELSE requests
  BY SentMessage
<1>2. Numbered(requests, p, g)
  BY <1>0, NumberedMore DEF Typed, MessagesTyped
<1>3. Append(requests, m) \in Seq(Request) /\ Numbered(Append(requests, m), p, g)
  BY <1>0, <1>2, AppendAre, NumberedAppend
<1> QED
  BY <1>0, <1>1, <1>2, <1>3

(* The messages on the connection stay well formed in every step.           *)
LEMMA MessagesTypedStep ==
    ASSUME Typed, Next
    PROVE  MessagesTyped'
<1>0. /\ putCounter \in Nat /\ getCounter \in Nat
      /\ requests \in Seq(Request) /\ responses \in Seq(Answer)
      /\ Numbered(requests, putCounter, getCounter)
      /\ Numbered(responses, putCounter, getCounter)
      /\ connectionState \in {"Disconnected", "Connecting", "Connected"}
  BY DEF Typed, WritesTyped, GetsTyped, MessagesTyped
<1>1. ASSUME NEW q \in Queries, Listen(q) PROVE MessagesTyped'
  <2>1. Msg("listen", q) \in Request /\ Msg("listen", q).op = "listen"
    BY DEF Msg, Request
  <2>2. requests' \in Seq(Request) /\ Numbered(requests', putCounter, getCounter)
    BY <1>0, <1>1, <2>1, RequestSent DEF Listen
  <2> QED
    BY <1>0, <1>1, <2>2 DEF Listen, MessagesTyped, putVars, getVars
<1>2. ASSUME NEW q \in Queries, Unlisten(q) PROVE MessagesTyped'
  <2>1. Msg("unlisten", q) \in Request /\ Msg("unlisten", q).op = "unlisten"
    BY DEF Msg, Request
  <2>2. requests' \in Seq(Request) /\ Numbered(requests', putCounter, getCounter)
    BY <1>0, <1>2, <2>1, RequestSent DEF Unlisten
  <2> QED
    BY <1>0, <1>2, <2>2 DEF Unlisten, MessagesTyped, putVars, getVars
<1>3. ASSUME PutData PROVE MessagesTyped'
  <2> DEFINE c == putCounter + 1
  <2>1. /\ Msg("put", c) \in Request /\ Msg("put", c).op = "put" /\ Msg("put", c).arg = c
        /\ c \in Nat /\ c >= putCounter /\ c \in 1..c
    BY <1>0 DEF Msg, Request
  <2>2. requests' \in Seq(Request) /\ Numbered(requests', c, getCounter)
    BY <1>0, <1>3, <2>1, RequestSent DEF PutData
  <2>3. Numbered(responses, c, getCounter)
    BY <1>0, <2>1, NumberedMore
  <2> QED
    BY <1>0, <1>3, <2>2, <2>3 DEF PutData, MessagesTyped, getVars
<1>4. ASSUME GetData PROVE MessagesTyped'
  <2> DEFINE c == getCounter + 1
  <2>1. /\ Msg("get", c) \in Request /\ Msg("get", c).op = "get" /\ Msg("get", c).arg = c
        /\ c \in Nat /\ c >= getCounter /\ c \in 1..c
    BY <1>0 DEF Msg, Request
  <2>2. requests' \in Seq(Request) /\ Numbered(requests', putCounter, c)
    BY <1>0, <1>4, <2>1, RequestSent DEF GetData
  <2>3. Numbered(responses, putCounter, c)
    BY <1>0, <2>1, NumberedMore
  <2> QED
    BY <1>0, <1>4, <2>2, <2>3 DEF GetData, MessagesTyped, putVars
<1>5. ASSUME OnReady PROVE MessagesTyped'
  <2>1. PICK queries \in SetToSeqs(listens) :
          requests' = Restored(queries, InOrder(outstandingPuts), InOrder(outstandingGets \ sentGets))
    BY <1>5 DEF OnReady
  <2> DEFINE puts == InOrder(outstandingPuts)
             gets == InOrder(outstandingGets \ sentGets)
  <2>2. queries \in Seq(Queries)
    BY ListensInOrder
  <2>3. puts \in Seq(Nat) /\ \A i \in 1..Len(puts) : puts[i] \in 1..putCounter
    BY PutsInOrder
  <2>4. gets \in Seq(Nat) /\ \A i \in 1..Len(gets) : gets[i] \in 1..getCounter
    BY GetsInOrder
  <2> HIDE DEF puts, gets
  <2>5. Restored(queries, puts, gets) \in Seq(Request)
    BY <2>2, <2>3, <2>4, RestoredAre
  <2>6. Numbered(Restored(queries, puts, gets), putCounter, getCounter)
    BY <1>0, <2>2, <2>3, <2>4, RestoredNumbered
  <2> QED
    BY <1>0, <1>5, <2>1, <2>5, <2>6 DEF OnReady, puts, gets, MessagesTyped, putVars
<1>6. ASSUME OnDisconnect PROVE MessagesTyped'
  BY <1>6 DEF OnDisconnect, MessagesTyped, Numbered
<1>7. ASSUME ServerTakes PROVE MessagesTyped'
  <2>1. /\ requests' \in Seq(Request) /\ Numbered(requests', putCounter, getCounter)
        /\ UNCHANGED <<connectionState, putCounter, getCounter>>
    BY <1>7, HeadRequest DEF ServerTakes, putVars, getVars
  <2>2. CASE responses' = responses
    BY <1>0, <2>1, <2>2 DEF MessagesTyped
  <2>3. ASSUME NEW m \in Answer, responses' = Append(responses, m),
               m.op = "put" => m.arg \in 1..putCounter, m.op = "get" => m.arg \in 1..getCounter
        PROVE  MessagesTyped'
    <3>1. responses' \in Seq(Answer) /\ Numbered(responses', putCounter, getCounter)
      BY <1>0, <2>3, AppendAre, NumberedAppend
    <3> QED
      BY <1>0, <2>1, <3>1 DEF MessagesTyped
  <2>4. CASE TakesPut
    <3>1. Head(requests).arg \in 1..putCounter
      BY <2>4, HeadRequest DEF TakesPut
    <3>2. Response("put", Head(requests).arg, Head(requests).arg) \in Answer
      BY <1>0, <3>1 DEF Response, Answer
    <3> QED
      BY <2>3, <2>4, <3>1, <3>2 DEF TakesPut, Response
  <2>5. CASE TakesGet
    <3>1. Head(requests).arg \in 1..getCounter /\ Value \in Nat
      BY <1>0, <2>5, HeadRequest, ValueIs DEF TakesGet, Typed
    <3>2. Response("get", Head(requests).arg, Value) \in Answer
      BY <1>0, <3>1 DEF Response, Answer
    <3> QED
      BY <2>3, <2>5, <3>1, <3>2 DEF TakesGet, Response
  <2> QED
    BY <1>7, <2>2, <2>4, <2>5, ServerTakesOne DEF TakesListen, TakesUnlisten
<1>8. ASSUME ServerLoads PROVE MessagesTyped'
  <2>1. Response("listen", 0, 0) \in Answer /\ Response("listen", 0, 0).op = "listen"
    BY DEF Response, Answer
  <2>2. responses' \in Seq(Answer) /\ Numbered(responses', putCounter, getCounter)
    BY <1>0, <1>8, <2>1, AppendAre, NumberedAppend DEF ServerLoads
  <2> QED
    BY <1>0, <1>8, <2>2 DEF ServerLoads, MessagesTyped, putVars, getVars
<1>9. ASSUME OnDataMessage PROVE MessagesTyped'
  <2>1. responses # <<>> /\ responses' = Tail(responses)
    BY <1>9 DEF OnDataMessage
  <2>2. UNCHANGED <<connectionState, requests, putCounter, getCounter>>
    BY <1>9, OnDataMessageHandles
    DEF HandlesPut, HandlesGet, HandlesListen, PutResponse, GetResponse, ListenResponse, putVars, getVars
  <2> QED
    BY <1>0, <2>1, <2>2, HeadResponse DEF MessagesTyped
<1>10. ASSUME NEW g \in getTimers, GetTimesOut(g) PROVE MessagesTyped'
  BY <1>0, <1>10 DEF GetTimesOut, putVars, MessagesTyped
<1>11. ASSUME OpenNetworkConnection PROVE MessagesTyped'
  BY <1>0, <1>11 DEF OpenNetworkConnection, putVars, getVars, MessagesTyped
<1> QED
  BY <1>1, <1>2, <1>3, <1>4, <1>5, <1>6, <1>7, <1>8, <1>9, <1>10, <1>11 DEF Next

(* A lost connection leaves nothing behind, and nothing is sent without one. *)
LEMMA IdleStep ==
    ASSUME Typed, Idle, Next
    PROVE  Idle'
<1>1. ASSUME NEW q \in Queries, Listen(q) PROVE Idle'
  BY <1>1 DEF Listen, Send, Idle, Connected, serverVars, Typed, ListensTyped
<1>2. ASSUME NEW q \in Queries, Unlisten(q) PROVE Idle'
  BY <1>2 DEF Unlisten, Send, Idle, Connected, serverVars
<1>3. ASSUME PutData PROVE Idle'
  BY <1>3 DEF PutData, Send, Idle, Connected, serverVars, listenVars
<1>4. ASSUME GetData PROVE Idle'
  BY <1>4 DEF GetData, Send, Idle, Connected, serverVars, listenVars
<1>5. ASSUME NEW g \in getTimers, GetTimesOut(g) PROVE Idle'
  BY <1>5 DEF GetTimesOut, Idle, Connected, serverVars, listenVars
<1>6. ASSUME OpenNetworkConnection PROVE Idle'
  BY <1>6 DEF OpenNetworkConnection, Idle, Connected, serverVars, listenVars
<1>7. ASSUME OnReady PROVE Idle'
  BY <1>7 DEF OnReady, Idle, Connected
<1>8. ASSUME OnDisconnect PROVE Idle'
  BY <1>8 DEF OnDisconnect, Idle
<1>9. ASSUME ServerTakes PROVE Idle'
  BY <1>9 DEF ServerTakes, Idle, Connected
<1>10. ASSUME ServerLoads PROVE Idle'
  BY <1>10 DEF ServerLoads, Idle, Connected
<1>11. ASSUME OnDataMessage PROVE Idle'
  BY <1>11 DEF OnDataMessage, Idle, Connected
<1> QED
  BY <1>1, <1>2, <1>3, <1>4, <1>5, <1>6, <1>7, <1>8, <1>9, <1>10, <1>11 DEF Next

-----------------------------------------------------------------------------
(* The listens.                                                            *)

(* Only a listen request changes the number of listen requests.             *)
LEMMA CountingSend ==
    ASSUME Typed, Idle, NEW m \in Request, Send(<<m>>)
    PROVE  Count(requests', "listen") =
               Count(requests, "listen") + IF Connected /\ m.op = "listen" THEN 1 ELSE 0
<1>1. requests \in Seq(Request)
  BY DEF Typed, MessagesTyped
<1>2. Count(requests, "listen") \in Nat
  BY <1>1, CountType
<1>3. requests' = IF Connected THEN Append(requests, m) ELSE requests
  BY SentMessage
<1>4. Count(Append(requests, m), "listen") = Count(requests, "listen") + IF m.op = "listen" THEN 1 ELSE 0
  BY <1>1, CountAppend
<1> QED
  BY <1>2, <1>3, <1>4

(* unackedListensCount stays the number of listens without a handled        *)
(* response, across lost connections.                                       *)
LEMMA CountingStep ==
    ASSUME Typed, Idle, Counting, Next
    PROVE  Counting'
<1> DEFINE asked == Count(requests, "listen")
           answered == Count(responses, "listen")
<1>0. /\ requests \in Seq(Request) /\ responses \in Seq(Answer)
      /\ asked \in Nat /\ answered \in Nat /\ loading \in Nat /\ unackedListensCount \in Int
      /\ unackedListensCount = asked + loading + answered
  <2>1. requests \in Seq(Request) /\ responses \in Seq(Answer)
    BY DEF Typed, MessagesTyped
  <2> QED
    BY <2>1, CountType DEF Typed, ListensTyped, Counting
<1> HIDE DEF asked, answered
<1>2. ASSUME NEW q \in Queries, Listen(q) PROVE Counting'
  <2>1. Msg("listen", q) \in Request /\ Msg("listen", q).op = "listen"
    BY DEF Msg, Request
  <2>2. asked' = asked + IF Connected THEN 1 ELSE 0
    BY <1>2, <2>1, CountingSend DEF Listen, asked
  <2>3. answered' = answered /\ loading' = loading
    BY <1>2 DEF Listen, answered, serverVars
  <2> QED
    BY <1>0, <1>2, <2>2, <2>3 DEF Listen, Counting, asked, answered
<1>3. ASSUME NEW m \in Request, m.op # "listen", Send(<<m>>),
             UNCHANGED <<responses, loading, unackedListensCount>>
      PROVE  Counting'
  <2>1. asked' = asked
    BY <1>0, <1>3, CountingSend DEF asked
  <2>2. answered' = answered
    BY <1>3 DEF answered
  <2> QED
    BY <1>0, <1>3, <2>1, <2>2 DEF Counting, asked, answered
<1>4. ASSUME NEW q \in Queries, Unlisten(q) PROVE Counting'
  <2>1. Msg("unlisten", q) \in Request /\ Msg("unlisten", q).op # "listen"
    BY DEF Msg, Request
  <2> QED
    BY <1>3, <1>4, <2>1 DEF Unlisten, serverVars
<1>5. ASSUME PutData PROVE Counting'
  <2>1. Msg("put", putCounter') \in Request /\ Msg("put", putCounter').op # "listen"
    BY <1>5 DEF PutData, Msg, Request, Typed, WritesTyped
  <2> QED
    BY <1>3, <1>5, <2>1 DEF PutData, serverVars, listenVars
<1>6. ASSUME GetData PROVE Counting'
  <2>1. Msg("get", getCounter') \in Request /\ Msg("get", getCounter').op # "listen"
    BY <1>6 DEF GetData, Msg, Request, Typed, GetsTyped
  <2> QED
    BY <1>3, <1>6, <2>1 DEF GetData, serverVars, listenVars
<1>7. ASSUME UNCHANGED <<requests, responses, loading, unackedListensCount>> PROVE Counting'
  BY <1>7 DEF Counting
<1>8. ASSUME OnReady PROVE Counting'
  <2>1. PICK queries \in SetToSeqs(listens) :
          requests' = Restored(queries, InOrder(outstandingPuts), InOrder(outstandingGets \ sentGets))
    BY <1>8 DEF OnReady
  <2>2. queries \in Seq(Queries) /\ Len(queries) = Cardinality(listens) /\ Cardinality(listens) \in Nat
    BY ListensInOrder
  <2>3. InOrder(outstandingPuts) \in Seq(Nat) /\ InOrder(outstandingGets \ sentGets) \in Seq(Nat)
    BY PutsInOrder, GetsInOrder
  <2>4. asked' = Cardinality(listens)
    BY <2>1, <2>2, <2>3, RestoredCount DEF asked
  <2>5. answered' = 0 /\ loading' = 0 /\ unackedListensCount = 0
    BY <1>8, CountEmpty DEF OnReady, Idle, Connected, answered, serverVars
  <2> QED
    BY <1>8, <2>2, <2>4, <2>5 DEF OnReady, Counting, asked, answered
<1>9. ASSUME OnDisconnect PROVE Counting'
  <2>1. asked' = 0 /\ answered' = 0
    BY <1>9, CountEmpty DEF OnDisconnect, asked, answered
  <2> QED
    BY <1>9, <2>1 DEF OnDisconnect, Counting, asked, answered
<1>10. ASSUME ServerTakes PROVE Counting'
  <2>1. requests # <<>> /\ requests' = Tail(requests) /\ unackedListensCount' = unackedListensCount
    BY <1>10 DEF ServerTakes, listenVars
  <2>2. /\ asked = asked' + IF Head(requests).op = "listen" THEN 1 ELSE 0
        /\ asked' \in Nat
    <3>1. Tail(requests) \in Seq(Request)
      BY <2>1, HeadRequest
    <3> QED
      BY <1>0, <2>1, <3>1, CountTail, CountType DEF asked
  <2>3. \A v, w : /\ Response("put", v, w).op # "listen"
                  /\ Response("get", v, w).op # "listen"
    BY DEF Response
  <2>4. ASSUME NEW m \in Answer, m.op # "listen", responses' = Append(responses, m)
        PROVE  answered' = answered
    BY <1>0, <2>4, CountAppend DEF answered
  <2>5. CASE TakesListen
    <3>1. answered' = answered /\ asked = asked' + 1 /\ loading' = loading + 1
      BY <2>2, <2>5 DEF TakesListen, answered
    <3> QED
      BY <1>0, <2>1, <2>2, <3>1 DEF Counting, asked, answered
  <2>6. CASE TakesUnlisten
    <3>2. answered' = answered
      BY <2>6 DEF TakesUnlisten, answered
    <3>3. Head(requests).op # "listen" /\ loading' = loading
      BY <2>6 DEF TakesUnlisten
    <3> QED
      BY <1>0, <2>1, <2>2, <3>2, <3>3 DEF Counting, asked, answered
  <2>7. CASE TakesPut
    <3>1. Response("put", Head(requests).arg, Head(requests).arg) \in Answer
      BY <2>7, HeadRequest DEF TakesPut, Response, Answer, Typed, WritesTyped
    <3>2. answered' = answered
      BY <2>3, <2>4, <2>7, <3>1 DEF TakesPut
    <3>3. Head(requests).op # "listen" /\ loading' = loading
      BY <2>7 DEF TakesPut
    <3> QED
      BY <1>0, <2>1, <2>2, <3>2, <3>3 DEF Counting, asked, answered
  <2>8. CASE TakesGet
    <3>1. Response("get", Head(requests).arg, Value) \in Answer
      <4>1. requests # <<>> /\ Head(requests).op = "get" /\ getCounter \in Nat /\ putCounter \in Nat
        BY <2>8 DEF TakesGet, Typed, WritesTyped, GetsTyped
      <4>2. Head(requests).arg \in 1..getCounter
        BY <4>1, HeadRequest
      <4>3. Value \in 0..putCounter
        BY ValueIs DEF Typed
      <4> QED
        BY <4>1, <4>2, <4>3 DEF Response, Answer
    <3>2. answered' = answered
      BY <2>3, <2>4, <2>8, <3>1 DEF TakesGet
    <3>3. Head(requests).op # "listen" /\ loading' = loading
      BY <2>8 DEF TakesGet
    <3> QED
      BY <1>0, <2>1, <2>2, <3>2, <3>3 DEF Counting, asked, answered
  <2> QED
    BY <1>10, <2>5, <2>6, <2>7, <2>8, ServerTakesOne
<1>11. ASSUME ServerLoads PROVE Counting'
  <2>1. Response("listen", 0, 0) \in Answer /\ Response("listen", 0, 0).op = "listen"
    BY DEF Response, Answer
  <2>2. answered' = answered + 1 /\ asked' = asked
    BY <1>0, <1>11, <2>1, CountAppend DEF ServerLoads, answered, asked
  <2> QED
    BY <1>0, <1>11, <2>2 DEF ServerLoads, listenVars, Counting, asked, answered
<1>12. ASSUME OnDataMessage PROVE Counting'
  <2>1. /\ responses # <<>> /\ responses' = Tail(responses)
        /\ requests' = requests /\ loading' = loading
    BY <1>12 DEF OnDataMessage, serverVars
  <2>2. /\ answered = answered' + IF Head(responses).op = "listen" THEN 1 ELSE 0
        /\ answered' \in Nat /\ asked' = asked
    <3>1. Tail(responses) \in Seq(Answer)
      BY <2>1, HeadResponse
    <3> QED
      BY <1>0, <2>1, <3>1, CountTail, CountType DEF answered, asked
  <2>3. unackedListensCount' = unackedListensCount - IF Head(responses).op = "listen" THEN 1 ELSE 0
    <3>1. CASE HandlesListen
      BY <1>0, <3>1 DEF HandlesListen, ListenResponse
    <3>2. CASE HandlesPut \/ HandlesGet
      <4>1. Head(responses).op # "listen" /\ unackedListensCount' = unackedListensCount
        BY <3>2 DEF HandlesPut, HandlesGet, PutResponse, GetResponse, listenVars
      <4> QED
        BY <1>0, <4>1
    <3> QED
      BY <1>12, <3>1, <3>2, OnDataMessageHandles
  <2> QED
    BY <1>0, <2>1, <2>2, <2>3 DEF Counting, asked, answered
<1> QED
  BY <1>2, <1>4, <1>5, <1>6, <1>7, <1>8, <1>9, <1>10, <1>11, <1>12
  DEF Next, GetTimesOut, OpenNetworkConnection, listenVars, serverVars

(* A request for another query changes nothing for this one.                *)
LEMMA HeardSend ==
    ASSUME Typed, Listening, NEW m \in Request, Send(<<m>>), NEW q \in Queries,
           Connected, ~Concerns(m, q)
    PROVE  Heard(requests', q, q \in serverListens, q \in listens)
<1>1. requests' = Append(requests, m) /\ requests \in Seq(Request)
  BY SentMessage DEF Typed, MessagesTyped
<1> QED
  BY <1>1, HeardAppendOther DEF Listening

(* Every step keeps the requests on the connection in agreement with the    *)
(* listens of the device.                                                   *)
LEMMA ListeningStep ==
    ASSUME Typed, Idle, Listening, Next
    PROVE  Listening'
<1> SUFFICES ASSUME NEW q \in Queries, Connected'
             PROVE  Heard(requests', q, q \in serverListens', q \in listens')
  BY DEF Listening
<1>0. requests \in Seq(Request) /\ responses \in Seq(Answer)
  BY DEF Typed, MessagesTyped
<1>1. ASSUME NEW r \in Queries, NEW op \in {"listen", "unlisten"}, Send(<<Msg(op, r)>>),
             listens' = IF op = "listen" THEN listens \cup {r} ELSE listens \ {r},
             UNCHANGED <<connectionState, serverListens>>
      PROVE  Heard(requests', q, q \in serverListens', q \in listens')
  <2>1. Connected /\ Msg(op, r) \in Request
    BY <1>1 DEF Connected, Msg, Request
  <2>2. CASE r = q
    <3>1. Concerns(Msg(op, r), q) /\ (Msg(op, r).op = "listen" <=> q \in listens')
      BY <1>1, <2>2 DEF Concerns, Msg
    <3>2. requests' = Append(requests, Msg(op, r))
      BY <1>1, <2>1, SentMessage
    <3> QED
      BY <1>0, <2>1, <3>1, <3>2, HeardAppend
  <2>3. CASE r # q
    <3>1. ~Concerns(Msg(op, r), q) /\ (q \in listens' <=> q \in listens)
      BY <1>1, <2>3 DEF Concerns, Msg
    <3>2. Heard(requests', q, q \in serverListens, q \in listens)
      BY <1>1, <2>1, <3>1, HeardSend
    <3>3. (q \in listens') = (q \in listens)
      BY <3>1
    <3> QED
      BY <1>1, <3>2, <3>3
  <2> QED
    BY <2>2, <2>3
<1>2. ASSUME NEW m \in Request, m.op \notin {"listen", "unlisten"}, Send(<<m>>),
             UNCHANGED <<connectionState, serverListens, listens>>
      PROVE  Heard(requests', q, q \in serverListens', q \in listens')
  BY <1>2, HeardSend DEF Connected, Concerns
<1>3. CASE UNCHANGED <<connectionState, requests, serverListens, listens>>
  BY <1>3 DEF Listening, Connected
<1>4. CASE OnReady
  <2>1. PICK queries \in SetToSeqs(listens) :
          requests' = Restored(queries, InOrder(outstandingPuts), InOrder(outstandingGets \ sentGets))
    BY <1>4 DEF OnReady
  <2>2. InOrder(outstandingPuts) \in Seq(Nat) /\ InOrder(outstandingGets \ sentGets) \in Seq(Nat)
    BY PutsInOrder, GetsInOrder
  <2>3. Heard(requests', q, FALSE, q \in listens)
    BY <2>1, <2>2, RestoredHeard
  <2>4. serverListens' = {} /\ listens' = listens
    BY <1>4 DEF OnReady, Idle, Connected, serverVars
  <2>5. (q \in serverListens') = FALSE
    BY <2>4
  <2> QED
    BY <2>3, <2>4, <2>5
<1>5. CASE ServerTakes
  <2>1. /\ requests # <<>> /\ requests' = Tail(requests)
        /\ listens' = listens /\ connectionState' = connectionState
    BY <1>5 DEF ServerTakes, listenVars
  <2>2. Heard(requests, q, q \in serverListens, q \in listens)
    BY <2>1 DEF Listening, Connected
  <2>3. CASE Concerns(Head(requests), q)
    <3>1. Heard(requests', q, Head(requests).op = "listen", q \in listens)
      BY <1>0, <2>1, <2>2, <2>3, HeardTail
    <3>2. (q \in serverListens') = (Head(requests).op = "listen")
      BY <1>5, <2>3, ServerTakesOne
      DEF Concerns, TakesListen, TakesUnlisten, TakesPut, TakesGet
    <3> QED
      BY <2>1, <3>1, <3>2
  <2>4. CASE ~Concerns(Head(requests), q)
    <3>1. Heard(requests', q, q \in serverListens, q \in listens)
      BY <1>0, <2>1, <2>2, <2>4, HeardTail
    <3>2. (q \in serverListens') = (q \in serverListens)
      BY <1>5, <2>4, ServerTakesOne
      DEF Concerns, TakesListen, TakesUnlisten, TakesPut, TakesGet
    <3> QED
      BY <2>1, <3>1, <3>2
  <2> QED
    BY <2>3, <2>4
<1>6. CASE OnDataMessage
  <2>1. UNCHANGED <<connectionState, requests, serverListens, listens>>
    BY <1>6, OnDataMessageHandles
    DEF HandlesPut, HandlesGet, HandlesListen, PutResponse, GetResponse, ListenResponse,
        listenVars, serverVars
  <2> QED
    BY <1>3, <2>1
<1>7. CASE PutData
  <2>1. Msg("put", putCounter') \in Request /\ Msg("put", putCounter').op \notin {"listen", "unlisten"}
    BY <1>7 DEF PutData, Msg, Request, Typed, WritesTyped
  <2> QED
    BY <1>2, <1>7, <2>1 DEF PutData, serverVars, listenVars
<1>8. CASE GetData
  <2>1. Msg("get", getCounter') \in Request /\ Msg("get", getCounter').op \notin {"listen", "unlisten"}
    BY <1>8 DEF GetData, Msg, Request, Typed, GetsTyped
  <2> QED
    BY <1>2, <1>8, <2>1 DEF GetData, serverVars, listenVars
<1>9. CASE OnDisconnect \/ OpenNetworkConnection
  BY <1>9 DEF OnDisconnect, OpenNetworkConnection, Connected
<1>10. CASE ServerLoads \/ \E g \in getTimers : GetTimesOut(g)
  BY <1>3, <1>10 DEF ServerLoads, GetTimesOut, listenVars, serverVars
<1>11. ASSUME NEW r \in Queries, Listen(r) \/ Unlisten(r)
       PROVE  Heard(requests', q, q \in serverListens', q \in listens')
  BY <1>1, <1>11 DEF Listen, Unlisten, serverVars
<1> QED
  BY <1>4, <1>5, <1>6, <1>7, <1>8, <1>9, <1>10, <1>11 DEF Next

-----------------------------------------------------------------------------
(* The gets.                                                               *)

(* The writes counted before a get have been made.                          *)
LEMMA BeforeIsPastStep ==
    ASSUME Typed, BeforeIsPast, Next
    PROVE  BeforeIsPast'
<1>0. putCounter \in Nat /\ getCounter \in Nat /\ before \in Seq(Nat) /\ Len(before) = getCounter
  BY DEF Typed, WritesTyped, GetsTyped
<1>1. CASE GetData
  <2>1. before' = Append(before, putCounter) /\ getCounter' = getCounter + 1 /\ putCounter' = putCounter
    BY <1>1 DEF GetData, putVars
  <2> QED
    BY <1>0, <2>1, AppendAre DEF BeforeIsPast
<1>2. CASE PutData
  <2>1. before' = before /\ getCounter' = getCounter /\ putCounter' = putCounter + 1
    BY <1>2 DEF PutData, getVars
  <2> QED
    BY <1>0, <2>1 DEF BeforeIsPast
<1>3. CASE UNCHANGED <<before, getCounter, putCounter>>
  BY <1>3 DEF BeforeIsPast
<1>4. CASE OnDataMessage
  <2>1. UNCHANGED <<before, getCounter, putCounter>>
    BY <1>4, OnDataMessageHandles
    DEF HandlesPut, HandlesGet, HandlesListen, PutResponse, GetResponse, ListenResponse, getVars, putVars
  <2> QED
    BY <1>3, <2>1
<1> QED
  BY <1>1, <1>2, <1>3, <1>4
  DEF Next, Listen, Unlisten, GetTimesOut, OpenNetworkConnection, OnReady, OnDisconnect, ServerTakes,
      ServerLoads, getVars, putVars

(* When the server takes a get, every write made before it is in the        *)
(* database, or a newer one.                                                *)
LEMMA RecentValue ==
    ASSUME Typed, BeforeIsPast, WritesAfterGet(requests, before), Connected,
           requests # <<>>, Head(requests).op = "get",
           NEW a \in Nat, NEW b \in Nat, b <= putCounter, Window(a, b), Logged(a, b)
    PROVE  Value >= before[Head(requests).arg]
<1> DEFINE g == Head(requests).arg
           t == Tail(requests)
<1>1. g \in 1..getCounter /\ requests \in Seq(Request)
  BY HeadRequest DEF Typed, MessagesTyped
<1>2. before[g] \in Nat /\ putCounter \in Nat /\ before[g] <= putCounter /\ Value \in Nat /\ Value >= b
  <2>1. WritesTyped /\ before \in Seq(Nat) /\ Len(before) = getCounter /\ putCounter \in Nat
    BY DEF Typed, WritesTyped, GetsTyped
  <2>2. Value \in Nat
    BY <2>1, ValueIs
  <2> HIDE DEF g
  <2>3. before[g] \in Nat /\ before[g] <= putCounter
    BY <1>1, <2>1 DEF BeforeIsPast
  <2> QED
    BY <2>1, <2>2, <2>3 DEF Logged
<1>3. CASE b = putCounter
  BY <1>2, <1>3
<1>4. CASE b # putCounter
  <2>1. b <= putCounter /\ b + 1 \in (b + 1)..putCounter
    BY <1>2, <1>4
  <2>2. InSequence(t, b, putCounter)
    BY <1>1, <1>2, InSequenceTail DEF Window
  <2>3. PICK j \in 1..Len(t) : t[j].op = "put" /\ t[j].arg = b + 1
    BY <2>1, <2>2 DEF InSequence
  <2>4. b + 1 > before[g]
    BY <1>1, <2>3, WritesAfterGetTail
  <2> QED
    BY <1>2, <2>4
<1> QED
  BY <1>3, <1>4

(* No step answers a get with a value older than the writes made before it, *)
(* and none completes a get twice.                                          *)
LEMMA ReadsStep ==
    ASSUME Typed, Idle, Reads, Next,
           NEW a \in Nat, NEW b \in Nat, b <= putCounter, Window(a, b), Logged(a, b)
    PROVE  Reads'
<1>0. /\ putCounter \in Nat /\ getCounter \in Nat /\ before \in Seq(Nat) /\ Len(before) = getCounter
      /\ requests \in Seq(Request) /\ responses \in Seq(Answer)
      /\ results \in Seq([get : Nat, value : Int])
      /\ Numbered(requests, putCounter, getCounter) /\ Numbered(responses, putCounter, getCounter)
  BY DEF Typed, WritesTyped, GetsTyped, MessagesTyped
<1>1. BeforeIsPast'
  BY BeforeIsPastStep DEF Reads
<1>2. ASSUME NEW m \in Request, m.op # "put", Send(<<m>>)
      PROVE  WritesAfterGet(requests', before)
  <2>1. requests' = IF Connected THEN Append(requests, m) ELSE requests
    BY <1>2, SentMessage
  <2>2. WritesAfterGet(Append(requests, m), before)
    BY <1>0, <1>2, WritesAfterGetAppend DEF Reads
  <2> QED
    BY <2>1, <2>2 DEF Reads
<1>3. ASSUME NEW q \in Queries, Listen(q) \/ Unlisten(q) PROVE Reads'
  <2>1. /\ Msg("listen", q) \in Request /\ Msg("listen", q).op # "put"
        /\ Msg("unlisten", q) \in Request /\ Msg("unlisten", q).op # "put"
    BY DEF Msg, Request
  <2>2. WritesAfterGet(requests', before)
    BY <1>2, <1>3, <2>1 DEF Listen, Unlisten
  <2>3. UNCHANGED <<before, responses, results, getCounter, outstandingGets>>
    BY <1>3 DEF Listen, Unlisten, getVars
  <2> QED
    BY <1>1, <2>2, <2>3 DEF Reads, ResultsRecent
<1>4. ASSUME PutData PROVE Reads'
  <2> DEFINE m == Msg("put", putCounter + 1)
  <2>1. m \in Request /\ m.arg = putCounter + 1
    BY <1>0 DEF Msg, Request
  <2>2. UNCHANGED <<before, responses, results, getCounter, outstandingGets>> /\ Send(<<m>>)
    BY <1>4 DEF PutData, getVars
  <2>3. \A i \in 1..Len(requests) : requests[i].op = "get" => m.arg > before[requests[i].arg]
    <3> SUFFICES ASSUME NEW i \in 1..Len(requests), requests[i].op = "get"
                 PROVE  putCounter + 1 > before[requests[i].arg]
      BY <2>1
    <3>1. requests[i].arg \in 1..getCounter
      BY <1>0 DEF Numbered
    <3> QED
      BY <1>0, <3>1, SMTT(20) DEF Reads, BeforeIsPast
  <2>4. WritesAfterGet(Append(requests, m), before)
    BY <1>0, <2>1, <2>3, WritesAfterGetAppend DEF Reads
  <2>5. requests' = IF Connected THEN Append(requests, m) ELSE requests
    BY <2>1, <2>2, SentMessage
  <2>6. WritesAfterGet(requests', before)
    BY <2>4, <2>5 DEF Reads
  <2> QED
    BY <1>1, <2>2, <2>6 DEF Reads, ResultsRecent
<1>5. ASSUME GetData PROVE Reads'
  <2> DEFINE m == Msg("get", getCounter + 1)
  <2>1. m \in Request /\ m.op # "put"
    BY <1>0 DEF Msg, Request
  <2>2. /\ before' = Append(before, putCounter) /\ getCounter' = getCounter + 1 /\ Send(<<m>>)
        /\ outstandingGets' = outstandingGets \cup {getCounter + 1} /\ UNCHANGED <<responses, results>>
    BY <1>5 DEF GetData
  <2>3. \A g \in 1..getCounter : before'[g] = before[g]
    BY <1>0, <2>2, AppendAre
  <2>4. requests' = IF Connected THEN Append(requests, m) ELSE requests
    BY <2>1, <2>2, SentMessage
  <2>5. WritesAfterGet(requests, before')
    BY <1>0, <2>3 DEF Reads, WritesAfterGet, Numbered
  <2>6. WritesAfterGet(Append(requests, m), before')
    BY <1>0, <2>1, <2>5, WritesAfterGetAppend
  <2>7. AnswersRecent(responses', before')
    BY <1>0, <2>2, <2>3 DEF Reads, AnswersRecent, Numbered
  <2>8. ResultsRecent'
    <3> SUFFICES ASSUME NEW i \in 1..Len(results)
                 PROVE  /\ results[i].get \in (1..(getCounter + 1)) \ outstandingGets'
                        /\ results[i].value # Failed => results[i].value >= before'[results[i].get]
                        /\ \A j \in 1..(i - 1) : results[j].get # results[i].get
      BY <2>2 DEF ResultsRecent
    <3>1. /\ results[i].get \in (1..getCounter) \ outstandingGets
          /\ results[i].value # Failed => results[i].value >= before[results[i].get]
          /\ \A j \in 1..(i - 1) : results[j].get # results[i].get
      BY DEF Reads, ResultsRecent
    <3>2. results[i].get \in (1..(getCounter + 1)) \ outstandingGets'
      <4>1. \A g \in 1..getCounter : g \in 1..(getCounter + 1) /\ g # getCounter + 1
        BY <1>0
      <4> QED
        BY <2>2, <3>1, <4>1
    <3> QED
      BY <2>3, <3>1, <3>2
  <2> QED
    BY <1>1, <2>4, <2>5, <2>6, <2>7, <2>8 DEF Reads
<1>6. ASSUME NEW g \in 1..getCounter, NEW v \in Int, g \in outstandingGets, Complete(g, v),
             v # Failed => v >= before[g], UNCHANGED <<before, getCounter>>
      PROVE  ResultsRecent'
  <2> DEFINE r == [get |-> g, value |-> v]
  <2>1. r \in [get : Nat, value : Int] /\ r.get = g /\ r.value = v
    BY <1>0
  <2>2. results' = Append(results, r) /\ outstandingGets' = outstandingGets \ {g}
    BY <1>6 DEF Complete
  <2>3. /\ Len(results) \in Nat /\ Len(results') = Len(results) + 1 /\ results'[Len(results) + 1] = r
        /\ \A i \in 1..Len(results) : results'[i] = results[i]
        /\ \A i \in 1..Len(results') : i \in 1..Len(results) \/ i = Len(results) + 1
    <3> DEFINE R == [get : Nat, value : Int]
    <3>1. results \in Seq(R) /\ r \in R
      BY <1>0, <2>1
    <3>2. results' = Append(results, r)
      BY <2>2
    <3> HIDE DEF r, R
    <3>3. /\ Len(results) \in Nat /\ Len(Append(results, r)) = Len(results) + 1
          /\ Append(results, r)[Len(results) + 1] = r
          /\ \A i \in 1..Len(results) : Append(results, r)[i] = results[i]
          /\ \A i \in 1..Len(Append(results, r)) : i \in 1..Len(results) \/ i = Len(results) + 1
      BY <3>1, AppendAre
    <3> QED
      BY <3>2, <3>3, Zenon
  <2>4. \A i \in 1..Len(results) : results[i].get # g
    BY <1>6 DEF Reads, ResultsRecent
  <2> HIDE DEF r
  <2> SUFFICES ASSUME NEW i \in 1..Len(results')
               PROVE  /\ results'[i].get \in (1..getCounter) \ outstandingGets'
                      /\ results'[i].value # Failed => results'[i].value >= before[results'[i].get]
                      /\ \A j \in 1..(i - 1) : results'[j].get # results'[i].get
    BY <1>6 DEF ResultsRecent
  <2>5. CASE i \in 1..Len(results)
    <3>1. results'[i] = results[i] /\ \A j \in 1..(i - 1) : results'[j] = results[j]
      BY <2>3, <2>5
    <3> QED
      BY <2>2, <2>5, <3>1 DEF Reads, ResultsRecent
  <2>6. CASE i = Len(results) + 1
    <3>1. results'[i] = r /\ \A j \in 1..(i - 1) : j \in 1..Len(results) /\ results'[j] = results[j]
      BY <2>3, <2>6
    <3> QED
      BY <1>6, <2>1, <2>2, <2>4, <3>1
  <2> QED
    BY <2>3, <2>5, <2>6
<1>7. ASSUME NEW g \in getTimers, GetTimesOut(g) PROVE Reads'
  <2>1. g \in 1..getCounter /\ Failed \in Int
    BY DEF Typed, GetsTyped, Failed
  <2>2. UNCHANGED <<requests, responses, before, getCounter>>
    BY <1>7 DEF GetTimesOut
  <2>3. ResultsRecent'
    <3>1. CASE UNCHANGED <<outstandingGets, results>>
      BY <2>2, <3>1 DEF Reads, ResultsRecent
    <3>2. CASE g \in outstandingGets /\ Complete(g, Failed)
      BY <1>6, <2>1, <2>2, <3>2
    <3> QED
      BY <1>7, <3>1, <3>2 DEF GetTimesOut
  <2> QED
    BY <1>1, <2>2, <2>3 DEF Reads
<1>8. ASSUME OnReady PROVE Reads'
  <2>1. PICK queries \in SetToSeqs(listens) :
          requests' = Restored(queries, InOrder(outstandingPuts), InOrder(outstandingGets \ sentGets))
    BY <1>8 DEF OnReady
  <2>2. queries \in Seq(Queries)
    BY ListensInOrder
  <2>3. InOrder(outstandingPuts) \in Seq(Nat) /\ InOrder(outstandingGets \ sentGets) \in Seq(Nat)
    BY PutsInOrder, GetsInOrder
  <2>4. WritesAfterGet(requests', before)
    BY <2>1, <2>2, <2>3, WritesAfterGetRestored
  <2>5. UNCHANGED <<before, responses, results, getCounter, outstandingGets>>
    BY <1>8 DEF OnReady
  <2> QED
    BY <1>1, <2>4, <2>5 DEF Reads, ResultsRecent
<1>9. ASSUME OnDisconnect PROVE Reads'
  <2>1. WritesAfterGet(requests', before') /\ AnswersRecent(responses', before')
    BY <1>9 DEF OnDisconnect, WritesAfterGet, AnswersRecent
  <2> QED
    BY <1>1, <1>9, <2>1 DEF OnDisconnect, Reads, ResultsRecent
<1>10. ASSUME UNCHANGED <<requests, responses, before, results, getCounter, outstandingGets>> PROVE Reads'
  BY <1>1, <1>10 DEF Reads, ResultsRecent
<1>11. ASSUME NEW m \in Answer, responses' = Append(responses, m), before' = before,
              m.op = "get" => m.value >= before[m.arg]
       PROVE  AnswersRecent(responses', before')
  <2> DEFINE t == Append(responses, m)
  <2>1. /\ Len(t) = Len(responses) + 1 /\ t[Len(responses) + 1] = m
        /\ \A i \in 1..Len(responses) : t[i] = responses[i]
        /\ \A i \in 1..Len(t) : i \in 1..Len(responses) \/ i = Len(responses) + 1
    BY <1>0, AppendAre
  <2> HIDE DEF t
  <2>2. AnswersRecent(t, before)
    BY <1>11, <2>1 DEF Reads, AnswersRecent
  <2> QED
    BY <1>11, <2>2 DEF t
<1>12. ASSUME ServerTakes PROVE Reads'
  <2>1. /\ requests # <<>> /\ requests' = Tail(requests)
        /\ UNCHANGED <<before, results, getCounter, outstandingGets>>
    BY <1>12 DEF ServerTakes, getVars
  <2>2. WritesAfterGet(requests', before')
    BY <1>0, <2>1, WritesAfterGetTail DEF Reads
  <2>3. CASE TakesPut
    <3>1. Head(requests).arg \in 1..putCounter
      BY <2>3, HeadRequest DEF TakesPut
    <3>2. Response("put", Head(requests).arg, Head(requests).arg) \in Answer
      BY <1>0, <3>1 DEF Response, Answer
    <3>3. AnswersRecent(responses', before')
      BY <1>11, <2>1, <2>3, <3>2 DEF TakesPut, Response
    <3> QED
      BY <1>1, <2>1, <2>2, <3>3 DEF Reads, ResultsRecent
  <2>4. CASE TakesGet
    <3>1. Head(requests).arg \in 1..getCounter /\ Value \in Nat
      BY <1>0, <2>4, HeadRequest, ValueIs DEF TakesGet, Typed
    <3>2. Response("get", Head(requests).arg, Value) \in Answer
      BY <1>0, <3>1 DEF Response, Answer
    <3>3. Connected
      BY <2>1 DEF Idle
    <3>4. Value >= before[Head(requests).arg]
      BY <2>1, <2>4, <3>3, RecentValue DEF Reads, TakesGet
    <3>5. AnswersRecent(responses', before')
      BY <1>11, <2>1, <2>4, <3>2, <3>4 DEF TakesGet, Response
    <3> QED
      BY <1>1, <2>1, <2>2, <3>5 DEF Reads, ResultsRecent
  <2>5. CASE responses' = responses
    BY <1>1, <2>1, <2>2, <2>5 DEF Reads, ResultsRecent
  <2> QED
    BY <1>12, <2>3, <2>4, <2>5, ServerTakesOne DEF TakesListen, TakesUnlisten
<1>13. ASSUME ServerLoads PROVE Reads'
  <2>1. Response("listen", 0, 0) \in Answer /\ Response("listen", 0, 0).op # "get"
    BY DEF Response, Answer
  <2>2. UNCHANGED <<requests, before, results, getCounter, outstandingGets>>
    BY <1>13 DEF ServerLoads, getVars
  <2>3. AnswersRecent(responses', before')
    BY <1>11, <1>13, <2>1, <2>2 DEF ServerLoads
  <2> QED
    BY <1>1, <2>2, <2>3 DEF Reads, ResultsRecent
<1>14. ASSUME OnDataMessage PROVE Reads'
  <2>1. responses # <<>> /\ responses' = Tail(responses) /\ requests' = requests
    BY <1>14 DEF OnDataMessage
  <2>2. before' = before /\ getCounter' = getCounter
    BY <1>14, OnDataMessageHandles
    DEF HandlesPut, HandlesGet, HandlesListen, PutResponse, GetResponse, ListenResponse, getVars
  <2>3. /\ Head(responses) = responses[1] /\ 1 \in 1..Len(responses)
        /\ \A i \in 1..Len(responses') : i + 1 \in 1..Len(responses) /\ responses'[i] = responses[i + 1]
    BY <1>0, <2>1, TailAre
  <2>4. AnswersRecent(responses', before')
    BY <2>2, <2>3 DEF Reads, AnswersRecent
  <2>5. ResultsRecent'
    <3>1. CASE HandlesGet
      <4> DEFINE g == Head(responses).arg
                 v == Head(responses).value
      <4>1. g \in 1..getCounter /\ v \in Nat
        BY <3>1, HeadResponse DEF HandlesGet
      <4>2. v >= before[g]
        BY <2>3, <3>1 DEF HandlesGet, Reads, AnswersRecent
      <4>3. CASE g \in outstandingGets /\ Complete(g, v)
        BY <1>6, <2>2, <4>1, <4>2, <4>3
      <4>4. CASE UNCHANGED <<outstandingGets, results>>
        BY <2>2, <4>4 DEF Reads, ResultsRecent
      <4> QED
        BY <3>1, <4>3, <4>4 DEF HandlesGet, GetResponse
    <3>2. CASE HandlesPut \/ HandlesListen
      BY <3>2 DEF HandlesPut, HandlesListen, PutResponse, ListenResponse, getVars, Reads, ResultsRecent
    <3> QED
      BY <1>14, <3>1, <3>2, OnDataMessageHandles
  <2> QED
    BY <1>1, <2>1, <2>2, <2>4, <2>5 DEF Reads
<1> QED
  BY <1>3, <1>4, <1>5, <1>7, <1>8, <1>9, <1>10, <1>12, <1>13, <1>14 DEF Next, OpenNetworkConnection, getVars

-----------------------------------------------------------------------------
(* The writes.                                                             *)

(* A step that touches no write keeps the window of the writes.             *)
LEMMA SameWrites ==
    ASSUME NEW a, NEW b, Writes(a, b),
           UNCHANGED <<putCounter, outstandingPuts, log>>,
           InSequence(responses', a, b), Connected' => InSequence(requests', b, putCounter)
    PROVE  Writes(a, b)'
  BY DEF Writes, Window, Logged, Value

(* putInternal: opens the window of the writes by one.                      *)
LEMMA IssueStep ==
    ASSUME Typed, NEW a, NEW b, Writes(a, b), PutData
    PROVE  Writes(a, b)' /\ putCounter' = putCounter + 1 /\ log' = log
<1> DEFINE c == putCounter + 1
           m == Msg("put", c)
<1>0. /\ putCounter \in Nat /\ requests \in Seq(Request) /\ a \in Nat /\ b \in Nat
      /\ a <= b /\ b <= putCounter
  BY DEF Typed, WritesTyped, MessagesTyped, Writes
<1>1. m \in Request /\ m.op = "put" /\ m.arg = putCounter + 1
  BY <1>0 DEF Msg, Request
<1>2. /\ putCounter' = c /\ outstandingPuts' = outstandingPuts \cup {c} /\ Send(<<m>>)
      /\ UNCHANGED <<connectionState, responses, log>>
  BY DEF PutData, serverVars
<1>3. requests' = IF Connected THEN Append(requests, m) ELSE requests
  BY <1>1, <1>2, SentMessage
<1>4. Connected' => InSequence(requests', b, c)
  <2> SUFFICES ASSUME Connected PROVE InSequence(Append(requests, m), b, c)
    BY <1>2, <1>3 DEF Connected
  <2>1. InSequence(requests, b, putCounter)
    BY DEF Writes, Window
  <2> HIDE DEF m
  <2> QED
    BY <1>0, <1>1, <2>1, InSequenceAppend
<1>5. outstandingPuts' = (a + 1)..c
  <2>1. outstandingPuts = (a + 1)..putCounter
    BY DEF Writes, Window
  <2> QED
    BY <1>0, <1>2, <2>1
<1>6. Logged(a, b)'
  BY <1>2 DEF Writes, Logged, Value
<1>7. Window(a, b)'
  BY <1>2, <1>4, <1>5 DEF Writes, Window
<1> QED
  BY <1>0, <1>2, <1>6, <1>7 DEF Writes

(* The server takes the oldest write without a response.                    *)
LEMMA DeliverStep ==
    ASSUME Typed, Idle, NEW a, NEW b, Writes(a, b), TakesPut,
           UNCHANGED <<connectionState, putVars>>
    PROVE  /\ b < putCounter /\ Writes(a, b + 1)' /\ putCounter' = putCounter
           /\ log' = Append(log, b + 1)
<1> DEFINE v == Head(requests).arg
           r == Response("put", v, v)
<1>0. /\ putCounter \in Nat /\ requests \in Seq(Request) /\ responses \in Seq(Answer)
      /\ a \in Nat /\ b \in Nat /\ a <= b /\ b <= putCounter /\ log \in Seq(Nat)
      /\ \A i \in 1..Len(log) : log[i] \in 1..putCounter
  BY DEF Typed, WritesTyped, MessagesTyped, Writes
<1>1. /\ requests # <<>> /\ Head(requests).op = "put" /\ requests' = Tail(requests)
      /\ responses' = Append(responses, r) /\ log' = Append(log, v)
      /\ UNCHANGED <<connectionState, putCounter, outstandingPuts>>
  BY DEF TakesPut, putVars
<1>2. Connected /\ InSequence(requests, b, putCounter) /\ InSequence(responses, a, b)
  BY <1>1 DEF Idle, Writes, Window
<1>3. b < putCounter /\ v = b + 1 /\ InSequence(requests', b + 1, putCounter)
  BY <1>0, <1>1, <1>2, InSequenceTail
<1>4. InSequence(responses', a, b + 1)
  <2>1. r \in Answer /\ r.op = "put" /\ r.arg = b + 1
    BY <1>0, <1>3 DEF Response, Answer
  <2> HIDE DEF r
  <2> QED
    BY <1>0, <1>1, <1>2, <2>1, InSequenceAppend
<1> HIDE DEF v
<1>5. /\ Len(log) \in Nat /\ Len(log') = Len(log) + 1 /\ log'[Len(log) + 1] = b + 1
      /\ \A i \in 1..Len(log) : log'[i] = log[i]
      /\ \A i \in 1..Len(log') : i \in 1..Len(log) \/ i = Len(log) + 1
  <2>1. b + 1 \in Nat
    BY <1>0
  <2> QED
    BY <1>0, <1>1, <1>3, <2>1, AppendAre, SMTT(20)
<1>6. Value' >= b + 1
  <2>1. log' # <<>> /\ Last(log') = log'[Len(log')]
    BY <1>5 DEF Last
  <2> QED
    BY <1>0, <1>5, <2>1 DEF Value
<1>7. \A w \in (a + 1)..(b + 1) : \E k \in 1..Len(log') :
        log'[k] = w /\ \A j \in (k + 1)..Len(log') : log'[j] > w
  <2> SUFFICES ASSUME NEW w \in (a + 1)..(b + 1)
               PROVE  \E k \in 1..Len(log') : log'[k] = w /\ \A j \in (k + 1)..Len(log') : log'[j] > w
    OBVIOUS
  <2>1. CASE w = b + 1
    <3>1. Len(log) + 1 \in 1..Len(log') /\ \A j \in ((Len(log) + 1) + 1)..Len(log') : FALSE
      BY <1>5
    <3> QED
      BY <1>5, <2>1, <3>1
  <2>2. CASE w # b + 1
    <3>1. w \in (a + 1)..b /\ w < b + 1
      BY <1>0, <2>2
    <3>2. PICK k \in 1..Len(log) : log[k] = w /\ \A j \in (k + 1)..Len(log) : log[j] > w
      BY <3>1 DEF Writes, Logged
    <3>3. k \in 1..Len(log') /\ log'[k] = w
      BY <1>5, <3>2
    <3>4. ASSUME NEW j \in (k + 1)..Len(log') PROVE log'[j] > w
      <4>1. CASE j = Len(log) + 1
        BY <1>0, <1>5, <3>1, <4>1
      <4>2. CASE j # Len(log) + 1
        <5>1. j \in (k + 1)..Len(log) /\ j \in 1..Len(log)
          BY <1>5, <4>2
        <5> QED
          BY <1>5, <3>2, <5>1
      <4> QED
        BY <4>1, <4>2
    <3> QED
      BY <3>3, <3>4
  <2> QED
    BY <2>1, <2>2
<1>8. \A i, j \in 1..Len(log') : i < j /\ log'[j] < log'[i] =>
        log'[i] > a \/ \E k \in (j + 1)..Len(log') : log'[k] = log'[i]
  <2> SUFFICES ASSUME NEW i \in 1..Len(log'), NEW j \in 1..Len(log'), i < j, log'[j] < log'[i],
                      ~(log'[i] > a)
               PROVE  \E k \in (j + 1)..Len(log') : log'[k] = log'[i]
    OBVIOUS
  <2>1. i \in 1..Len(log) /\ log'[i] = log[i] /\ log[i] \in Nat
    BY <1>0, <1>5
  <2>2. CASE j = Len(log) + 1
    BY <1>0, <1>5, <2>1, <2>2
  <2>3. CASE j \in 1..Len(log)
    <3>1. PICK k \in (j + 1)..Len(log) : log[k] = log[i]
      BY <1>5, <2>1, <2>3 DEF Writes, Logged
    <3>2. k \in (j + 1)..Len(log') /\ k \in 1..Len(log)
      BY <1>5, <2>3, <3>1
    <3> QED
      BY <1>5, <2>1, <3>1, <3>2
  <2> QED
    BY <1>5, <2>2, <2>3
<1>9. Logged(a, b + 1)'
  BY <1>6, <1>7, <1>8 DEF Logged
<1>10. Window(a, b + 1)'
  BY <1>0, <1>1, <1>3, <1>4 DEF Writes, Window
<1> QED
  BY <1>0, <1>1, <1>3, <1>9, <1>10 DEF Writes

(* The response that is handled is that of the oldest outstanding write.    *)
LEMMA AcknowledgeStep ==
    ASSUME Typed, NEW a, NEW b, Writes(a, b), HandlesPut, responses' = Tail(responses),
           UNCHANGED <<connectionState, requests, serverVars>>
    PROVE  a < b /\ Writes(a + 1, b)' /\ putCounter' = putCounter /\ log' = log
<1> DEFINE v == Head(responses).arg
<1>0. /\ putCounter \in Nat /\ responses \in Seq(Answer)
      /\ a \in Nat /\ b \in Nat /\ a <= b /\ b <= putCounter /\ log \in Seq(Nat)
      /\ \A i \in 1..Len(log) : log[i] \in 1..putCounter
  BY DEF Typed, WritesTyped, MessagesTyped, Writes
<1>1. responses # <<>> /\ Head(responses).op = "put" /\ PutResponse(v)
  BY DEF HandlesPut
<1>2. a < b /\ v = a + 1 /\ InSequence(responses', a + 1, b)
  BY <1>0, <1>1, InSequenceTail DEF Writes, Window
<1>3. /\ outstandingPuts = (a + 1)..putCounter
      /\ outstandingPuts' = outstandingPuts \ {v} /\ putCounter' = putCounter
  <2>1. outstandingPuts = (a + 1)..putCounter
    BY DEF Writes, Window
  <2>2. v \in outstandingPuts
    BY <1>0, <1>2, <2>1
  <2> QED
    BY <1>1, <2>1, <2>2 DEF PutResponse
<1>4. outstandingPuts' = (a + 1 + 1)..putCounter
  BY <1>0, <1>2, <1>3
<1>5. UNCHANGED <<connectionState, requests, log>>
  BY DEF serverVars
<1>6. Window(a + 1, b)'
  BY <1>0, <1>2, <1>3, <1>4, <1>5 DEF Writes, Window, Connected
<1>7. Value >= b
  BY DEF Writes, Logged
<1>8. \A w \in (a + 1 + 1)..b : \E k \in 1..Len(log) :
        log[k] = w /\ \A j \in (k + 1)..Len(log) : log[j] > w
  <2>1. \A w \in (a + 1 + 1)..b : w \in (a + 1)..b
    BY <1>0
  <2> QED
    BY <2>1 DEF Writes, Logged
<1>9. \A i, j \in 1..Len(log) : i < j /\ log[j] < log[i] =>
        log[i] > a + 1 \/ \E k \in (j + 1)..Len(log) : log[k] = log[i]
  <2> SUFFICES ASSUME NEW i \in 1..Len(log), NEW j \in 1..Len(log), i < j, log[j] < log[i],
                      ~(log[i] > a + 1)
               PROVE  \E k \in (j + 1)..Len(log) : log[k] = log[i]
    OBVIOUS
  <2>1. log[i] \in Nat /\ log[j] \in Nat
    <3>1. log[i] \in 1..putCounter /\ log[j] \in 1..putCounter
      BY <1>0, Zenon
    <3> QED
      BY <3>1
  <2>2. CASE log[i] > a
    <3>1. log[i] = a + 1 /\ a + 1 \in (a + 1)..b
      BY <1>0, <1>2, <2>1, <2>2
    <3>2. PICK k \in 1..Len(log) : log[k] = a + 1 /\ \A l \in (k + 1)..Len(log) : log[l] > a + 1
      BY <3>1 DEF Writes, Logged
    <3>3. ~(j \in (k + 1)..Len(log)) /\ j # k
      BY <1>0, <2>1, <3>1, <3>2, SMTT(20)
    <3>4. k \in (j + 1)..Len(log)
      BY <3>3
    <3> QED
      BY <3>1, <3>2, <3>4
  <2>3. CASE ~(log[i] > a)
    BY <2>3 DEF Writes, Logged
  <2> QED
    BY <2>2, <2>3
<1>10. Logged(a + 1, b)'
  <2>1. Logged(a + 1, b)
    BY <1>7, <1>8, <1>9 DEF Logged
  <2> QED
    BY <1>5, <2>1 DEF Logged, Value
<1> QED
  BY <1>0, <1>2, <1>3, <1>5, <1>6, <1>10 DEF Writes

(* What the log says of the outstanding writes does not depend on the       *)
(* connection.                                                              *)
LEMMA LoggedRewind ==
    ASSUME Typed, NEW a, NEW b, Writes(a, b)
    PROVE  Logged(a, a)
<1>0. a \in Nat /\ b \in Nat /\ a <= b /\ Value \in Nat
  BY ValueIs DEF Typed, WritesTyped, Writes
<1> QED
  BY <1>0 DEF Writes, Logged

(* When the connection is lost or restored, the server has to take all the  *)
(* outstanding writes again.                                                *)
LEMMA RewindStep ==
    ASSUME Typed, Idle, NEW a, NEW b, Writes(a, b), OnReady \/ OnDisconnect
    PROVE  Writes(a, a)' /\ putCounter' = putCounter /\ log' = log
<1>0. putCounter \in Nat /\ a \in Nat /\ b \in Nat /\ a <= b /\ b <= putCounter /\ a <= putCounter
  BY DEF Typed, WritesTyped, Writes
<1>1. UNCHANGED <<putCounter, outstandingPuts, log>>
  BY DEF OnReady, OnDisconnect, putVars, serverVars
<1>2. responses' = <<>>
  BY DEF OnReady, OnDisconnect, Idle, Connected
<1>3. InSequence(responses', a, a)
  BY <1>0, <1>2 DEF InSequence
<1>4. Connected' => InSequence(requests', a, putCounter)
  <2>1. CASE OnDisconnect
    BY <2>1 DEF OnDisconnect, Connected
  <2>2. CASE OnReady
    <3>1. PICK queries \in SetToSeqs(listens) :
            requests' = Restored(queries, InOrder(outstandingPuts), InOrder(outstandingGets \ sentGets))
      BY <2>2 DEF OnReady
    <3>2. queries \in Seq(Queries)
      BY ListensInOrder
    <3>3. InOrder(outstandingGets \ sentGets) \in Seq(Nat)
      BY GetsInOrder
    <3>4. InOrder(outstandingPuts) = [i \in 1..(putCounter - a) |-> a + i]
      <4>1. outstandingPuts = (a + 1)..putCounter
        BY DEF Writes, Window
      <4> QED
        BY <1>0, <4>1, SortedInterval
    <3> QED
      BY <1>0, <3>1, <3>2, <3>3, <3>4, RestoredWrites
  <2> QED
    BY <2>1, <2>2
<1>5. Logged(a, a)'
  BY <1>1, LoggedRewind DEF Logged, Value
<1>6. Window(a, a)'
  BY <1>0, <1>1, <1>3, <1>4 DEF Writes, Window
<1> QED
  BY <1>0, <1>1, <1>5, <1>6 DEF Writes

(* Every step issues a write, delivers the oldest one not delivered,        *)
(* acknowledges the oldest one, starts again from it, or leaves the writes  *)
(* alone.                                                                   *)
LEMMA WritesStep ==
    ASSUME Typed, Idle, NEW a, NEW b, Writes(a, b), Next
    PROVE  \/ putCounter' = putCounter + 1 /\ log' = log /\ Writes(a, b)'
           \/ b < putCounter /\ putCounter' = putCounter /\ log' = Append(log, b + 1) /\ Writes(a, b + 1)'
           \/ a < b /\ putCounter' = putCounter /\ log' = log /\ Writes(a + 1, b)'
           \/ putCounter' = putCounter /\ log' = log /\ (Writes(a, a)' \/ Writes(a, b)')
<1> DEFINE Same == putCounter' = putCounter /\ log' = log /\ Writes(a, b)'
<1>0. /\ requests \in Seq(Request) /\ responses \in Seq(Answer)
      /\ putCounter \in Nat /\ a \in Nat /\ b \in Nat /\ a <= b /\ b <= putCounter
      /\ InSequence(responses, a, b) /\ (Connected => InSequence(requests, b, putCounter))
  BY DEF Typed, WritesTyped, MessagesTyped, Writes, Window
<1>1. ASSUME NEW m \in Request, m.op # "put", Send(<<m>>),
             UNCHANGED <<connectionState, putCounter, outstandingPuts, log, responses>>
      PROVE  Same
  <2>1. requests' = IF Connected THEN Append(requests, m) ELSE requests
    BY <1>1, SentMessage
  <2>2. Connected => InSequence(Append(requests, m), b, putCounter)
    BY <1>0, <1>1, InSequenceAppend
  <2>3. Connected' => InSequence(requests', b, putCounter)
    BY <1>1, <2>1, <2>2 DEF Connected
  <2> QED
    BY <1>0, <1>1, <2>3, SameWrites
<1>2. ASSUME NEW q \in Queries, Listen(q) \/ Unlisten(q) PROVE Same
  <2>1. /\ Msg("listen", q) \in Request /\ Msg("listen", q).op # "put"
        /\ Msg("unlisten", q) \in Request /\ Msg("unlisten", q).op # "put"
    BY DEF Msg, Request
  <2> QED
    BY <1>1, <1>2, <2>1 DEF Listen, Unlisten, putVars, serverVars
<1>3. ASSUME GetData PROVE Same
  <2>1. Msg("get", getCounter') \in Request /\ Msg("get", getCounter').op # "put"
    BY <1>3 DEF GetData, Msg, Request, Typed, GetsTyped
  <2> QED
    BY <1>1, <1>3, <2>1 DEF GetData, putVars, serverVars
<1>4. ASSUME UNCHANGED <<putCounter, outstandingPuts, log, requests, responses>>,
             Connected' => Connected
      PROVE  Same
  BY <1>0, <1>4, SameWrites
<1>5. ASSUME (\E g \in getTimers : GetTimesOut(g)) \/ OpenNetworkConnection PROVE Same
  BY <1>4, <1>5 DEF GetTimesOut, OpenNetworkConnection, Connected, putVars, serverVars
<1>6. ASSUME ServerTakes, ~TakesPut PROVE Same
  <2>1. /\ requests # <<>> /\ requests' = Tail(requests)
        /\ UNCHANGED <<connectionState, putCounter, outstandingPuts>>
    BY <1>6 DEF ServerTakes, putVars
  <2>2. Head(requests).op # "put" /\ log' = log
    BY <1>6, ServerTakesOne DEF TakesListen, TakesUnlisten, TakesGet
  <2>3. Connected /\ InSequence(requests', b, putCounter)
    BY <1>0, <2>1, <2>2, InSequenceTail DEF Idle
  <2>4. InSequence(responses', a, b)
    <3>1. CASE responses' = responses
      BY <1>0, <3>1
    <3>2. CASE TakesGet
      <4> DEFINE r == Response("get", Head(requests).arg, Value)
      <4>0. Head(requests).arg \in 1..getCounter /\ Value \in Nat
        BY <1>0, <3>2, HeadRequest, ValueIs DEF TakesGet, Typed
      <4>1. r \in Answer
        BY <4>0 DEF Response, Answer, Typed, GetsTyped
      <4>2. r.op # "put" /\ responses' = Append(responses, r)
        BY <3>2 DEF TakesGet, Response
      <4> HIDE DEF r
      <4> QED
        BY <1>0, <4>1, <4>2, InSequenceAppend
    <3> QED
      BY <1>6, <3>1, <3>2, ServerTakesOne DEF TakesListen, TakesUnlisten
  <2> QED
    BY <2>1, <2>2, <2>3, <2>4, SameWrites
<1>7. ASSUME ServerLoads PROVE Same
  <2>1. Response("listen", 0, 0) \in Answer /\ Response("listen", 0, 0).op # "put"
    BY DEF Response, Answer
  <2>2. InSequence(responses', a, b)
    BY <1>0, <1>7, <2>1, InSequenceAppend DEF ServerLoads
  <2> QED
    BY <1>0, <1>7, <2>2, SameWrites DEF ServerLoads, putVars, Connected
<1>8. ASSUME OnDataMessage, ~HandlesPut PROVE Same
  <2>1. /\ responses # <<>> /\ responses' = Tail(responses) /\ Head(responses).op # "put"
        /\ UNCHANGED <<connectionState, requests, log, putCounter, outstandingPuts>>
    BY <1>8, OnDataMessageHandles
    DEF HandlesGet, HandlesListen, GetResponse, ListenResponse, putVars, serverVars
  <2>2. InSequence(responses', a, b)
    BY <1>0, <2>1, InSequenceTail
  <2> QED
    BY <1>0, <2>1, <2>2, SameWrites DEF Connected
<1>9. ASSUME ServerTakes, TakesPut
      PROVE  b < putCounter /\ putCounter' = putCounter /\ log' = Append(log, b + 1) /\ Writes(a, b + 1)'
  BY <1>9, DeliverStep DEF ServerTakes
<1>10. ASSUME OnDataMessage, HandlesPut
       PROVE  a < b /\ putCounter' = putCounter /\ log' = log /\ Writes(a + 1, b)'
  BY <1>10, AcknowledgeStep DEF OnDataMessage
<1>11. ASSUME PutData PROVE putCounter' = putCounter + 1 /\ log' = log /\ Writes(a, b)'
  BY <1>11, IssueStep
<1>12. ASSUME OnReady \/ OnDisconnect PROVE putCounter' = putCounter /\ log' = log /\ Writes(a, a)'
  BY <1>12, RewindStep
<1> QED
  BY <1>2, <1>3, <1>5, <1>6, <1>7, <1>8, <1>9, <1>10, <1>11, <1>12 DEF Next

-----------------------------------------------------------------------------
(* The invariant and what follows from it.                                 *)

(* The device starts without a connection.                                  *)
LEMMA ConnectionInit == Init => ConnectionInv
<1> SUFFICES ASSUME Init PROVE ConnectionInv
  OBVIOUS
<1> USE DEF Init
<1>1. Typed
  BY DEF Typed, WritesTyped, GetsTyped, ListensTyped, MessagesTyped, Numbered
<1>2. Idle /\ Listening
  BY DEF Idle, Listening, Connected
<1>3. Counting
  BY CountEmpty DEF Counting
<1>4. Reads
  BY DEF Reads, BeforeIsPast, WritesAfterGet, AnswersRecent, ResultsRecent
<1>5. Writes(0, 0)
  <2>1. InSequence(responses, 0, 0)
    BY DEF InSequence
  <2>2. outstandingPuts = (0 + 1)..putCounter
    OBVIOUS
  <2>3. Logged(0, 0)
    BY DEF Logged, Value
  <2> QED
    BY <2>1, <2>2, <2>3 DEF Writes, Window, Connected
<1> QED
  BY <1>1, <1>2, <1>3, <1>4, <1>5 DEF ConnectionInv

(* Every step keeps the invariant.                                          *)
LEMMA ConnectionStep == ConnectionInv /\ [Next]_vars => ConnectionInv'
<1> SUFFICES ASSUME ConnectionInv, [Next]_vars PROVE ConnectionInv'
  OBVIOUS
<1>1. PICK a \in 0..putCounter, b \in 0..putCounter : Writes(a, b)
  BY DEF ConnectionInv
<1>2. CASE Next
  <2>1. Typed'
    BY <1>2, WritesTypedStep, GetsTypedStep, ListensTypedStep, MessagesTypedStep DEF ConnectionInv, Typed
  <2>2. Idle' /\ Counting' /\ Listening'
    BY <1>2, IdleStep, CountingStep, ListeningStep DEF ConnectionInv
  <2>3. Reads'
    BY <1>1, <1>2, ReadsStep DEF ConnectionInv, Writes
  <2>4. \E x, y : Writes(x, y)'
    BY <1>1, <1>2, WritesStep DEF ConnectionInv
  <2>5. PICK x, y : Writes(x, y)'
    BY <2>4
  <2>6. x \in 0..putCounter' /\ y \in 0..putCounter'
    BY <2>5, <2>1 DEF Writes, Typed, WritesTyped
  <2> QED
    BY <2>1, <2>2, <2>3, <2>5, <2>6 DEF ConnectionInv
<1>3. CASE UNCHANGED vars
  <2> USE <1>3 DEF vars, putVars, getVars, listenVars, serverVars
  <2>1. Typed'
    BY DEF ConnectionInv, Typed, WritesTyped, GetsTyped, ListensTyped, MessagesTyped
  <2>2. Idle' /\ Counting' /\ Listening' /\ Reads'
    BY DEF ConnectionInv, Idle, Counting, Listening, Connected, Reads, BeforeIsPast, ResultsRecent
  <2>3. Writes(a, b)'
    BY <1>1 DEF Writes, Window, Logged, Connected, Value
  <2> QED
    BY <1>1, <2>1, <2>2, <2>3 DEF ConnectionInv
<1> QED
  BY <1>2, <1>3

(* The invariant holds in every state.                                      *)
LEMMA ConnectionInvariant == Spec => []ConnectionInv
<1>1. Init => ConnectionInv
  BY ConnectionInit
<1>2. ConnectionInv /\ [Next]_vars => ConnectionInv'
  BY ConnectionStep
<1> QED
  BY <1>1, <1>2, PTL DEF Spec

(* The state of the connection is well formed in every state; in particular *)
(* unackedListensCount never becomes negative, which sendListen: asserts.   *)
THEOREM ConnectionTypes == Spec => []TypeOK
<1>1. ConnectionInv => TypeOK
  <2> SUFFICES ASSUME ConnectionInv PROVE TypeOK
    OBVIOUS
  <2>1. Typed
    BY DEF ConnectionInv
  <2>2. unackedListensCount \in Nat
    <3>1. requests \in Seq(Request) /\ responses \in Seq(Answer) /\ loading \in Nat
      BY <2>1 DEF Typed, MessagesTyped, ListensTyped
    <3>2. Count(requests, "listen") \in Nat /\ Count(responses, "listen") \in Nat
      BY <3>1, CountType
    <3> QED
      BY <3>1, <3>2 DEF ConnectionInv, Counting
  <2>3. \A i \in 1..Len(requests) : requests[i].op \in {"listen", "unlisten", "put", "get"}
    <3>1. \A i \in 1..Len(requests) : requests[i] \in Request
      BY <2>1 DEF Typed, MessagesTyped
    <3> QED
      BY <3>1 DEF Request
  <2>4. \A i \in 1..Len(responses) : responses[i].op \in {"listen", "put", "get"}
    <3>1. \A i \in 1..Len(responses) : responses[i] \in Answer
      BY <2>1 DEF Typed, MessagesTyped
    <3> QED
      BY <3>1 DEF Answer
  <2>5. Range(log) \subseteq 1..putCounter /\ Range(putsToAck) \subseteq 1..putCounter
    BY <2>1 DEF Typed, WritesTyped, Range
  <2> QED
    BY <2>1, <2>2, <2>3, <2>4, <2>5
    DEF TypeOK, Typed, WritesTyped, GetsTyped, ListensTyped, MessagesTyped
<1> QED
  BY <1>1, ConnectionInvariant, PTL

(* Once the server has taken the requests of a connection, it pushes what   *)
(* the device listens to, no less and no more, whatever connections were    *)
(* lost before.                                                             *)
THEOREM RestoredListens == Spec => []ListensRestored
<1>1. ConnectionInv => ListensRestored
  <2> SUFFICES ASSUME ConnectionInv, Connected, requests = <<>> PROVE serverListens = listens
    BY DEF ListensRestored
  <2>1. listens \subseteq Queries /\ serverListens \subseteq Queries
    BY DEF ConnectionInv, Typed, ListensTyped
  <2>2. ASSUME NEW q \in Queries PROVE q \in serverListens <=> q \in listens
    <3>1. Heard(requests, q, q \in serverListens, q \in listens)
      BY DEF ConnectionInv, Listening
    <3>2. ~Settled(requests, q, q \in listens)
      BY DEF Settled
    <3> QED
      BY <3>1, <3>2 DEF Heard
  <2> QED
    BY <2>1, <2>2
<1> QED
  BY <1>1, ConnectionInvariant, PTL

(* A write that an older one overwrote after a lost connection is           *)
(* outstanding or was written again.                                        *)
THEOREM NewestWriteStands == Spec => []NewerWriteWins
<1>1. ConnectionInv => NewerWriteWins
  <2> SUFFICES ASSUME ConnectionInv, NEW i \in 1..Len(log), NEW j \in 1..Len(log), i < j, log[j] < log[i]
               PROVE  log[i] \in outstandingPuts \/ \E k \in (j + 1)..Len(log) : log[k] = log[i]
    BY DEF NewerWriteWins
  <2>1. PICK a \in 0..putCounter, b \in 0..putCounter : Writes(a, b)
    BY DEF ConnectionInv
  <2>2. log[i] \in 1..putCounter /\ putCounter \in Nat
    BY DEF ConnectionInv, Typed, WritesTyped
  <2>3. log[i] > a \/ \E k \in (j + 1)..Len(log) : log[k] = log[i]
    BY <2>1 DEF Writes, Logged
  <2>4. log[i] > a => log[i] \in (a + 1)..putCounter
    BY <2>2
  <2> QED
    BY <2>1, <2>3, <2>4 DEF Writes, Window
<1> QED
  BY <1>1, ConnectionInvariant, PTL

(* A get completes at most once, and with a value as new as the writes made *)
(* before it.                                                               *)
THEOREM GetsSeeEarlierWrites == Spec => []GetSeesEarlierWrites
<1>1. ConnectionInv => GetSeesEarlierWrites
  BY DEF ConnectionInv, Reads, ResultsRecent, GetSeesEarlierWrites
<1> QED
  BY <1>1, ConnectionInvariant, PTL

(* The refinement mapping of Connection to WriteChannel.                   *)
Queue == InOrder(outstandingPuts)

Delivered == Cardinality({i \in 1..Len(responses) : responses[i].op = "put"})

(* The window of the writes in terms of the channel.                        *)
LEMMA ChannelState ==
    ASSUME Typed, NEW a, NEW b, Writes(a, b)
    PROVE  /\ a \in Nat /\ b \in Nat /\ a <= b /\ b <= putCounter /\ putCounter \in Nat
           /\ Queue = [i \in 1..(putCounter - a) |-> a + i]
           /\ Delivered = b - a
<1>1. /\ a \in Nat /\ b \in Nat /\ a <= b /\ b <= putCounter /\ putCounter \in Nat
      /\ outstandingPuts = (a + 1)..putCounter /\ InSequence(responses, a, b)
      /\ responses \in Seq(Answer) /\ a <= putCounter
  BY DEF Writes, Window, Typed, WritesTyped, MessagesTyped
<1>2. Queue = [i \in 1..(putCounter - a) |-> a + i]
  BY <1>1, SortedInterval DEF Queue
<1>3. Delivered = b - a
  BY <1>1, CountedWrites DEF Delivered
<1> QED
  BY <1>1, <1>2, <1>3

(* The writes of a connection implement WriteChannel: they reach the server *)
(* in order, at least once, and again from the oldest one without a response *)
(* after a lost connection.                                                 *)
THEOREM ImplementsChannel == Spec => WritesAreAChannel
<1>1. Init => Channel!ChannelInit
  <2> SUFFICES ASSUME Init PROVE Channel!ChannelInit
    OBVIOUS
  <2>1. ConnectionInv
    BY ConnectionInit
  <2>2. Writes(0, 0)
    <3>1. PICK a \in 0..putCounter, b \in 0..putCounter : Writes(a, b)
      BY <2>1 DEF ConnectionInv
    <3>2. a = 0 /\ b = 0
      BY DEF Init
    <3> QED
      BY <3>1, <3>2
  <2>3. /\ Queue = [i \in 1..(putCounter - 0) |-> 0 + i] /\ Delivered = 0 - 0
    BY <2>1, <2>2, ChannelState DEF ConnectionInv
  <2>4. Queue = <<>> /\ Delivered = 0
    BY <2>3 DEF Init
  <2> QED
    BY <2>4 DEF Init, Channel!ChannelInit, Queue, Delivered
<1>2. ConnectionInv /\ ConnectionInv' /\ [Next]_vars => [Channel!ChannelNext]_(Channel!channelVars)
  <2> SUFFICES ASSUME ConnectionInv, ConnectionInv', [Next]_vars
               PROVE  [Channel!ChannelNext]_(Channel!channelVars)
    OBVIOUS
  <2>0. Typed /\ Idle /\ Typed'
    BY DEF ConnectionInv
  <2>1. PICK a \in 0..putCounter, b \in 0..putCounter : Writes(a, b)
    BY DEF ConnectionInv
  <2>2. /\ a \in Nat /\ b \in Nat /\ a <= b /\ b <= putCounter /\ putCounter \in Nat
        /\ Queue = [i \in 1..(putCounter - a) |-> a + i]
        /\ Delivered = b - a
    BY <2>0, <2>1, ChannelState
  <2>3. ASSUME NEW x, NEW y, Writes(x, y)'
        PROVE  /\ x \in Nat /\ y \in Nat /\ x <= y /\ y <= putCounter' /\ putCounter' \in Nat
               /\ Queue' = [i \in 1..(putCounter' - x) |-> x + i]
               /\ Delivered' = y - x
    <3>1. /\ x \in Nat /\ y \in Nat /\ x <= y /\ y <= putCounter' /\ putCounter' \in Nat
          /\ outstandingPuts' = (x + 1)..putCounter' /\ InSequence(responses', x, y)
          /\ responses' \in Seq(Answer) /\ x <= putCounter'
      BY <2>0, <2>3 DEF Writes, Window, Typed, WritesTyped, MessagesTyped
    <3>2. Queue' = [i \in 1..(putCounter' - x) |-> x + i]
      BY <3>1, SortedInterval DEF Queue
    <3>3. Delivered' = y - x
      BY <3>1, CountedWrites DEF Delivered
    <3> QED
      BY <3>1, <3>2, <3>3
  <2>4. ASSUME putCounter' = putCounter + 1, log' = log, Writes(a, b)' PROVE Channel!Issue
    <3>1. Delivered' = Delivered /\ Queue' = [i \in 1..(putCounter + 1 - a) |-> a + i]
      <4>1. Delivered' = b - a /\ Queue' = [i \in 1..(putCounter' - a) |-> a + i]
        BY <2>3, <2>4
      <4> QED
        BY <2>2, <2>4, <4>1
    <3>2. Append(Queue, putCounter + 1) = [i \in 1..(putCounter + 1 - a) |-> a + i]
      BY <2>2
    <3> QED
      BY <2>4, <3>1, <3>2 DEF Channel!Issue, Queue, Delivered
  <2>5. ASSUME b < putCounter, putCounter' = putCounter, log' = Append(log, b + 1), Writes(a, b + 1)'
        PROVE  Channel!Deliver
    <3>1. Delivered' = Delivered + 1 /\ Queue' = Queue
      <4>1. Delivered' = (b + 1) - a /\ Queue' = [i \in 1..(putCounter' - a) |-> a + i]
        BY <2>3, <2>5
      <4> QED
        BY <2>2, <2>5, <4>1
    <3>2. Len(Queue) = putCounter - a /\ Delivered < Len(Queue) /\ Queue[Delivered + 1] = b + 1
      <4>1. Len(Queue) = putCounter - a
        BY <2>2
      <4>2. b - a + 1 \in 1..(putCounter - a)
        BY <2>2, <2>5
      <4> QED
        BY <2>2, <2>5, <4>1, <4>2
    <3> QED
      BY <2>5, <3>1, <3>2 DEF Channel!Deliver, Queue, Delivered
  <2>6. ASSUME a < b, putCounter' = putCounter, log' = log, Writes(a + 1, b)' PROVE Channel!Acknowledge
    <3>1. Delivered' = Delivered - 1 /\ Delivered > 0
      BY <2>2, <2>3, <2>6
    <3>2. Queue' = [i \in 1..(putCounter - (a + 1)) |-> (a + 1) + i]
      BY <2>3, <2>6
    <3>3. Queue' = Tail(Queue)
      <4>1. Queue \in Seq(Nat) /\ Queue # <<>> /\ Len(Queue) = putCounter - a
        BY <2>2, <2>6
      <4> DEFINE T == Tail(Queue)
      <4>2. /\ T \in Seq(Nat) /\ Len(T) = putCounter - a - 1
            /\ \A i \in 1..Len(T) : i + 1 \in 1..(putCounter - a) /\ T[i] = Queue[i + 1]
        BY <4>1, TailAre
      <4> HIDE DEF T
      <4>3. \A i \in 1..Len(T) : T[i] = (a + 1) + i
        BY <2>2, <4>2
      <4>4. putCounter - (a + 1) = Len(T)
        BY <2>2, <4>2
      <4>5. T = [i \in 1..(putCounter - (a + 1)) |-> (a + 1) + i]
        BY <4>2, <4>3, <4>4
      <4> QED
        BY <3>2, <4>5 DEF T
    <3> QED
      BY <2>6, <3>1, <3>3 DEF Channel!Acknowledge, Queue, Delivered
  <2>7. ASSUME putCounter' = putCounter, log' = log, Writes(a, a)' PROVE Channel!Rewind
    <3>1. Delivered' = 0 /\ Queue' = Queue
      <4>1. Delivered' = a - a /\ Queue' = [i \in 1..(putCounter' - a) |-> a + i]
        BY <2>3, <2>7
      <4> QED
        BY <2>2, <2>7, <4>1
    <3> QED
      BY <2>7, <3>1 DEF Channel!Rewind, Queue, Delivered
  <2>8. ASSUME putCounter' = putCounter, log' = log, Writes(a, b)' PROVE UNCHANGED Channel!channelVars
    <3>1. Delivered' = Delivered /\ Queue' = Queue
      BY <2>2, <2>3, <2>8
    <3> QED
      BY <2>8, <3>1 DEF Channel!channelVars, Queue, Delivered
  <2>9. CASE Next
    BY <2>0, <2>1, <2>4, <2>5, <2>6, <2>7, <2>8, <2>9, WritesStep DEF Channel!ChannelNext
  <2>10. CASE UNCHANGED vars
    BY <2>10 DEF vars, putVars, serverVars, Channel!channelVars
  <2> QED
    BY <2>9, <2>10
<1>3. QED
  BY <1>1, <1>2, ConnectionInvariant, PTL DEF Spec, WritesAreAChannel, Channel!ChannelSpec

=============================================================================
