--------------------------- MODULE NetworkProofs ----------------------------
(***************************************************************************)
(* Proofs about the three parts that deal with many parties at once: the   *)
(* page's requests to Nostr relays (Relays), the cross-device ceremony     *)
(* (CrossDevice) and the storage pool (PoolStorage).  The three share no   *)
(* state; their names are disjoint so that all can be read here.           *)
(*                                                                         *)
(* The loops of Relays (Merge, Collected) and of the pool's layout         *)
(* (GroupOrder, Members, Placement) are recursive functions, so what they  *)
(* return is proved by induction: WFMin and the well-foundedness of < give *)
(* the lemma Climb, an induction over 0..N for a set, and Loop, that such  *)
(* a loop has a run.                                                       *)
(***************************************************************************)
EXTENDS Relays, CrossDevice, PoolStorage, FiniteSetTheorems, WellFoundedInduction, TLAPS

(***************************************************************************)
(* Induction                                                               *)
(***************************************************************************)

Less == {pair \in Nat \X Nat : pair[1] < pair[2]}

LEMMA LessWellFounded == IsWellFoundedOn(Less, Nat)
  BY NatLessThanWellFounded DEF OpToRel, Less

(* Every set of numbers that is not empty has a least one.                 *)
LEMMA LeastNumber ==
  ASSUME NEW T, T \subseteq Nat, T # {}
  PROVE  \E x \in T : \A y \in T : x <= y
  <1>1. \E x \in T : \A y \in T : ~ (<<y, x>> \in Less)
    BY LessWellFounded, WFMin
  <1>2. \A x, y \in Nat : <<y, x>> \in Less <=> y < x
    BY DEF Less
  <1>3. PICK x \in T : \A y \in T : ~ (<<y, x>> \in Less)
    BY <1>1
  <1>4. \A y \in T : ~(y < x)
    BY <1>2, <1>3
  <1> QED BY <1>3, <1>4

(* Induction over 0..N for a set: the form the provers can use.            *)
LEMMA Climb ==
  ASSUME NEW S, NEW N \in Nat, 0 \in S, \A n \in 0..N : n \in S /\ n < N => n + 1 \in S
  PROVE  0..N \subseteq S
  <1> DEFINE T == {n \in 0..N : n \notin S}
  <1>1. SUFFICES ASSUME T # {} PROVE FALSE
    OBVIOUS
  <1>2. PICK x \in T : \A y \in T : x <= y
    <2>1. T \subseteq Nat /\ T # {}
      BY <1>1
    <2> HIDE DEF T
    <2> QED BY <2>1, LeastNumber
  <1>3. x # 0 /\ x - 1 \in 0..N
    BY <1>2
  <1>4. x - 1 \notin T
    BY <1>2, <1>3
  <1> QED BY <1>2, <1>3, <1>4

(* g is the run of a loop over 1..N of which F[i] is turn i.               *)
IsRun(g, V, start, N, F) == g \in [0..N -> V] /\ g[0] = start /\ \A i \in 1..N : g[i] = F[i][g[i - 1]]

LEMMA Loop ==
  ASSUME NEW V, NEW start \in V, NEW N \in Nat, NEW F \in [1..N -> [V -> V]]
  PROVE  \E g : IsRun(g, V, start, N, F)
  <1> DEFINE S == {n \in 0..N : \E g \in [0..n -> V] : g[0] = start /\ \A i \in 1..n : g[i] = F[i][g[i - 1]]}
  <1>1. 0 \in S
    <2> DEFINE g == [i \in 0..0 |-> start]
    <2>1. g \in [0..0 -> V] /\ g[0] = start /\ \A i \in 1..0 : g[i] = F[i][g[i - 1]]
      OBVIOUS
    <2> HIDE DEF g
    <2> QED BY <2>1
  <1>2. ASSUME NEW n \in 0..N, n \in S, n < N PROVE n + 1 \in S
    <2>1. PICK g \in [0..n -> V] : g[0] = start /\ \A i \in 1..n : g[i] = F[i][g[i - 1]]
      BY <1>2
    <2> DEFINE h == [i \in 0..(n + 1) |-> IF i = n + 1 THEN F[n + 1][g[n]] ELSE g[i]]
    <2>2. g[n] \in V /\ n + 1 \in 1..N
      BY <1>2, <2>1
    <2>3. F[n + 1][g[n]] \in V
      BY <2>2
    <2>4. h \in [0..(n + 1) -> V] /\ h[0] = start
      BY <2>1, <2>3
    <2>5. ASSUME NEW i \in 1..(n + 1) PROVE h[i] = F[i][h[i - 1]]
      <3>1. CASE i = n + 1
        <4>1. i - 1 = n /\ i - 1 \in 0..(n + 1) /\ i - 1 # n + 1
          BY <1>2, <3>1
        <4> QED BY <3>1, <4>1
      <3>2. CASE i # n + 1
        <4>1. i \in 1..n /\ i - 1 \in 0..(n + 1) /\ i - 1 # n + 1
          BY <1>2, <3>2
        <4>2. h[i] = g[i] /\ h[i - 1] = g[i - 1]
          BY <3>2, <4>1
        <4> QED BY <2>1, <4>1, <4>2
      <3> QED BY <3>1, <3>2
    <2> HIDE DEF h
    <2> QED BY <2>2, <2>4, <2>5
  <1> HIDE DEF S
  <1>3. 0..N \subseteq S
    BY <1>1, <1>2, Climb
  <1>4. N \in S
    BY <1>3
  <1> QED BY <1>4 DEF S, IsRun

(* The largest of finitely many numbers.                                   *)
LEMMA Largest ==
  ASSUME NEW T, T \subseteq Nat, T # {}, IsFiniteSet(T)
  PROVE  \E x \in T : \A y \in T : y <= x
  <1>0. PICK n \in Nat : ExistsBijection(1..n, T)
    BY FS_NatBijection
  <1>1. PICK f : f \in Bijection(1..n, T)
    BY <1>0 DEF ExistsBijection
  <1>2. f \in [1..n -> T] /\ \A y \in T : \E i \in 1..n : f[i] = y
    BY <1>1 DEF Bijection, Injection, Surjection
  <1> DEFINE S == {k \in 0..n : k = 0 \/ \E x \in T : \A i \in 1..k : f[i] <= x}
  <1>3. 0 \in S
    OBVIOUS
  <1>4. ASSUME NEW k \in 0..n, k \in S, k < n PROVE k + 1 \in S
    <2>1. k + 1 \in 1..n /\ f[k + 1] \in T /\ f[k + 1] \in Nat
      <3>1. k + 1 \in 1..n
        BY <1>4
      <3> QED BY <1>2, <3>1
    <2>4. \A i \in 1..(k + 1) : f[i] \in Nat
      <3>1. \A i \in 1..(k + 1) : i \in 1..n
        BY <1>4
      <3>2. \A i \in 1..n : f[i] \in T
        BY <1>2
      <3> QED BY <3>1, <3>2
    <2>2. CASE k = 0
      <3>1. \A i \in 1..(k + 1) : i = k + 1
        BY <2>2
      <3>2. \A i \in 1..(k + 1) : f[i] <= f[k + 1]
        BY <2>1, <3>1
      <3> QED BY <2>1, <3>2
    <2>3. CASE k # 0
      <3>1. PICK x \in T : \A i \in 1..k : f[i] <= x
        BY <1>4, <2>3
      <3>2. \E z \in T : x <= z /\ f[k + 1] <= z
        <4>1. x \in Nat /\ f[k + 1] \in Nat
          BY <2>1
        <4>2. CASE x <= f[k + 1]
          BY <2>1, <4>1, <4>2
        <4>3. CASE ~(x <= f[k + 1])
          BY <3>1, <4>1, <4>3
        <4> QED BY <4>2, <4>3
      <3>3. PICK z \in T : x <= z /\ f[k + 1] <= z
        BY <3>2
      <3>4. \A i \in 1..(k + 1) : f[i] <= z
        <4>1. x \in Nat /\ z \in Nat
          BY <3>1, <3>3
        <4>2. \A i \in 1..(k + 1) : i \in 1..k \/ i = k + 1
          BY <1>4
        <4> QED BY <2>4, <3>1, <3>3, <4>1, <4>2
      <3> QED BY <2>1, <3>3, <3>4
    <2> QED BY <2>2, <2>3
  <1> HIDE DEF S
  <1>5. 0..n \subseteq S
    BY <1>3, <1>4, Climb
  <1>6. n \in S
    BY <1>5
  <1>7. n # 0
    <2>1. ASSUME n = 0 PROVE FALSE
      <3>1. 1..n = {}
        BY <2>1
      <3> QED BY <3>1, <1>2
    <2> QED BY <2>1
  <1>8. PICK x \in T : \A i \in 1..n : f[i] <= x
    BY <1>6, <1>7 DEF S
  <1> QED BY <1>2, <1>8

(***************************************************************************)
(* The merge                                                               *)
(***************************************************************************)

(* x is at least as late as d in the replacement order.                    *)
Covers(x, d) == d.at < x.at \/ (d.at = x.at /\ x.id <= d.id)

Records == [Authors -> Events \cup {None}]

(* Each author's entry is the author's own.                                *)
OwnEntries(map) == \A a \in Authors : map[a] # None => map[a].author = a

LEMMA EventFields == \A e \in Events : e.at \in Nat /\ e.id \in Nat /\ e.author \in Authors /\ e # None
  BY RelaysAssumption DEF Authors

LEMMA CoversOrder ==
  /\ \A x \in Events : Covers(x, x)
  /\ \A x, y, z \in Events : Covers(x, y) /\ Covers(y, z) => Covers(x, z)
  /\ \A x, y \in Events : Newer(x, y) => Covers(x, y)
  /\ \A x, y \in Events : ~Newer(x, y) => Covers(y, x)
  BY EventFields DEF Covers, Newer

(* One turn of the loop.                                                   *)
Turn(before, e) == IF Newer(e, before[e.author]) THEN [before EXCEPT ![e.author] = e] ELSE before

LEMMA TurnTyped ==
  ASSUME NEW before \in Records, NEW e \in Events
  PROVE  Turn(before, e) \in Records
  BY EventFields DEF Turn, Records

(* The loop, turn by turn.                                                 *)
LEMMA MergeLoop ==
  ASSUME NEW known \in Records, NEW feed \in Seq(Events)
  PROVE  \E map \in [0..Len(feed) -> Records] :
           /\ map[0] = known /\ \A i \in 1..Len(feed) : map[i] = Turn(map[i - 1], feed[i])
           /\ Merge(known, feed) = map[Len(feed)]
  <1> DEFINE N == Len(feed)
             F == [i \in 1..N |-> [map \in Records |-> Turn(map, feed[i])]]
             Runs(map) == map = [i \in 0..N |-> IF i = 0 THEN known
                                              ELSE IF Newer(feed[i], map[i - 1][feed[i].author])
                                                   THEN [map[i - 1] EXCEPT ![feed[i].author] = feed[i]]
                                                   ELSE map[i - 1]]
  <1>1. N \in Nat /\ \A i \in 1..N : feed[i] \in Events
    OBVIOUS
  <1>2. F \in [1..N -> [Records -> Records]]
    BY <1>1, TurnTyped
  <1>3. PICK g \in [0..N -> Records] : g[0] = known /\ \A i \in 1..N : g[i] = F[i][g[i - 1]]
    <2>1. known \in Records
      OBVIOUS
    <2>2. \E g : IsRun(g, Records, known, N, F)
      <3> HIDE DEF F, N
      <3> QED BY <1>1, <1>2, <2>1, Loop
    <2> QED BY <2>2 DEF IsRun
  <1>4. \A i \in 1..N : g[i] = Turn(g[i - 1], feed[i])
    <2>1. \A i \in 1..N : i - 1 \in 0..N /\ g[i - 1] \in Records
      BY <1>1, <1>3
    <2>2. ASSUME NEW i \in 1..N PROVE g[i] = Turn(g[i - 1], feed[i])
      <3>1. g[i] = F[i][g[i - 1]] /\ g[i - 1] \in Records
        BY <1>3, <2>1
      <3> QED BY <3>1
    <2> QED BY <2>2
  <1>5. Runs(g)
    <2> DEFINE G == [i \in 0..N |-> IF i = 0 THEN known
                                    ELSE IF Newer(feed[i], g[i - 1][feed[i].author])
                                         THEN [g[i - 1] EXCEPT ![feed[i].author] = feed[i]]
                                         ELSE g[i - 1]]
    <2>1. ASSUME NEW i \in 0..N PROVE g[i] = G[i]
      <3>1. CASE i = 0
        BY <1>3, <3>1
      <3>2. CASE i # 0
        <4>1. i \in 1..N
          BY <1>1, <3>2
        <4>2. g[i] = IF Newer(feed[i], g[i - 1][feed[i].author])
                     THEN [g[i - 1] EXCEPT ![feed[i].author] = feed[i]] ELSE g[i - 1]
          BY <4>1, <1>4 DEF Turn
        <4> QED BY <3>2, <4>2, Zenon
      <3> QED BY <3>1, <3>2
    <2>2. DOMAIN g = 0..N /\ DOMAIN G = 0..N /\ g = [i \in 0..N |-> g[i]] /\ G = [i \in 0..N |-> G[i]]
      BY <1>3
    <2> QED BY <2>1, <2>2
  <1> DEFINE m == CHOOSE map : Runs(map)
  <1>6. Runs(m)
    <2> HIDE DEF Runs
    <2> QED BY <1>5
  <1>7. Merge(known, feed) = m[N]
    BY Zenon DEF Merge
  <1> HIDE DEF m
  <1>8. m[0] = known
    BY <1>1, <1>6
  <1>9. ASSUME NEW i \in 1..N PROVE m[i] = Turn(m[i - 1], feed[i])
    <2>1. i \in 0..N /\ i # 0
      BY <1>1
    <2>2. m[i] = IF Newer(feed[i], m[i - 1][feed[i].author])
                 THEN [m[i - 1] EXCEPT ![feed[i].author] = feed[i]] ELSE m[i - 1]
      BY <1>6, <2>1, Zenon
    <2> QED BY <2>2 DEF Turn
  <1>10. m \in [0..N -> Records]
    <2> DEFINE S == {i \in 0..N : m[i] \in Records}
    <2>1. 0 \in S
      BY <1>1, <1>8
    <2>2. ASSUME NEW n \in 0..N, n \in S, n < N PROVE n + 1 \in S
      <3>1. n + 1 \in 1..N /\ (n + 1) - 1 = n /\ m[n] \in Records
        BY <1>1, <2>2
      <3>2. m[n + 1] = Turn(m[n], feed[n + 1])
        BY <1>9, <3>1
      <3>3. m[n + 1] \in Records
        BY <1>1, <3>1, <3>2, TurnTyped
      <3> QED BY <3>1, <3>3
    <2> HIDE DEF S
    <2>3. 0..N \subseteq S
      BY <1>1, <2>1, <2>2, Climb
    <2>4. \A i \in 0..N : m[i] \in Records
      BY <2>3 DEF S
    <2> QED BY <2>4, <1>6
  <1> QED BY <1>7, <1>8, <1>9, <1>10

(* What the merge returns, whatever the order of the events: each author's *)
(* own entry, from before or among the events, and at least as late as any *)
(* of either.                                                              *)
LEMMA MergeFacts ==
  ASSUME NEW known \in Records, OwnEntries(known), NEW feed \in Seq(Events)
  PROVE  /\ Merge(known, feed) \in Records /\ OwnEntries(Merge(known, feed))
         /\ \A a \in Authors : LET new == Merge(known, feed)[a] IN
              /\ new = known[a] \/ new \in ToSet(feed)
              /\ known[a] # None => new # None /\ Covers(new, known[a])
              /\ \A e \in ToSet(feed) : e.author = a => new # None /\ Covers(new, e)
  <1> DEFINE N == Len(feed)
  <1>1. N \in Nat /\ \A i \in 1..N : feed[i] \in Events
    OBVIOUS
  <1>2. PICK map \in [0..N -> Records] :
          /\ map[0] = known /\ \A i \in 1..N : map[i] = Turn(map[i - 1], feed[i])
          /\ Merge(known, feed) = map[N]
    BY MergeLoop
  <1> DEFINE Good(k) ==
        /\ OwnEntries(map[k])
        /\ \A a \in Authors :
             /\ map[k][a] = known[a] \/ \E i \in 1..k : map[k][a] = feed[i]
             /\ known[a] # None => map[k][a] # None /\ Covers(map[k][a], known[a])
             /\ \A i \in 1..k : feed[i].author = a => map[k][a] # None /\ Covers(map[k][a], feed[i])
      S == {k \in 0..N : Good(k)}
  <1>3. 0 \in S
    <2>1. known \in Records /\ \A a \in Authors : known[a] # None => known[a] \in Events
      BY DEF Records
    <2>2. Good(0)
      BY <1>2, <2>1, CoversOrder
    <2> QED BY <1>1, <2>2
  <1>4. ASSUME NEW k \in 0..N, k \in S, k < N PROVE k + 1 \in S
    <2> DEFINE e == feed[k + 1]
               b == map[k]
               c == map[k + 1]
    <2>1. k + 1 \in 1..N /\ (k + 1) - 1 = k /\ e \in Events /\ e.author \in Authors /\ e # None
      BY <1>1, <1>4, EventFields
    <2>2. b \in Records /\ c \in Records /\ c = Turn(b, e)
      BY <1>1, <1>2, <2>1
    <2>3. \A a \in Authors : (b[a] # None => b[a] \in Events) /\ (known[a] # None => known[a] \in Events)
      BY <2>2 DEF Records
    <2>4. \A a \in Authors : a # e.author => c[a] = b[a]
      BY <2>1, <2>2 DEF Turn, Records
    <2>5. c[e.author] = IF Newer(e, b[e.author]) THEN e ELSE b[e.author]
      BY <2>1, <2>2 DEF Turn, Records
    <2>6. Good(k)
      BY <1>4
    <2>7. \A i \in 1..(k + 1) : i \in 1..k \/ i = k + 1
      BY <1>4
    <2>8. \A i \in 1..k : i \in 1..(k + 1) /\ feed[i] \in Events
      BY <1>1, <1>4
    <2>9. c[e.author] # None /\ c[e.author] \in Events /\ Covers(c[e.author], e)
          /\ (b[e.author] # None => Covers(c[e.author], b[e.author]))
      <3>1. CASE b[e.author] = None
        <4>1. c[e.author] = e
          BY <3>1, <2>5 DEF Newer
        <4> QED BY <3>1, <4>1, <2>1, CoversOrder
      <3>2. CASE b[e.author] # None
        BY <3>2, <2>1, <2>3, <2>5, CoversOrder
      <3> QED BY <3>1, <3>2
    <2> HIDE DEF b, c, e
    <2>10. OwnEntries(c)
      BY <2>1, <2>4, <2>5, <2>6 DEF OwnEntries, b
    <2>11. ASSUME NEW a \in Authors
           PROVE  /\ c[a] = known[a] \/ \E i \in 1..(k + 1) : c[a] = feed[i]
                  /\ known[a] # None => c[a] # None /\ Covers(c[a], known[a])
                  /\ \A i \in 1..(k + 1) : feed[i].author = a => c[a] # None /\ Covers(c[a], feed[i])
      <3>1. CASE a # e.author
        <4>1. c[a] = b[a]
          BY <3>1, <2>4
        <4>2. \A i \in 1..(k + 1) : feed[i].author = a => i \in 1..k
          BY <3>1, <2>7 DEF e
        <4> QED BY <4>1, <4>2, <2>6, <2>8 DEF b
      <3>2. CASE a = e.author
        <4>1. c[a] = e \/ c[a] = b[a]
          BY <3>2, <2>5
        <4>2. c[a] = known[a] \/ \E i \in 1..(k + 1) : c[a] = feed[i]
          <5>1. CASE c[a] = e
            <6>1. k + 1 \in 1..(k + 1)
              BY <1>4
            <6> QED BY <5>1, <6>1 DEF e
          <5>2. CASE c[a] = b[a]
            BY <5>2, <2>6, <2>8 DEF b
          <5> QED BY <4>1, <5>1, <5>2
        <4>3. ASSUME known[a] # None PROVE c[a] # None /\ Covers(c[a], known[a])
          <5>1. b[a] # None /\ Covers(b[a], known[a])
            BY <4>3, <2>6 DEF b
          <5>2. b[a] \in Events /\ known[a] \in Events /\ c[a] \in Events /\ Covers(c[a], b[a])
            BY <3>2, <4>3, <5>1, <2>3, <2>9
          <5> QED BY <3>2, <5>1, <5>2, <2>9, CoversOrder
        <4>4. ASSUME NEW i \in 1..(k + 1), feed[i].author = a PROVE c[a] # None /\ Covers(c[a], feed[i])
          <5>1. CASE i = k + 1
            BY <3>2, <5>1, <2>9 DEF e
          <5>2. CASE i \in 1..k
            <6>1. b[a] # None /\ Covers(b[a], feed[i])
              BY <4>4, <5>2, <2>6 DEF b
            <6>2. b[a] \in Events /\ feed[i] \in Events /\ c[a] \in Events /\ Covers(c[a], b[a])
              BY <3>2, <5>2, <6>1, <2>3, <2>8, <2>9
            <6> QED BY <3>2, <6>1, <6>2, <2>9, CoversOrder
          <5> QED BY <5>1, <5>2, <2>7
        <4> QED BY <4>2, <4>3, <4>4
      <3> QED BY <3>1, <3>2
    <2>12. Good(k + 1)
      BY <2>10, <2>11 DEF c
    <2> HIDE DEF Good
    <2> QED BY <2>1, <2>12
  <1> HIDE DEF S
  <1>5. 0..N \subseteq S
    BY <1>1, <1>3, <1>4, Climb
  <1>6. N \in S
    BY <1>1, <1>5
  <1>7. Good(N)
    BY <1>6 DEF S
  <1>8. map[N] \in Records
    BY <1>1, <1>2
  <1>9. ToSet(feed) = {feed[i] : i \in 1..N}
    BY DEF ToSet
  <1> QED BY <1>2, <1>7, <1>8, <1>9

(***************************************************************************)
(* The answers                                                             *)
(***************************************************************************)

Promises == [Relay -> {"pending", "ok", "failed"}]
GotTyped == DOMAIN got = Relay /\ \A r \in Relay : got[r] \in Seq(Events)

LEMMA RelayPlaces ==
  Len(Relays) \in Nat /\ \A i \in 1..Len(Relays) : Relays[i] \in Relay
  BY RelaysAssumption DEF Relay, Range

LEMMA ConcatTyped ==
  ASSUME NEW S, NEW s \in Seq(S), NEW t \in Seq(S) PROVE s \o t \in Seq(S)
  OBVIOUS

(* What is collected are events.                                           *)
LEMMA CollectedTyped ==
  ASSUME GotTyped, NEW q
  PROVE  Collected(q) \in Seq(Events)
  <1> DEFINE N == Len(Relays)
             V == Seq(Events)
             Add(i) == IF q[Relays[i]] = "ok" THEN got[Relays[i]] ELSE <<>>
             F == [i \in 1..N |-> [s \in V |-> s \o Add(i)]]
             Runs(upto) == upto = [i \in 0..N |-> IF i = 0 THEN <<>>
                              ELSE upto[i - 1] \o (IF q[Relays[i]] = "ok" THEN got[Relays[i]] ELSE <<>>)]
  <1>1. N \in Nat /\ <<>> \in V
    BY RelayPlaces
  <1>2. \A i \in 1..N : Add(i) \in V
    BY RelayPlaces DEF GotTyped
  <1>3. F \in [1..N -> [V -> V]]
    <2> HIDE DEF Add
    <2> QED BY <1>2, ConcatTyped
  <1>4. PICK g : IsRun(g, V, <<>>, N, F)
    <2> HIDE DEF F, N, V
    <2> QED BY <1>1, <1>3, Loop
  <1>5. g \in [0..N -> V] /\ g[0] = <<>> /\ \A i \in 1..N : g[i] = F[i][g[i - 1]]
    BY <1>4 DEF IsRun
  <1>6. ASSUME NEW i \in 1..N PROVE g[i] = g[i - 1] \o Add(i)
    <2>1. i - 1 \in 0..N
      BY <1>1
    <2>2. g[i - 1] \in V /\ g[i] = F[i][g[i - 1]]
      BY <1>5, <2>1
    <2> HIDE DEF Add, V
    <2> QED BY <2>2
  <1>7. Runs(g)
    <2> DEFINE G == [i \in 0..N |-> IF i = 0 THEN <<>>
                       ELSE g[i - 1] \o (IF q[Relays[i]] = "ok" THEN got[Relays[i]] ELSE <<>>)]
    <2>1. ASSUME NEW i \in 0..N PROVE g[i] = G[i]
      <3>1. CASE i = 0
        BY <1>5, <3>1
      <3>2. CASE i # 0
        <4>1. i \in 1..N
          BY <1>1, <3>2
        <4>2. g[i] = g[i - 1] \o (IF q[Relays[i]] = "ok" THEN got[Relays[i]] ELSE <<>>)
          BY <4>1, <1>6
        <4> QED BY <3>2, <4>2, Zenon
      <3> QED BY <3>1, <3>2
    <2>2. DOMAIN g = 0..N /\ DOMAIN G = 0..N /\ g = [i \in 0..N |-> g[i]] /\ G = [i \in 0..N |-> G[i]]
      BY <1>5
    <2> QED BY <2>1, <2>2
  <1> DEFINE m == CHOOSE upto : Runs(upto)
  <1>8. Runs(m)
    <2> HIDE DEF Runs
    <2> QED BY <1>7
  <1>9. Collected(q) = m[N]
    BY Zenon DEF Collected
  <1> HIDE DEF m
  <1>10. m[0] = <<>>
    BY <1>1, <1>8
  <1>11. ASSUME NEW i \in 1..N PROVE m[i] = m[i - 1] \o Add(i)
    <2>1. i \in 0..N /\ i # 0
      BY <1>1
    <2>2. m = [j \in 0..N |-> IF j = 0 THEN <<>>
                ELSE m[j - 1] \o (IF q[Relays[j]] = "ok" THEN got[Relays[j]] ELSE <<>>)]
      BY <1>8
    <2>3. m[i] = IF i = 0 THEN <<>>
                 ELSE m[i - 1] \o (IF q[Relays[i]] = "ok" THEN got[Relays[i]] ELSE <<>>)
      BY <2>1, <2>2, Zenon
    <2> QED BY <2>1, <2>3, Zenon
  <1> DEFINE S == {i \in 0..N : m[i] \in V}
  <1>12. 0 \in S
    <2>1. 0 \in 0..N /\ m[0] \in V
      BY <1>1, <1>10
    <2> QED BY <2>1
  <1>13. ASSUME NEW n \in 0..N, n \in S, n < N PROVE n + 1 \in S
    <2>1. n + 1 \in 1..N /\ n + 1 \in 0..N /\ (n + 1) - 1 = n /\ m[n] \in V
      BY <1>1, <1>13
    <2>2. m[n + 1] = m[n] \o Add(n + 1)
      BY <1>11, <2>1
    <2>3. Add(n + 1) \in V
      BY <1>2, <2>1
    <2> HIDE DEF Add
    <2>4. m[n + 1] \in V
      BY <2>1, <2>2, <2>3, ConcatTyped
    <2> QED BY <2>1, <2>4
  <1> HIDE DEF S
  <1>14. 0..N \subseteq S
    BY <1>1, <1>12, <1>13, Climb
  <1>15. N \in S
    BY <1>1, <1>14
  <1> QED BY <1>9, <1>15 DEF S

LEMMA SetOfSeq ==
  ASSUME NEW s \in Seq(Events) PROVE ToSet(s) \subseteq Events
  BY DEF ToSet

(* What discoverNodes returns: nothing, or origins in the latest lists of  *)
(* trusted keys.                                                           *)
LEMMA RecommendedFacts ==
  ASSUME GotTyped, NEW q, Recommended(q) # None
  PROVE  /\ Recommended(q) \subseteq Nodes
         /\ \A n \in Recommended(q) : \A a \in n.by :
              /\ a \in Trusted
              /\ \E e \in ToSet(Collected(q)) :
                   e.author = a /\ n.origin \in e.origins /\ e.at <= n.updated /\ IsLatest(e, ToSet(Collected(q)))
  <1> DEFINE nothing == [a \in Authors |-> None]
             feed == Collected(q)
             latest == Merge(nothing, feed)
             lists == {latest[a] : a \in {x \in Trusted \cap Authors : latest[x] # None}}
             With(o) == {e \in lists : o \in e.origins}
             Times(o) == {e.at : e \in With(o)}
             Time(o) == CHOOSE t \in Times(o) : \A e \in With(o) : e.at <= t
  <1>1. feed \in Seq(Events) /\ nothing \in Records /\ OwnEntries(nothing)
    BY CollectedTyped DEF Records, OwnEntries
  <1> HIDE DEF nothing, feed
  <1>2. /\ latest \in Records /\ OwnEntries(latest)
        /\ \A a \in Authors :
             /\ latest[a] # None => latest[a] \in ToSet(feed)
             /\ \A e \in ToSet(feed) : e.author = a => latest[a] # None /\ Covers(latest[a], e)
    <2>1. \A a \in Authors : nothing[a] = None
      BY DEF nothing
    <2> QED BY <1>1, <2>1, MergeFacts
  <1>3. Recommended(q) = {[origin |-> o, by |-> {e.author : e \in With(o)}, updated |-> Time(o)] :
                            o \in UNION {e.origins : e \in lists}}
    BY Zenon DEF Recommended, nothing, feed
  <1> HIDE DEF latest
  <1>4. \A e \in lists : /\ e \in ToSet(feed) /\ e \in Events /\ e.author \in Trusted
                         /\ \A d \in ToSet(feed) : d.author = e.author => Covers(e, d)
    <2> SUFFICES ASSUME NEW a \in Trusted \cap Authors, latest[a] # None
                 PROVE  /\ latest[a] \in ToSet(feed) /\ latest[a] \in Events /\ latest[a].author \in Trusted
                        /\ \A d \in ToSet(feed) : d.author = latest[a].author => Covers(latest[a], d)
      OBVIOUS
    <2> QED BY <1>1, <1>2, SetOfSeq DEF OwnEntries
  <1> HIDE DEF lists
  <1>5. ASSUME NEW o \in UNION {e.origins : e \in lists}
        PROVE  Time(o) \in Times(o) /\ \A e \in With(o) : e.at <= Time(o)
    <2>1. PICK e \in lists : o \in e.origins
      OBVIOUS
    <2>2. e \in With(o) /\ Times(o) # {}
      BY <2>1
    <2>3. Times(o) \subseteq Nat
      BY <1>4, EventFields
    <2>4. IsFiniteSet(Times(o))
      <3>1. IsFiniteSet(With(o))
        <4>1. With(o) \subseteq Events /\ IsFiniteSet(Events)
          BY <1>4, RelaysAssumption
        <4> QED BY <4>1, FS_Subset
      <3> DEFINE f == [d \in With(o) |-> d.at]
      <3> HIDE DEF With
      <3>2. f \in Surjection(With(o), {d.at : d \in With(o)})
        BY DEF Surjection
      <3> HIDE DEF f
      <3>3. IsFiniteSet({d.at : d \in With(o)})
        BY <3>1, <3>2, FS_Surjection
      <3> QED BY <3>3
    <2> DEFINE T == Times(o)
    <2>5. \E t \in T : \A y \in T : y <= t
      <3> HIDE DEF T
      <3>1. T \subseteq Nat /\ T # {} /\ IsFiniteSet(T)
        BY <2>2, <2>3, <2>4 DEF T
      <3> QED BY <3>1, Largest
    <2>6. \E t \in Times(o) : \A d \in With(o) : d.at <= t
      BY <2>5
    <2> QED BY <2>6
  <1>6. Recommended(q) \subseteq Nodes
    <2> SUFFICES ASSUME NEW o \in UNION {e.origins : e \in lists}
                 PROVE  [origin |-> o, by |-> {e.author : e \in With(o)}, updated |-> Time(o)] \in Nodes
      BY <1>3
    <2>1. o \in UNION {e.origins : e \in Events}
      BY <1>4
    <2>2. {e.author : e \in With(o)} \in SUBSET Trusted
      BY <1>4
    <2>3. Time(o) \in {e.at : e \in Events}
      <3>1. Time(o) \in Times(o)
        BY <1>5
      <3> HIDE DEF Time
      <3> QED BY <3>1, <1>4
    <2> HIDE DEF Time, With
    <2> QED BY <2>1, <2>2, <2>3 DEF Nodes
  <1>7. ASSUME NEW n \in Recommended(q), NEW a \in n.by
        PROVE  /\ a \in Trusted
               /\ \E e \in ToSet(feed) :
                    e.author = a /\ n.origin \in e.origins /\ e.at <= n.updated /\ IsLatest(e, ToSet(feed))
    <2>1. PICK o \in UNION {e.origins : e \in lists} :
            n = [origin |-> o, by |-> {e.author : e \in With(o)}, updated |-> Time(o)]
      BY <1>3
    <2>2. n.origin = o /\ n.by = {e.author : e \in With(o)} /\ n.updated = Time(o)
      BY <2>1
    <2>3. PICK e \in With(o) : e.author = a
      BY <2>2
    <2>4. e \in lists /\ o \in e.origins /\ e.at <= Time(o)
      BY <1>5, <2>1, <2>3
    <2>5. IsLatest(e, ToSet(feed))
      BY <1>4, <2>4 DEF IsLatest, Covers
    <2> HIDE DEF Time, With
    <2> QED BY <1>4, <2>2, <2>3, <2>4, <2>5
  <1> QED BY <1>6, <1>7 DEF feed

(***************************************************************************)
(* Every step                                                              *)
(***************************************************************************)

(* A relay that counts as having accepted the event has it.                *)
StoredInv == job = "publish" => \A r \in Relay : promises[r] = "ok" => r \in stored

(* Only a request that has ended was cancelled.                            *)
CancelInv == cancelled => job = None

(* A discovery counts every message it keeps.                              *)
CountInv == \A r \in Relay : Len(got[r]) <= messages[r] /\ messages[r] <= MaxMessages

RelInv ==
  TypeOK /\ StoredInv /\ CancelInv /\ CountInv
    /\ ReportsAreTrue /\ RecommendsLatest /\ NeverResurrects /\ NothingLeftOpen

LEMMA KindNotNone == \A kind \in Kinds : kind # None
  BY RelaysAssumption

LEMMA GotFromType == ASSUME TypeOK PROVE GotTyped
  BY DEF TypeOK, GotTyped

(* The record of each service is its own.                                  *)
LEMMA OwnRecords ==
  ASSUME TypeOK, NeverResurrects
  PROVE  watermarks \in Records /\ OwnEntries(watermarks)
  <1>1. watermarks \in Records
    BY DEF TypeOK, Records
  <1>2. ASSUME NEW a \in Authors, watermarks[a] # None PROVE watermarks[a].author = a
    BY <1>2 DEF NeverResurrects
  <1> QED BY <1>1, <1>2 DEF OwnEntries

(* The page's records after a service discovery are the latest it ever     *)
(* accepted.                                                               *)
LEMMA AcceptedIsLatest ==
  ASSUME TypeOK, NeverResurrects, NEW q, watermarks' = Accepted(q), seen' = seen \cup ToSet(Collected(q))
  PROVE  NeverResurrects'
  <1> DEFINE C == Collected(q)
             merged == Merge(watermarks, C)
  <1>1. C \in Seq(Events) /\ watermarks \in Records /\ OwnEntries(watermarks)
    BY GotFromType, CollectedTyped, OwnRecords
  <1> HIDE DEF C
  <1>2. /\ OwnEntries(merged)
        /\ \A a \in Authors :
             /\ merged[a] # None => merged[a] = watermarks[a] \/ merged[a] \in ToSet(C)
             /\ watermarks[a] # None => merged[a] # None /\ Covers(merged[a], watermarks[a])
             /\ \A e \in ToSet(C) : e.author = a => merged[a] # None /\ Covers(merged[a], e)
        /\ merged \in Records
    BY <1>1, MergeFacts
  <1>3. watermarks' = merged /\ seen' = seen \cup ToSet(C) /\ ToSet(C) \subseteq Events /\ seen \subseteq Events
    BY <1>1, SetOfSeq DEF Accepted, C, TypeOK
  <1> HIDE DEF merged
  <1>4. ASSUME NEW a \in Authors
        PROVE  LET known == {e \in seen' : e.author = a}
               IN  IF known = {} THEN watermarks'[a] = None
                   ELSE watermarks'[a] \in known /\ IsLatest(watermarks'[a], known)
    <2> DEFINE before == {e \in seen : e.author = a}
               after == {e \in seen' : e.author = a}
    <2>1. IF before = {} THEN watermarks[a] = None
          ELSE watermarks[a] \in before /\ IsLatest(watermarks[a], before)
      BY DEF NeverResurrects
    <2>2. merged[a] # None => merged[a] \in after
      <3>1. ASSUME merged[a] # None, merged[a] = watermarks[a] PROVE merged[a] \in after
        BY <1>3, <2>1, <3>1
      <3>2. ASSUME merged[a] # None, merged[a] \in ToSet(C) PROVE merged[a] \in after
        BY <1>2, <1>3, <3>2 DEF OwnEntries
      <3> QED BY <1>2, <3>1, <3>2
    <2>3. ASSUME NEW e \in after PROVE merged[a] # None /\ Covers(merged[a], e)
      <3>1. CASE e \in ToSet(C)
        BY <1>2, <3>1
      <3>2. CASE e \in before
        <4>1. watermarks[a] \in before /\ IsLatest(watermarks[a], before) /\ e.author = a
          BY <2>1, <3>2
        <4>2. watermarks[a] \in Events /\ watermarks[a] # None /\ watermarks[a].author = a
          BY <4>1, <1>3, EventFields
        <4>3. Covers(watermarks[a], e)
          BY <4>1, <4>2, <3>2 DEF IsLatest, Covers
        <4>4. merged[a] # None /\ Covers(merged[a], watermarks[a])
          BY <1>2, <4>2
        <4>5. merged[a] \in Events /\ e \in Events
          BY <4>4, <1>2, <1>3, <3>2 DEF Records
        <4> QED BY <4>2, <4>3, <4>4, <4>5, CoversOrder
      <3> QED BY <1>3, <3>1, <3>2
    <2>4. CASE after = {}
      BY <2>2, <2>4, <1>3
    <2>5. CASE after # {}
      <3>1. merged[a] \in after
        BY <2>2, <2>3, <2>5
      <3>2. IsLatest(merged[a], after)
        BY <2>3 DEF IsLatest, Covers
      <3> QED BY <3>1, <3>2, <2>5, <1>3
    <2> QED BY <2>4, <2>5
  <1> QED BY <1>4 DEF NeverResurrects

(* What a request that ends returns, and the records it leaves.            *)
LEMMA ReturnsStep ==
  ASSUME RelInv, job \in Kinds, NEW q \in Promises, Decided(q),
         job = "publish" => \A r \in Relay : q[r] = "ok" => r \in stored,
         Returns(q), stored' = stored
  PROVE  /\ ResultType' /\ ReportsAreTrue' /\ RecommendsLatest' /\ NeverResurrects'
         /\ watermarks' \in [Authors -> Events \cup {None}]
         /\ Cardinality({a \in Authors : watermarks'[a] # None}) <= MaxRecords
         /\ seen' \subseteq Events
  <1> DEFINE oks == {r \in Relay : q[r] = "ok"}
  <1>1. /\ watermarks \in [Authors -> Events \cup {None}]
        /\ Cardinality({a \in Authors : watermarks[a] # None}) <= MaxRecords
        /\ seen \subseteq Events /\ GotTyped /\ Collected(q) \in Seq(Events)
        /\ ToSet(Collected(q)) \subseteq Events
    BY GotFromType, CollectedTyped, SetOfSeq DEF RelInv, TypeOK
  <1>2. ASSUME UNCHANGED <<watermarks, seen>>
        PROVE  /\ NeverResurrects' /\ watermarks' \in [Authors -> Events \cup {None}]
               /\ Cardinality({a \in Authors : watermarks'[a] # None}) <= MaxRecords
               /\ seen' \subseteq Events
    BY <1>1, <1>2 DEF RelInv, NeverResurrects
  <1>3. ASSUME result' = None PROVE ResultType' /\ ReportsAreTrue' /\ RecommendsLatest'
    BY <1>3 DEF ResultType, ReportsAreTrue, RecommendsLatest, Settled
  <1>4. ASSUME NEW value, NEW from, Is(value, from)
        PROVE  \/ result' = None
               \/ result' = [of |-> job, value |-> value, from |-> from] /\ value # None
    BY <1>4 DEF Is
  <1>5. CASE job = "publish"
    <2>1. Is(q, {}) /\ UNCHANGED <<watermarks, seen>>
      BY <1>5 DEF Returns
    <2>2. CASE result' = [of |-> "publish", value |-> q, from |-> {}]
      <3>1. result'.of = "publish" /\ result'.value = q
        BY <2>2
      <3>2. q \in [Relay -> {"ok", "failed"}]
        <4>1. \A r \in Relay : q[r] # "pending"
          BY <1>5 DEF Decided
        <4> QED BY <4>1 DEF Promises
      <3> QED BY <1>2, <1>5, <2>1, <3>1, <3>2 DEF ResultType, ReportsAreTrue, RecommendsLatest, Settled
    <2> QED BY <1>2, <1>3, <1>4, <1>5, <2>1, <2>2
  <1>6. CASE job = "lookup"
    <2>1. Is(IF oks = {} THEN None ELSE Wanted, {}) /\ UNCHANGED <<watermarks, seen>>
      BY <1>6 DEF Returns
    <2>2. result' = None \/ result' = [of |-> "lookup", value |-> Wanted, from |-> {}]
      BY <1>6, <2>1 DEF Is
    <2>3. CASE result' = [of |-> "lookup", value |-> Wanted, from |-> {}]
      <3>1. result'.of = "lookup" /\ result'.value \in Events
        BY <2>3, RelaysAssumption
      <3> QED BY <1>2, <2>1, <3>1 DEF ResultType, ReportsAreTrue, RecommendsLatest, Settled
    <2> QED BY <1>2, <1>3, <2>1, <2>2, <2>3
  <1>7. CASE job = "nodes"
    <2> DEFINE value == IF Cancelled \/ oks = {} THEN None ELSE Recommended(q)
    <2>1. Is(value, ToSet(Collected(q))) /\ UNCHANGED <<watermarks, seen>>
      BY <1>7 DEF Returns
    <2>2. \/ result' = None
          \/ /\ Recommended(q) # None
             /\ result' = [of |-> "nodes", value |-> Recommended(q), from |-> ToSet(Collected(q))]
      BY <1>7, <2>1 DEF Is
    <2>3. CASE /\ Recommended(q) # None
               /\ result' = [of |-> "nodes", value |-> Recommended(q), from |-> ToSet(Collected(q))]
      <3>1. result'.of = "nodes" /\ result'.value = Recommended(q) /\ result'.from = ToSet(Collected(q))
        BY <2>3
      <3>2. /\ Recommended(q) \subseteq Nodes
            /\ \A n \in Recommended(q) : \A a \in n.by :
                 /\ a \in Trusted
                 /\ \E e \in ToSet(Collected(q)) :
                      e.author = a /\ n.origin \in e.origins /\ e.at <= n.updated /\ IsLatest(e, ToSet(Collected(q)))
        BY <1>1, <2>3, RecommendedFacts
      <3>3. ResultType' /\ ReportsAreTrue'
        BY <3>1, <3>2 DEF ResultType, ReportsAreTrue, Settled
      <3>4. RecommendsLatest'
        BY <3>1, <3>2 DEF RecommendsLatest, IsLatest
      <3> QED BY <1>2, <2>1, <3>3, <3>4
    <2> QED BY <1>2, <1>3, <2>1, <2>2, <2>3
  <1>8. CASE job = "services"
    <2> DEFINE merged == Accepted(q)
               Fails == Cancelled \/ oks = {} \/ Cardinality(Remembered(merged)) > MaxRecords
    <2>1. \/ Is(None, {}) /\ UNCHANGED <<watermarks, seen>>
          \/ /\ ~(Cardinality(Remembered(merged)) > MaxRecords) /\ watermarks' = merged
             /\ Is({merged[a] : a \in Remembered(merged)}, {})
             /\ seen' = seen \cup ToSet(Collected(q))
      BY <1>8 DEF Returns
    <2>2. CASE Is(None, {}) /\ UNCHANGED <<watermarks, seen>>
      BY <1>2, <1>3, <2>2 DEF Is
    <2>3. CASE /\ ~(Cardinality(Remembered(merged)) > MaxRecords) /\ watermarks' = merged
               /\ Is({merged[a] : a \in Remembered(merged)}, {})
               /\ seen' = seen \cup ToSet(Collected(q))
      <3>1. merged \in [Authors -> Events \cup {None}]
        <4>1. watermarks \in Records /\ OwnEntries(watermarks)
          BY OwnRecords DEF RelInv
        <4>2. Merge(watermarks, Collected(q)) \in Records
          BY <1>1, <4>1, MergeFacts
        <4> QED BY <4>2 DEF Accepted, Records
      <3> HIDE DEF merged
      <3>2. Cardinality({a \in Authors : watermarks'[a] # None}) <= MaxRecords
        <4>1. {a \in Authors : watermarks'[a] # None} = Remembered(merged)
          BY <2>3 DEF Remembered
        <4>2. Cardinality(Remembered(merged)) \in Nat
          <5> DEFINE f == [e \in Events |-> e.author]
          <5>1. f \in Surjection(Events, Authors)
            BY DEF Surjection, Authors
          <5> HIDE DEF f
          <5>2. IsFiniteSet(Authors)
            BY <5>1, RelaysAssumption, FS_Surjection
          <5>3. IsFiniteSet(Remembered(merged))
            <6>1. Remembered(merged) \subseteq Authors
              BY DEF Remembered
            <6> QED BY <5>2, <6>1, FS_Subset
          <5> QED BY <5>3, FS_CardinalityType
        <4>3. Cardinality(Remembered(merged)) <= MaxRecords
          <5> DEFINE c == Cardinality(Remembered(merged))
          <5>1. c \in Nat /\ ~(c > MaxRecords) /\ MaxRecords \in Nat
            BY <2>3, <4>2, RelaysAssumption
          <5> HIDE DEF c
          <5>2. c <= MaxRecords
            BY <5>1
          <5> QED BY <5>2 DEF c
        <4> QED BY <4>1, <4>3
      <3>3. NeverResurrects'
        BY <2>3, AcceptedIsLatest DEF RelInv, merged
      <3>4. {merged[a] : a \in Remembered(merged)} \subseteq Events
        BY <3>1 DEF Remembered
      <3>5. ResultType' /\ ReportsAreTrue' /\ RecommendsLatest'
        <4> DEFINE v == {merged[a] : a \in Remembered(merged)}
        <4>1. result' = None \/ result' = [of |-> "services", value |-> v, from |-> {}]
          BY <1>8, <2>3 DEF Is
        <4> HIDE DEF v
        <4>2. CASE result' = [of |-> "services", value |-> v, from |-> {}]
          <5>1. result'.of = "services" /\ result'.value = v /\ v \subseteq Events
            BY <4>2, <3>4 DEF v
          <5> QED BY <5>1 DEF ResultType, ReportsAreTrue, RecommendsLatest, Settled
        <4> QED BY <1>3, <4>1, <4>2
      <3>6. seen' \subseteq Events
        BY <1>1, <2>3
      <3> QED BY <2>3, <3>1, <3>2, <3>3, <3>5, <3>6
    <2> QED BY <2>1, <2>2, <2>3
  <1> QED BY <1>5, <1>6, <1>7, <1>8 DEF Kinds

(* A step that settles promises.                                           *)
LEMMA SettleStep ==
  ASSUME RelInv, job \in Kinds, NEW q \in Promises, Settle(q), stored' = stored, cancelled' \in BOOLEAN,
         job = "publish" => \A r \in Relay : q[r] = "ok" => r \in stored,
         cancelled' => Decided(q)
  PROVE  RelInv'
  <1> DEFINE final == IF Decided(q) THEN Leftover(q) ELSE q
  <1>1. promises' = final /\ sockets' = [r \in Relay |-> IF final[r] = "pending" THEN sockets[r] ELSE "closed"]
    BY DEF Settle
  <1>2. final \in Promises
    BY DEF Leftover, Promises
  <1> HIDE DEF final
  <1>3. /\ promises' \in [Relay -> {"pending", "ok", "failed"}]
        /\ sockets' \in [Relay -> {"closed", "connecting", "open"}]
    BY <1>1, <1>2 DEF RelInv, TypeOK, Promises
  <1>4. jobs' = jobs /\ asOf' = asOf /\ age' = age
    BY DEF Settle
  <1>5. CASE Decided(q)
    <2>1. /\ job' = None /\ Returns(q)
          /\ got' = [r \in Relay |-> <<>>] /\ messages' = [r \in Relay |-> 0]
      BY <1>5 DEF Settle
    <2>2. /\ ResultType' /\ ReportsAreTrue' /\ RecommendsLatest' /\ NeverResurrects'
          /\ watermarks' \in [Authors -> Events \cup {None}]
          /\ Cardinality({a \in Authors : watermarks'[a] # None}) <= MaxRecords
          /\ seen' \subseteq Events
      BY <1>5, <2>1, ReturnsStep
    <2>3. NothingLeftOpen'
      <3>1. \A r \in Relay : final[r] # "pending"
        BY <1>5 DEF final, Leftover
      <3> QED BY <1>1, <3>1 DEF NothingLeftOpen
    <2>4. StoredInv' /\ CancelInv'
      BY <2>1, KindNotNone DEF StoredInv, CancelInv, Kinds
    <2>5. /\ DOMAIN got' = Relay /\ \A r \in Relay : got'[r] \in Seq(Events) /\ Len(got'[r]) <= MaxMessages
          /\ messages' \in [Relay -> 0..MaxMessages + 1] /\ CountInv'
      <3>1. <<>> \in Seq(Events) /\ Len(<<>>) = 0 /\ 0 <= MaxMessages /\ 0 \in 0..MaxMessages + 1
        BY RelaysAssumption
      <3>2. \A r \in Relay : got'[r] = <<>> /\ messages'[r] = 0
        BY <2>1
      <3> QED BY <2>1, <3>1, <3>2 DEF CountInv
    <2>6. TypeOK'
      BY <1>3, <1>4, <2>1, <2>2, <2>5 DEF RelInv, TypeOK
    <2> QED BY <2>2, <2>3, <2>4, <2>5, <2>6 DEF RelInv
  <1>6. CASE ~Decided(q)
    <2>1. UNCHANGED <<job, result, got, messages, watermarks, seen>> /\ promises' = q
      BY <1>1, <1>6 DEF Settle, final
    <2>2. ~cancelled'
      BY <1>6
    <2>3. NothingLeftOpen' /\ CancelInv'
      BY <2>1, <2>2, KindNotNone DEF NothingLeftOpen, CancelInv
    <2>4. StoredInv'
      BY <2>1 DEF StoredInv
    <2>5. CountInv' /\ ReportsAreTrue' /\ RecommendsLatest' /\ NeverResurrects'
      BY <2>1 DEF RelInv, CountInv, ReportsAreTrue, RecommendsLatest, NeverResurrects, Settled, IsLatest
    <2>6. TypeOK'
      BY <1>3, <1>4, <2>1 DEF RelInv, TypeOK, ResultType
    <2> QED BY <2>3, <2>4, <2>5, <2>6 DEF RelInv
  <1> QED BY <1>5, <1>6

LEMMA SettleOneStep ==
  ASSUME RelInv, NEW r \in Relay, NEW verdict \in {"ok", "failed"}, SettleOne(r, verdict), UNCHANGED stored,
         verdict = "ok" /\ job = "publish" => r \in stored
  PROVE  RelInv'
  <1> DEFINE q == [promises EXCEPT ![r] = verdict]
  <1>1. job \in Kinds /\ ~cancelled /\ cancelled' = cancelled /\ Settle(q)
    BY DEF SettleOne, Pending, RelInv, TypeOK, CancelInv
  <1>2. q \in Promises /\ \A x \in Relay : q[x] = IF x = r THEN verdict ELSE promises[x]
    BY DEF RelInv, TypeOK, Promises
  <1>3. job = "publish" => \A x \in Relay : q[x] = "ok" => x \in stored
    BY <1>2 DEF RelInv, StoredInv
  <1> HIDE DEF q
  <1>4. cancelled' \in BOOLEAN
    BY <1>1 DEF RelInv, TypeOK
  <1> QED BY <1>1, <1>2, <1>3, <1>4, SettleStep

LEMMA AbortStep ==
  ASSUME RelInv, Abort PROVE RelInv'
  <1> DEFINE q == Leftover(promises)
  <1>1. job \in Kinds /\ cancelled' = TRUE /\ Settle(q) /\ stored' = stored
    BY DEF Abort, RelInv, TypeOK
  <1>2. q \in Promises /\ \A x \in Relay : q[x] = IF promises[x] = "pending" THEN "failed" ELSE promises[x]
    BY DEF Leftover, RelInv, TypeOK, Promises
  <1>3. job = "publish" => \A x \in Relay : q[x] = "ok" => x \in stored
    BY <1>2 DEF RelInv, StoredInv
  <1>4. Decided(q)
    BY <1>2 DEF Decided
  <1> HIDE DEF q
  <1> QED BY <1>1, <1>2, <1>3, <1>4, SettleStep

LEMMA BeginStep ==
  ASSUME RelInv, NEW kind \in Kinds, Begin(kind) PROVE RelInv'
  <1>1. /\ job' = kind /\ jobs' = jobs + 1 /\ jobs < MaxJobs
        /\ sockets' = [r \in Relay |-> "connecting"] /\ promises' = [r \in Relay |-> "pending"]
        /\ got' = [r \in Relay |-> <<>>] /\ messages' = [r \in Relay |-> 0]
        /\ asOf' = age /\ result' = None /\ cancelled' = FALSE
        /\ UNCHANGED <<age, watermarks, stored, seen>>
    BY DEF Begin
  <1>2. /\ DOMAIN got' = Relay /\ \A r \in Relay : got'[r] \in Seq(Events) /\ Len(got'[r]) <= MaxMessages
        /\ messages' \in [Relay -> 0..MaxMessages + 1] /\ CountInv'
    <2>1. <<>> \in Seq(Events) /\ Len(<<>>) = 0 /\ 0 <= MaxMessages /\ 0 \in 0..MaxMessages + 1
      BY RelaysAssumption
    <2>2. \A r \in Relay : got'[r] = <<>> /\ messages'[r] = 0
      BY <1>1
    <2> QED BY <1>1, <2>1, <2>2 DEF CountInv
  <1>3. /\ ResultType' /\ ReportsAreTrue' /\ RecommendsLatest' /\ CancelInv' /\ NothingLeftOpen' /\ StoredInv'
    BY <1>1, KindNotNone
    DEF ResultType, ReportsAreTrue, RecommendsLatest, Settled, CancelInv, NothingLeftOpen, StoredInv
  <1>4. NeverResurrects'
    BY <1>1 DEF RelInv, NeverResurrects
  <1>5. asOf' \in 0..MaxAge /\ age' \in asOf'..MaxAge /\ jobs' \in 0..MaxJobs
    BY <1>1, RelaysAssumption DEF RelInv, TypeOK
  <1>6. TypeOK'
    BY <1>1, <1>2, <1>3, <1>5 DEF RelInv, TypeOK
  <1> QED BY <1>2, <1>3, <1>4, <1>6 DEF RelInv

LEMMA OpensStep ==
  ASSUME RelInv, NEW r \in Relay, Opens(r) PROVE RelInv'
  <1>1. /\ job # None /\ sockets' = [sockets EXCEPT ![r] = "open"]
        /\ UNCHANGED <<job, jobs, promises, got, messages, asOf, age, result, watermarks, cancelled, stored, seen>>
    BY DEF Opens, Pending
  <1>2. TypeOK'
    BY <1>1 DEF RelInv, TypeOK, ResultType
  <1>3. StoredInv' /\ CancelInv' /\ CountInv' /\ NothingLeftOpen'
    BY <1>1 DEF RelInv, StoredInv, CancelInv, CountInv, NothingLeftOpen
  <1>4. ReportsAreTrue' /\ RecommendsLatest' /\ NeverResurrects'
    BY <1>1 DEF RelInv, ReportsAreTrue, RecommendsLatest, NeverResurrects, Settled, IsLatest
  <1> QED BY <1>2, <1>3, <1>4 DEF RelInv

LEMMA StoresStep ==
  ASSUME RelInv, NEW r \in Relay, Stores(r) PROVE RelInv'
  <1>1. /\ stored' = stored \cup {r}
        /\ UNCHANGED <<job, jobs, sockets, promises, got, messages, asOf, age, result, watermarks, cancelled, seen>>
    BY DEF Stores, wire
  <1>2. TypeOK'
    BY <1>1 DEF RelInv, TypeOK, ResultType
  <1>3. StoredInv' /\ CancelInv' /\ CountInv' /\ NothingLeftOpen'
    BY <1>1 DEF RelInv, StoredInv, CancelInv, CountInv, NothingLeftOpen
  <1>4. ReportsAreTrue' /\ RecommendsLatest' /\ NeverResurrects'
    BY <1>1 DEF RelInv, ReportsAreTrue, RecommendsLatest, NeverResurrects, Settled, IsLatest
  <1> QED BY <1>2, <1>3, <1>4 DEF RelInv

LEMMA ReceivesStep ==
  ASSUME RelInv, NEW r \in Relay, NEW e \in Events, Receives(r, e) PROVE RelInv'
  <1> DEFINE new == IF Takes(e) THEN Append(got[r], e) ELSE got[r]
  <1>1. /\ job # None /\ messages[r] < MaxMessages
        /\ messages' = [messages EXCEPT ![r] = messages[r] + 1]
        /\ got' = [got EXCEPT ![r] = new]
        /\ UNCHANGED <<job, jobs, sockets, promises, asOf, age, result, watermarks, cancelled, stored, seen>>
    BY DEF Receives, Pending, Room
  <1>2. /\ got[r] \in Seq(Events) /\ Len(got[r]) <= messages[r] /\ messages \in [Relay -> 0..MaxMessages + 1]
        /\ DOMAIN got = Relay /\ MaxMessages \in Nat
    BY RelaysAssumption DEF RelInv, TypeOK, CountInv
  <1>3. Append(got[r], e) \in Seq(Events) /\ Len(Append(got[r], e)) = Len(got[r]) + 1 /\ Len(got[r]) \in Nat
    BY <1>2
  <1>4. new \in Seq(Events) /\ Len(new) <= messages[r] + 1
    BY <1>2, <1>3
  <1> HIDE DEF new
  <1>5. /\ DOMAIN got' = Relay /\ got'[r] = new /\ messages'[r] = messages[r] + 1
        /\ \A x \in Relay : x # r => got'[x] = got[x] /\ messages'[x] = messages[x]
    BY <1>1, <1>2
  <1>6. CountInv' /\ \A x \in Relay : got'[x] \in Seq(Events) /\ Len(got'[x]) <= MaxMessages
    <2> SUFFICES ASSUME NEW x \in Relay
                 PROVE  /\ Len(got'[x]) <= messages'[x] /\ messages'[x] <= MaxMessages
                        /\ got'[x] \in Seq(Events) /\ Len(got'[x]) <= MaxMessages
      BY DEF CountInv
    <2>1. CASE x = r
      <3>1. Len(new) \in Nat /\ messages[r] \in Nat
        BY <1>2, <1>4
      <3> QED BY <1>1, <1>2, <1>4, <1>5, <2>1, <3>1
    <2>2. CASE x # r
      BY <1>5, <2>2 DEF RelInv, TypeOK, CountInv
    <2> QED BY <2>1, <2>2
  <1>7. messages' \in [Relay -> 0..MaxMessages + 1]
    <2>1. messages[r] + 1 \in 0..MaxMessages + 1
      BY <1>1, <1>2
    <2> QED BY <1>1, <1>2, <2>1
  <1>8. TypeOK'
    BY <1>1, <1>5, <1>6, <1>7 DEF RelInv, TypeOK, ResultType
  <1>9. StoredInv' /\ CancelInv' /\ NothingLeftOpen'
    BY <1>1 DEF RelInv, StoredInv, CancelInv, NothingLeftOpen
  <1>10. ReportsAreTrue' /\ RecommendsLatest' /\ NeverResurrects'
    BY <1>1 DEF RelInv, ReportsAreTrue, RecommendsLatest, NeverResurrects, Settled, IsLatest
  <1> QED BY <1>6, <1>8, <1>9, <1>10 DEF RelInv

LEMMA ClockStep ==
  ASSUME RelInv, ClockPasses PROVE RelInv'
  <1>1. /\ age < MaxAge /\ age' = age + 1
        /\ UNCHANGED <<job, jobs, sockets, promises, got, messages, asOf, result, watermarks, cancelled, stored, seen>>
    BY DEF ClockPasses, wire
  <1>2. age' \in asOf'..MaxAge
    BY <1>1, RelaysAssumption DEF RelInv, TypeOK
  <1>3. TypeOK'
    BY <1>1, <1>2 DEF RelInv, TypeOK, ResultType
  <1>4. StoredInv' /\ CancelInv' /\ CountInv' /\ NothingLeftOpen'
    BY <1>1 DEF RelInv, StoredInv, CancelInv, CountInv, NothingLeftOpen
  <1>5. ReportsAreTrue' /\ RecommendsLatest' /\ NeverResurrects'
    BY <1>1 DEF RelInv, ReportsAreTrue, RecommendsLatest, NeverResurrects, Settled, IsLatest
  <1> QED BY <1>3, <1>4, <1>5 DEF RelInv

LEMMA RelStutter ==
  ASSUME RelInv, UNCHANGED vars PROVE RelInv'
  <1>1. UNCHANGED <<job, jobs, sockets, promises, got, messages, asOf, age, result, watermarks, cancelled, stored, seen>>
    BY DEF vars, wire
  <1>2. TypeOK'
    BY <1>1 DEF RelInv, TypeOK, ResultType
  <1>3. StoredInv' /\ CancelInv' /\ CountInv' /\ NothingLeftOpen'
    BY <1>1 DEF RelInv, StoredInv, CancelInv, CountInv, NothingLeftOpen
  <1>4. ReportsAreTrue' /\ RecommendsLatest' /\ NeverResurrects'
    BY <1>1 DEF RelInv, ReportsAreTrue, RecommendsLatest, NeverResurrects, Settled, IsLatest
  <1> QED BY <1>2, <1>3, <1>4 DEF RelInv

LEMMA RelInit ==
  ASSUME Init PROVE RelInv
  <1>1. /\ job = None /\ jobs = 0 /\ sockets = [r \in Relay |-> "closed"] /\ promises = [r \in Relay |-> "failed"]
        /\ got = [r \in Relay |-> <<>>] /\ messages = [r \in Relay |-> 0] /\ asOf = 0 /\ age = 0 /\ result = None
        /\ watermarks = [a \in Authors |-> None] /\ cancelled = FALSE /\ stored = {} /\ seen = {}
    BY DEF Init
  <1>2. /\ DOMAIN got = Relay /\ \A r \in Relay : got[r] \in Seq(Events) /\ Len(got[r]) <= MaxMessages
        /\ messages \in [Relay -> 0..MaxMessages + 1] /\ CountInv
    <2>1. <<>> \in Seq(Events) /\ Len(<<>>) = 0 /\ 0 <= MaxMessages /\ 0 \in 0..MaxMessages + 1
      BY RelaysAssumption
    <2>2. \A r \in Relay : got[r] = <<>> /\ messages[r] = 0
      BY <1>1
    <2> QED BY <1>1, <2>1, <2>2 DEF CountInv
  <1>3. StoredInv /\ CancelInv /\ NothingLeftOpen /\ ResultType /\ ReportsAreTrue /\ RecommendsLatest
    BY <1>1, KindNotNone DEF StoredInv, CancelInv, NothingLeftOpen, ResultType, ReportsAreTrue, RecommendsLatest, Settled
  <1>4. NeverResurrects
    BY <1>1 DEF NeverResurrects
  <1>5. Cardinality({a \in Authors : watermarks[a] # None}) <= MaxRecords
    <2>1. {a \in Authors : watermarks[a] # None} = {}
      BY <1>1
    <2>2. Cardinality({}) = 0
      BY FS_EmptySet, Zenon
    <2>3. 0 <= MaxRecords
      BY RelaysAssumption
    <2> QED BY <2>1, <2>2, <2>3, Zenon
  <1>6. cancelled \in BOOLEAN /\ stored \subseteq Relay /\ seen \subseteq Events /\ job \in Kinds \cup {None}
    BY <1>1, Zenon
  <1>7. jobs \in 0..MaxJobs /\ asOf \in 0..MaxAge /\ age \in asOf..MaxAge
    BY <1>1, RelaysAssumption
  <1>8. /\ sockets \in [Relay -> {"closed", "connecting", "open"}] /\ promises \in [Relay -> {"pending", "ok", "failed"}]
        /\ watermarks \in [Authors -> Events \cup {None}]
    BY <1>1
  <1>9. TypeOK
    BY <1>2, <1>3, <1>5, <1>6, <1>7, <1>8, Zenon DEF TypeOK
  <1> QED BY <1>2, <1>3, <1>4, <1>9 DEF RelInv

LEMMA RelStep ==
  ASSUME RelInv, [Next]_vars PROVE RelInv'
  <1>1. ASSUME NEW r \in Relay, Overflows(r) \/ Refuses(r) \/ Drops(r) \/ TimesOut(r) PROVE RelInv'
    BY <1>1, SettleOneStep DEF Overflows, Refuses, Drops, TimesOut
  <1>2. ASSUME NEW r \in Relay, EndOfStored(r) PROVE RelInv'
    <2> DEFINE verdict == IF job = "lookup" THEN "failed" ELSE "ok"
    <2>1. verdict \in {"ok", "failed"} /\ job # "publish" /\ SettleOne(r, verdict) /\ UNCHANGED stored
      BY <1>2 DEF EndOfStored
    <2> HIDE DEF verdict
    <2> QED BY <2>1, SettleOneStep
  <1>3. ASSUME NEW r \in Relay, NEW e \in Events, Finds(r, e) PROVE RelInv'
    <2>1. PICK verdict \in {"ok", "failed"} : SettleOne(r, verdict) /\ UNCHANGED stored
      BY <1>3 DEF Finds
    <2>2. job = "lookup"
      BY <1>3 DEF Finds
    <2> QED BY <2>1, <2>2, SettleOneStep
  <1>4. ASSUME NEW r \in Relay, NEW e \in Events, NEW yes \in BOOLEAN, Acknowledges(r, e, yes) PROVE RelInv'
    <2> DEFINE verdict == IF yes THEN "ok" ELSE "failed"
    <2>1. verdict \in {"ok", "failed"} /\ SettleOne(r, verdict) /\ UNCHANGED stored
      BY <1>4 DEF Acknowledges
    <2>2. verdict = "ok" => r \in stored
      BY <1>4 DEF Acknowledges, AboutIt
    <2> HIDE DEF verdict
    <2> QED BY <2>1, <2>2, SettleOneStep
  <1> QED BY <1>1, <1>2, <1>3, <1>4, BeginStep, OpensStep, StoresStep, ReceivesStep, AbortStep, ClockStep, RelStutter
      DEF Next

(* What a request ends with is true, whatever the relays answered and in   *)
(* whatever order: a relay reported to have accepted an event stored it,   *)
(* what is recommended stands in the latest list of a trusted key, and no  *)
(* socket is left (publishToRelays, discoverNodes, relay.ts).              *)
THEOREM AnswersStayTrue == Spec => []AnswersAreTrue
  <1>1. RelInv => AnswersAreTrue
    BY DEF RelInv, AnswersAreTrue
  <1> QED BY <1>1, RelInit, RelStep, PTL DEF Spec

(* The page's record of a service is the latest it ever accepted: a relay  *)
(* that missed the withdrawal cannot bring an offer back                   *)
(* (StorageDirectory.accept).                                              *)
THEOREM OffersStayWithdrawn == Spec => []NeverResurrects
  <1>1. RelInv => NeverResurrects
    BY DEF RelInv
  <1> QED BY <1>1, RelInit, RelStep, PTL DEF Spec

(* A discovery that is cancelled returns nothing and leaves the page's     *)
(* records alone, even if some relays had already completed                *)
(* (signal.throwIfAborted after Promise.allSettled).                       *)
THEOREM CancelledStaysMute == Spec => CancelledIsMute
  <1>1. ASSUME RelInv, Next, cancelled', job \in Discoveries
        PROVE  result' = None /\ UNCHANGED watermarks
    <2>1. ~cancelled
      BY <1>1, KindNotNone DEF RelInv, CancelInv, Discoveries, Kinds
    <2>2. Abort
      BY <1>1, <2>1, KindNotNone
      DEF Next, Begin, Opens, Stores, Overflows, EndOfStored, Refuses, Drops, TimesOut, Finds, Receives, Acknowledges,
          SettleOne, ClockPasses, Discoveries, Kinds
    <2> DEFINE q == Leftover(promises)
    <2>3. Decided(q)
      BY DEF Decided, Leftover
    <2>4. Returns(q)
      BY <2>2, <2>3 DEF Abort, Settle
    <2> HIDE DEF q
    <2> QED BY <1>1, <2>4 DEF Returns, Discoveries, Is, Cancelled
  <1>2. RelInv /\ [Next]_vars => [cancelled' /\ job \in Discoveries => result' = None /\ UNCHANGED watermarks]_vars
    BY <1>1
  <1> QED BY <1>2, RelInit, RelStep, PTL DEF Spec, CancelledIsMute

(***************************************************************************)
(* The cross-device ceremony                                               *)
(***************************************************************************)

(***************************************************************************)
(* Types                                                                   *)
(***************************************************************************)

(* What a record that an action writes has to be.                          *)
LEMMA EvidenceFields ==
  ASSUME NEW e \in Evidence
  PROVE  /\ e.status \in {"incomplete", "closed"} /\ e.errors \in BOOLEAN /\ e.fetched \subseteq Devices
         /\ e.uploads \in Seq([by : Devices, blob : Blobs])
         /\ e.publications \in Seq([kind : EventKinds, by : Devices, blob : Blobs])
         /\ e.lookups \in Seq([blob : Blobs, by : Devices]) /\ e.swarms \in [Blobs -> Swarm]
  BY DEF Evidence

LEMMA AppendTyped ==
  ASSUME NEW S, NEW q \in Seq(S), NEW x \in S PROVE Append(q, x) \in Seq(S)
  OBVIOUS

LEMMA FirstTyped ==
  ASSUME NEW S, NEW q \in Seq(S), Len(q) = 1 PROVE q[1] \in S
  OBVIOUS

LEMMA ErrorTyped ==
  ASSUME CeremonyTypeOK, RecordError
  PROVE  /\ evidence' \in Evidence /\ file' = evidence'
         /\ evidence'.swarms = evidence.swarms /\ evidence'.status = evidence.status /\ evidence'.errors
  BY DEF CeremonyTypeOK, RecordError, Persist, Evidence

LEMMA PlannedTyped ==
  ASSUME CeremonyTypeOK, NEW yes, Planned(yes)
  PROVE  slips' \in 0..Slips
  BY CeremonyAssumption DEF CeremonyTypeOK, Planned

LEMMA ReachesTyped ==
  ASSUME CeremonyTypeOK, NEW d, Reaches(d)
  PROVE  arriving' \subseteq Devices /\ phase # "exited"
  BY DEF CeremonyTypeOK, Reaches

LEMMA ActiveTyped ==
  ASSUME NEW b, NEW ps
  PROVE  /\ Active(b, ps) \subseteq Devices /\ IsFiniteSet(Active(b, ps))
         /\ Cardinality(Active(b, ps)) \in 0..Cardinality(Devices)
  <1>1. Active(b, ps) \subseteq Devices
    BY DEF Active
  <1>2. IsFiniteSet(Devices)
    BY CeremonyAssumption
  <1> QED BY <1>1, <1>2, FS_Subset, FS_CardinalityType

(* A step that leaves the swarms, the sockets' announcements and the end   *)
(* of the ceremony alone.                                                  *)
Quiet ==
  /\ phase # "exited" /\ UNCHANGED <<peers, together, cut, phase>>
  /\ evidence' \in Evidence /\ file' \in {file, evidence'}
  /\ evidence'.swarms = evidence.swarms /\ evidence'.status = evidence.status
  /\ evidence.errors => evidence'.errors
  /\ \A s \in Sockets : trackers'[s] = "gone" => trackers[s] = "gone"

LEMMA ArrivesStep ==
  ASSUME CeremonyTypeOK, NEW d \in Devices, Arrives(d) PROVE CeremonyTypeOK' /\ Quiet
  BY PlannedTyped DEF Arrives, Quiet, CeremonyTypeOK, history, Talks

LEMMA RequestTimesOutStep ==
  ASSUME CeremonyTypeOK, NEW d \in Devices, RequestTimesOut(d) PROVE CeremonyTypeOK' /\ Quiet
  BY ErrorTyped DEF RequestTimesOut, Quiet, CeremonyTypeOK, history, world

LEMMA ConnectionLeavesStep ==
  ASSUME CeremonyTypeOK, NEW d \in Devices, ConnectionLeaves(d) PROVE CeremonyTypeOK' /\ Quiet
  <1>1. CASE RecordError
    BY <1>1, ErrorTyped DEF ConnectionLeaves, Quiet, CeremonyTypeOK, history, world
  <1>2. CASE UNCHANGED <<evidence, file>>
    BY <1>2 DEF ConnectionLeaves, Quiet, CeremonyTypeOK, history, world
  <1> QED BY <1>1, <1>2 DEF ConnectionLeaves

LEMMA FetchStep ==
  ASSUME CeremonyTypeOK, NEW d \in Devices, Fetch(d) PROVE CeremonyTypeOK' /\ Quiet
  <1>1. slips' \in 0..Slips /\ arriving' \subseteq Devices /\ phase # "exited"
    BY PlannedTyped, ReachesTyped DEF Fetch
  <1>2. evidence' = [evidence EXCEPT !.fetched = @ \cup {d}] /\ file' = evidence'
    BY DEF Fetch, Persist
  <1>3. /\ evidence' \in Evidence /\ evidence'.swarms = evidence.swarms
        /\ evidence'.status = evidence.status /\ evidence'.errors = evidence.errors
    BY <1>2 DEF CeremonyTypeOK, Evidence
  <1> QED BY <1>1, <1>2, <1>3 DEF Fetch, Quiet, CeremonyTypeOK, history

LEMMA UploadStep ==
  ASSUME CeremonyTypeOK, NEW d \in Devices, NEW b \in Blobs, NEW good \in BOOLEAN, Upload(d, b, good)
  PROVE  CeremonyTypeOK' /\ Quiet
  <1>1. slips' \in 0..Slips /\ arriving' \subseteq Devices /\ phase # "exited"
    BY PlannedTyped, ReachesTyped DEF Upload
  <1> QED BY <1>1 DEF Upload, Quiet, CeremonyTypeOK, history

LEMMA UploadEndsStep ==
  ASSUME CeremonyTypeOK, NEW u \in uploading, UploadEnds(u) PROVE CeremonyTypeOK' /\ Quiet
  <1>1. u.by \in Devices /\ u.blob \in Blobs
    BY DEF CeremonyTypeOK
  <1>2. evidence' = [evidence EXCEPT !.uploads = Append(@, [by |-> u.by, blob |-> u.blob])] /\ file' = evidence'
    BY DEF UploadEnds, Persist
  <1>3. Append(evidence.uploads, [by |-> u.by, blob |-> u.blob]) \in Seq([by : Devices, blob : Blobs])
    BY <1>1, EvidenceFields, AppendTyped DEF CeremonyTypeOK
  <1>4. /\ evidence' \in Evidence /\ evidence'.swarms = evidence.swarms
        /\ evidence'.status = evidence.status /\ evidence'.errors = evidence.errors
    BY <1>2, <1>3 DEF CeremonyTypeOK, Evidence
  <1> QED BY <1>2, <1>4 DEF UploadEnds, Quiet, CeremonyTypeOK, history, world

LEMMA UploadFailsStep ==
  ASSUME CeremonyTypeOK, NEW u \in uploading, UploadFails(u) PROVE CeremonyTypeOK' /\ Quiet
  <1>1. slips' \in 0..Slips
    BY PlannedTyped DEF UploadFails
  <1> QED BY <1>1, ErrorTyped DEF UploadFails, Quiet, CeremonyTypeOK, history

LEMMA MisusedStep ==
  ASSUME CeremonyTypeOK, NEW d \in Devices, Misused(d) PROVE CeremonyTypeOK' /\ Quiet
  <1>1. slips' \in 0..Slips /\ arriving' \subseteq Devices /\ phase # "exited"
    BY PlannedTyped, ReachesTyped DEF Misused
  <1> QED BY <1>1, ErrorTyped DEF Misused, Quiet, CeremonyTypeOK, history

LEMMA RelayOpensStep ==
  ASSUME CeremonyTypeOK, NEW d \in Devices, RelayOpens(d) PROVE CeremonyTypeOK' /\ Quiet
  <1>1. slips' \in 0..Slips /\ arriving' \subseteq Devices /\ phase # "exited"
    BY PlannedTyped, ReachesTyped DEF RelayOpens
  <1> QED BY <1>1 DEF RelayOpens, Quiet, CeremonyTypeOK

LEMMA PublishesStep ==
  ASSUME CeremonyTypeOK, NEW d \in Devices, NEW kind \in EventKinds, NEW b \in Blobs, Publishes(d, kind, b)
  PROVE  CeremonyTypeOK' /\ Quiet
  <1>1. slips' \in 0..Slips
    BY PlannedTyped DEF Publishes
  <1>2. evidence' = [evidence EXCEPT !.publications = Append(@, EventFacts(d, kind, b))] /\ file' = evidence'
    BY DEF Publishes, Persist
  <1>3. Append(evidence.publications, EventFacts(d, kind, b)) \in Seq([kind : EventKinds, by : Devices, blob : Blobs])
    BY EvidenceFields, AppendTyped DEF CeremonyTypeOK, EventFacts
  <1>4. /\ evidence' \in Evidence /\ evidence'.swarms = evidence.swarms
        /\ evidence'.status = evidence.status /\ evidence'.errors = evidence.errors
    BY <1>2, <1>3 DEF CeremonyTypeOK, Evidence
  <1> QED BY <1>1, <1>2, <1>4 DEF Publishes, Quiet, CeremonyTypeOK, history

LEMMA LooksUpStep ==
  ASSUME CeremonyTypeOK, NEW d \in Devices, NEW b \in Blobs, LooksUp(d, b) PROVE CeremonyTypeOK' /\ Quiet
  <1>1. slips' \in 0..Slips
    BY PlannedTyped DEF LooksUp
  <1>2. evidence' = [evidence EXCEPT !.lookups = Append(@, [blob |-> b, by |-> d])] /\ file' = evidence'
    BY DEF LooksUp, Persist
  <1>3. Append(evidence.lookups, [blob |-> b, by |-> d]) \in Seq([blob : Blobs, by : Devices])
    BY EvidenceFields, AppendTyped DEF CeremonyTypeOK
  <1>4. /\ evidence' \in Evidence /\ evidence'.swarms = evidence.swarms
        /\ evidence'.status = evidence.status /\ evidence'.errors = evidence.errors
    BY <1>2, <1>3 DEF CeremonyTypeOK, Evidence
  <1> QED BY <1>1, <1>2, <1>4 DEF LooksUp, Quiet, CeremonyTypeOK, history, service

LEMMA RelayRefusesStep ==
  ASSUME CeremonyTypeOK, NEW d \in Devices, RelayRefuses(d) PROVE CeremonyTypeOK' /\ Quiet
  <1>1. slips' \in 0..Slips
    BY PlannedTyped DEF RelayRefuses
  <1> QED BY <1>1, ErrorTyped DEF RelayRefuses, Quiet, CeremonyTypeOK, history

LEMMA RelayClosesStep ==
  ASSUME CeremonyTypeOK, NEW d \in Devices, RelayCloses(d) PROVE CeremonyTypeOK' /\ Quiet
  BY DEF RelayCloses, Quiet, CeremonyTypeOK, history, world

LEMMA TrackerOpensStep ==
  ASSUME CeremonyTypeOK, NEW s \in Sockets, TrackerOpens(s) PROVE CeremonyTypeOK' /\ Quiet
  <1>1. slips' \in 0..Slips /\ arriving' \subseteq Devices /\ phase # "exited"
    BY PlannedTyped, ReachesTyped DEF TrackerOpens
  <1> QED BY <1>1 DEF TrackerOpens, Quiet, CeremonyTypeOK

LEMMA TrackerRefusesStep ==
  ASSUME CeremonyTypeOK, NEW s \in Sockets, TrackerRefuses(s) PROVE CeremonyTypeOK' /\ Quiet
  <1>1. slips' \in 0..Slips
    BY PlannedTyped DEF TrackerRefuses
  <1> QED BY <1>1, ErrorTyped DEF TrackerRefuses, Quiet, CeremonyTypeOK, history

LEMMA ElsewhereStep ==
  ASSUME CeremonyTypeOK, NEW d \in Devices, Elsewhere(d) PROVE CeremonyTypeOK' /\ Quiet
  <1>1. slips' \in 0..Slips
    BY PlannedTyped DEF Elsewhere
  <1> QED BY <1>1 DEF Elsewhere, Quiet, CeremonyTypeOK, history, service

(***************************************************************************)
(* The inductive invariant                                                 *)
(***************************************************************************)

(* A socket that is gone announces nothing, and who announces now is among *)
(* those who ever did.                                                     *)
PeersInv ==
  /\ \A s \in Sockets : trackers[s] = "gone" => peers[s] = {}
  /\ \A b \in Blobs : evidence.swarms[b].current \subseteq evidence.swarms[b].endpoints

(* Evidence is closed by the last step of stop(), and not touched again.   *)
ClosedInv ==
  evidence.status = "closed" \/ file.status = "closed" => phase = "exited" /\ file = evidence /\ ServerClosed

CutInv == cut => evidence.errors /\ phase # "run"

(* A peak of two was reached by two devices at one time.                   *)
PeakInv ==
  \A b \in Blobs : evidence.swarms[b].peak >= 2 =>
    \E pair \in SUBSET evidence.swarms[b].endpoints : Cardinality(pair) = 2 /\ <<b, pair>> \in together

CeremonyInv == CeremonyTypeOK /\ CurrentFits /\ PeersInv /\ ClosedInv /\ CutInv /\ PeakInv

LEMMA CeremonyInitInv == CeremonyInit => CeremonyInv
  <1> SUFFICES ASSUME CeremonyInit PROVE CeremonyInv
    OBVIOUS
  <1>1. 0 \in 0..Cardinality(Devices)
    BY CeremonyAssumption, FS_CardinalityType
  <1>2. evidence \in Evidence /\ file = evidence
    BY <1>1 DEF CeremonyInit, Evidence, Swarm
  <1>3. /\ events = {} /\ uploading = {} /\ arriving = {}
        /\ relays = [d \in Devices |-> "gone"] /\ trackers = [s \in Sockets |-> "gone"] /\ peers = [s \in Sockets |-> {}]
    BY DEF CeremonyInit
  <1>4. /\ relays \in [Devices -> {"gone", "open", "closing"}] /\ trackers \in [Sockets -> {"gone", "open", "closing"}]
        /\ peers \in [Sockets -> SUBSET Blobs] /\ events \subseteq Blobs /\ arriving \subseteq Devices
        /\ uploading \subseteq [by : Devices, blob : Blobs, good : BOOLEAN]
    BY <1>3
  <1>5. recovered \in BOOLEAN
    BY DEF CeremonyInit
  <1>6. phase \in {"run", "closing", "exited"} /\ slips \in 0..Slips
    <2>1. slips = 0 /\ phase = "run" /\ Slips \in Nat
      BY CeremonyAssumption DEF CeremonyInit
    <2> QED BY <2>1
  <1>7. CeremonyTypeOK
    BY <1>2, <1>4, <1>5, <1>6 DEF CeremonyTypeOK
  <1>8. CurrentFits /\ PeersInv /\ ClosedInv /\ CutInv /\ PeakInv
    BY DEF CeremonyInit, CurrentFits, PeersInv, ClosedInv, CutInv, PeakInv, Active
  <1> QED BY <1>7, <1>8 DEF CeremonyInv

LEMMA QuietKeeps ==
  ASSUME CeremonyInv, CeremonyTypeOK', Quiet PROVE CeremonyInv'
  <1> USE DEF CeremonyInv
  <1>1. CurrentFits'
    BY DEF CurrentFits, Quiet, Active
  <1>2. PeersInv'
    BY DEF PeersInv, Quiet
  <1>3. ClosedInv'
    BY DEF ClosedInv, Quiet
  <1>4. CutInv'
    BY DEF CutInv, Quiet
  <1>5. PeakInv'
    BY DEF PeakInv, Quiet
  <1> QED BY <1>1, <1>2, <1>3, <1>4, <1>5

(* Two of a set that has at least two.                                     *)
LEMMA Pair ==
  ASSUME NEW S, IsFiniteSet(S), Cardinality(S) >= 2
  PROVE  \E pair \in SUBSET S : Cardinality(pair) = 2
  <1>1. PICK x \in S : TRUE
    BY FS_EmptySet
  <1>2. IsFiniteSet(S \ {x}) /\ Cardinality(S \ {x}) = Cardinality(S) - 1 /\ Cardinality(S) \in Nat
    BY <1>1, FS_RemoveElement, FS_CardinalityType
  <1>3. PICK y \in S \ {x} : TRUE
    BY <1>2, FS_EmptySet
  <1>4. IsFiniteSet({x}) /\ Cardinality({x}) = 1 /\ y \notin {x}
    BY <1>3, FS_Singleton
  <1>5. Cardinality({x} \cup {y}) = 2
    <2> DEFINE one == {x}
    <2>1. IsFiniteSet(one) /\ Cardinality(one) = 1 /\ y \notin one
      BY <1>4
    <2> HIDE DEF one
    <2>2. Cardinality(one \cup {y}) = Cardinality(one) + 1
      BY <2>1, FS_AddElement, Zenon
    <2>3. Cardinality(one \cup {y}) = 2
      BY <2>1, <2>2
    <2> QED BY <2>3 DEF one
  <1> QED BY <1>1, <1>3, <1>5

LEMMA AnnouncesStep ==
  ASSUME CeremonyInv, NEW s \in Sockets, NEW b \in Blobs, NEW event \in {"started", "stopped", "update"},
         Announces(s, b, event)
  PROVE  CeremonyInv'
  <1> DEFINE d == s[1]
             now == [peers EXCEPT ![s] = IF event = "stopped" THEN @ \ {b} ELSE @ \cup {b}]
             active == Active(b, now)
             swarm == evidence.swarms[b]
             new == [endpoints |-> swarm.endpoints \cup {d},
                     started |-> IF event = "started" THEN Least(2, swarm.started + 1) ELSE swarm.started,
                     peak |-> Peak(swarm, active, d), current |-> active]
  <1> USE DEF CeremonyInv
  <1>1. /\ trackers[s] # "gone" /\ phase # "exited" /\ peers' = now
        /\ evidence' = [evidence EXCEPT !.swarms[b] = new] /\ file' = evidence'
        /\ together' = together \cup {<<b, pair>> : pair \in {p \in SUBSET active : Cardinality(p) = 2}}
        /\ UNCHANGED <<events, uploading, relays, trackers, arriving, phase, capture, recovered, cut, late>>
    BY DEF Announces, Persist
  <1>2. slips' \in 0..Slips
    BY PlannedTyped DEF Announces
  <1>3. d \in Devices /\ now \in [Sockets -> SUBSET Blobs]
    BY DEF Sockets, CeremonyTypeOK
  <1>4. active \subseteq Devices /\ IsFiniteSet(active) /\ Cardinality(active) \in 0..Cardinality(Devices)
    BY ActiveTyped
  <1>5. swarm \in Swarm /\ evidence.swarms \in [Blobs -> Swarm]
    BY EvidenceFields DEF CeremonyTypeOK
  <1>6. new \in Swarm
    <2>1. Least(2, swarm.started + 1) \in 0..2
      BY <1>5 DEF Swarm, Least
    <2>2. Peak(swarm, active, d) \in 0..Cardinality(Devices)
      BY <1>4, <1>5 DEF Swarm, Peak, Most
    <2> HIDE DEF active
    <2> QED BY <1>3, <1>4, <1>5, <2>1, <2>2 DEF Swarm
  <1> HIDE DEF new, active
  <1>7. evidence' \in Evidence /\ evidence'.swarms = [evidence.swarms EXCEPT ![b] = new]
        /\ evidence'.status = evidence.status /\ evidence'.errors = evidence.errors
    BY <1>1, <1>6 DEF CeremonyTypeOK, Evidence
  <1>8. CeremonyTypeOK'
    BY <1>1, <1>2, <1>3, <1>7 DEF CeremonyTypeOK
  <1>9. /\ new.endpoints = swarm.endpoints \cup {d} /\ new.peak = Peak(swarm, active, d) /\ new.current = active
        /\ evidence'.swarms[b] = new /\ \A c \in Blobs : c # b => evidence'.swarms[c] = evidence.swarms[c]
    BY <1>5, <1>7 DEF new
  <1>10. active = Active(b, peers') /\ \A c \in Blobs : c # b => Active(c, peers') = Active(c, peers)
    <2>1. active = Active(b, peers')
      BY <1>1 DEF active
    <2>2. ASSUME NEW c \in Blobs, c # b PROVE Active(c, peers') = Active(c, peers)
      <3>1. \A t \in Sockets : c \in peers'[t] <=> c \in peers[t]
        BY <1>1, <2>2 DEF CeremonyTypeOK
      <3> QED BY <3>1 DEF Active
    <2> QED BY <2>1, <2>2
  <1>11. CurrentFits'
    BY <1>9, <1>10 DEF CurrentFits
  <1>12. active \subseteq swarm.endpoints \cup {d}
    <2>1. Active(b, peers) \subseteq swarm.endpoints
      BY DEF CurrentFits, PeersInv
    <2>2. ASSUME NEW e \in active, e # d PROVE e \in Active(b, peers)
      <3>1. PICK t \in Sockets : t[1] = e /\ b \in now[t]
        BY <2>2 DEF active, Active
      <3>2. t # s
        BY <2>2, <3>1
      <3>3. now[t] = peers[t]
        BY <3>2 DEF CeremonyTypeOK
      <3>4. e \in Devices
        BY <2>2, <1>4
      <3> QED BY <3>1, <3>3, <3>4 DEF Active
    <2> QED BY <2>1, <2>2
  <1>13. PeersInv'
    <2>1. \A t \in Sockets : trackers'[t] = "gone" => peers'[t] = {}
      BY <1>1 DEF PeersInv, CeremonyTypeOK
    <2> QED BY <2>1, <1>9, <1>12 DEF PeersInv
  <1>14. ClosedInv' /\ CutInv'
    BY <1>1, <1>7 DEF ClosedInv, CutInv
  <1>15. PeakInv'
    <2>1. \A c \in Blobs : c # b => (evidence'.swarms[c].peak >= 2 =>
            \E pair \in SUBSET evidence'.swarms[c].endpoints : Cardinality(pair) = 2 /\ <<c, pair>> \in together')
      BY <1>1, <1>9 DEF PeakInv
    <2>2. ASSUME new.peak >= 2
          PROVE  \E pair \in SUBSET new.endpoints : Cardinality(pair) = 2 /\ <<b, pair>> \in together'
      <3>1. CASE swarm.peak >= 2
        <4>1. PICK pair \in SUBSET swarm.endpoints : Cardinality(pair) = 2 /\ <<b, pair>> \in together
          BY <3>1 DEF PeakInv
        <4> QED BY <4>1, <1>1, <1>9
      <3>2. CASE ~(swarm.peak >= 2)
        <4>1. Cardinality(active) >= 2
          BY <2>2, <3>2, <1>4, <1>5, <1>9 DEF Peak, Most, Swarm
        <4>2. PICK pair \in SUBSET active : Cardinality(pair) = 2
          BY <4>1, <1>4, Pair
        <4>3. <<b, pair>> \in together'
          BY <4>2, <1>1
        <4> QED BY <4>2, <4>3, <1>9, <1>12
      <3> QED BY <3>1, <3>2
    <2> QED BY <2>1, <2>2, <1>9 DEF PeakInv
  <1> QED BY <1>8, <1>11, <1>13, <1>14, <1>15

LEMMA TrackerClosesStep ==
  ASSUME CeremonyInv, NEW s \in Sockets, TrackerCloses(s)
  PROVE  CeremonyInv'
  <1> USE DEF CeremonyInv
  <1>1. /\ phase # "exited" /\ trackers' = [trackers EXCEPT ![s] = "gone"] /\ peers' = [peers EXCEPT ![s] = {}]
        /\ evidence' = [evidence EXCEPT !.swarms = SwarmsWithout(s)] /\ file' = evidence'
        /\ UNCHANGED <<events, uploading, relays, arriving, phase, capture, recovered, slips, together, cut, late>>
    BY DEF TrackerCloses, Persist, world, history
  <1>2. evidence.swarms \in [Blobs -> Swarm]
    BY EvidenceFields DEF CeremonyTypeOK
  <1>3. ASSUME NEW b \in Blobs
        PROVE  /\ SwarmsWithout(s)[b] \in Swarm /\ SwarmsWithout(s)[b].current = Active(b, peers')
               /\ SwarmsWithout(s)[b].endpoints = evidence.swarms[b].endpoints
               /\ SwarmsWithout(s)[b].peak = evidence.swarms[b].peak
    <2>1. CASE b \in peers[s]
      <3>1. SwarmsWithout(s)[b] = [evidence.swarms[b] EXCEPT !.current = Active(b, peers')]
        BY <2>1, <1>1 DEF SwarmsWithout
      <3>2. Active(b, peers') \subseteq Devices
        BY ActiveTyped
      <3> HIDE DEF CeremonyInv
      <3> QED BY <3>1, <3>2, <1>2 DEF Swarm
    <2>2. CASE b \notin peers[s]
      <3>1. SwarmsWithout(s)[b] = evidence.swarms[b]
        BY <2>2 DEF SwarmsWithout
      <3>2. \A t \in Sockets : b \in peers'[t] <=> b \in peers[t]
        BY <1>1, <2>2 DEF CeremonyTypeOK
      <3>3. Active(b, peers') = Active(b, peers)
        BY <3>2 DEF Active
      <3> QED BY <3>1, <3>3, <1>2 DEF CurrentFits
    <2> QED BY <2>1, <2>2
  <1>4. SwarmsWithout(s) \in [Blobs -> Swarm]
    BY <1>3 DEF SwarmsWithout
  <1>5. /\ evidence' \in Evidence /\ evidence'.swarms = SwarmsWithout(s)
        /\ evidence'.status = evidence.status /\ evidence'.errors = evidence.errors
    BY <1>1, <1>4 DEF CeremonyTypeOK, Evidence
  <1>6. CeremonyTypeOK'
    BY <1>1, <1>5 DEF CeremonyTypeOK
  <1>7. CurrentFits'
    BY <1>3, <1>5 DEF CurrentFits
  <1>8. PeersInv'
    <2>1. \A t \in Sockets : trackers'[t] = "gone" => peers'[t] = {}
      BY <1>1 DEF PeersInv, CeremonyTypeOK
    <2>2. ASSUME NEW b \in Blobs PROVE Active(b, peers') \subseteq Active(b, peers)
      <3>1. \A t \in Sockets : peers'[t] \subseteq peers[t]
        BY <1>1 DEF CeremonyTypeOK
      <3> QED BY <3>1 DEF Active
    <2> QED BY <2>1, <2>2, <1>3, <1>5 DEF PeersInv, CurrentFits
  <1>9. ClosedInv' /\ CutInv'
    BY <1>1, <1>5 DEF ClosedInv, CutInv
  <1>10. PeakInv'
    BY <1>1, <1>3, <1>5 DEF PeakInv
  <1> QED BY <1>6, <1>7, <1>8, <1>9, <1>10

LEMMA StopStep ==
  ASSUME CeremonyInv, Stop PROVE CeremonyInv'
  <1> USE DEF CeremonyInv
  <1>1. /\ evidence' = [evidence EXCEPT !.errors = @ \/ Remaining] /\ phase = "run" /\ phase' = "closing"
        /\ relays' = [d \in Devices |-> Told(relays[d])] /\ trackers' = [s \in Sockets |-> Told(trackers[s])]
        /\ cut' = (\E b \in Blobs : Active(b, peers) # {})
        /\ UNCHANGED <<file, events, uploading, peers, arriving, capture, recovered, slips, together, late>>
    BY DEF Stop, world
  <1>2. Remaining \in BOOLEAN
    BY DEF Remaining
  <1>3. /\ evidence' \in Evidence /\ evidence'.swarms = evidence.swarms /\ evidence'.status = evidence.status
        /\ evidence'.errors = (evidence.errors \/ Remaining)
    BY <1>1, <1>2 DEF CeremonyTypeOK, Evidence
  <1>4. CeremonyTypeOK'
    BY <1>1, <1>3 DEF CeremonyTypeOK, Told
  <1>5. CurrentFits' /\ PeakInv'
    BY <1>1, <1>3 DEF CurrentFits, PeakInv
  <1>6. PeersInv'
    BY <1>1, <1>3 DEF PeersInv, Told
  <1>7. ClosedInv'
    BY <1>1, <1>3 DEF ClosedInv
  <1>8. CutInv'
    BY <1>1, <1>3 DEF CutInv, CurrentFits, Remaining
  <1> QED BY <1>4, <1>5, <1>6, <1>7, <1>8

LEMMA ExitStep ==
  ASSUME CeremonyInv, Exit PROVE CeremonyInv'
  <1> USE DEF CeremonyInv
  <1>1. /\ evidence' = [evidence EXCEPT !.status = "closed"] /\ file' = evidence' /\ phase' = "exited" /\ ServerClosed
        /\ UNCHANGED <<events, uploading, relays, trackers, peers, arriving, capture, recovered, slips, together, cut, late>>
    BY DEF Exit, Persist, world, history
  <1>2. /\ evidence' \in Evidence /\ evidence'.swarms = evidence.swarms /\ evidence'.errors = evidence.errors
    BY <1>1 DEF CeremonyTypeOK, Evidence
  <1>3. CeremonyTypeOK'
    BY <1>1, <1>2 DEF CeremonyTypeOK
  <1>4. CurrentFits' /\ PeakInv' /\ PeersInv' /\ CutInv'
    BY <1>1, <1>2 DEF CurrentFits, PeakInv, PeersInv, CutInv
  <1>5. ClosedInv'
    BY <1>1 DEF ClosedInv, ServerClosed
  <1> QED BY <1>3, <1>4, <1>5

LEMMA DiesStep ==
  ASSUME CeremonyInv, Dies PROVE CeremonyInv'
  <1> USE DEF CeremonyInv
  <1>1. slips' \in 0..Slips
    BY PlannedTyped DEF Dies
  <1> QED BY <1>1 DEF Dies, history, CeremonyTypeOK, CurrentFits, PeakInv, PeersInv, CutInv, ClosedInv

LEMMA TransferStep ==
  ASSUME CeremonyInv, NEW b \in Blobs, Transfer(b) PROVE CeremonyInv'
  <1> USE DEF CeremonyInv
  <1>1. slips' \in 0..Slips
    BY PlannedTyped DEF Transfer
  <1> QED BY <1>1 DEF Transfer, service, history, CeremonyTypeOK, CurrentFits, PeakInv, PeersInv, CutInv, ClosedInv, ServerClosed

LEMMA CeremonyStutters ==
  ASSUME CeremonyInv, UNCHANGED ceremonyVars PROVE CeremonyInv'
  BY DEF CeremonyInv, ceremonyVars, service, world, history, CeremonyTypeOK, CurrentFits, PeakInv, PeersInv, CutInv,
         ClosedInv, ServerClosed

LEMMA CeremonyStep == CeremonyInv /\ [CeremonyNext]_ceremonyVars => CeremonyInv'
  <1> SUFFICES ASSUME CeremonyInv, [CeremonyNext]_ceremonyVars PROVE CeremonyInv'
    OBVIOUS
  <1> USE QuietKeeps
  <1>0. CeremonyTypeOK
    BY DEF CeremonyInv
  <1>1. CASE UNCHANGED ceremonyVars
    BY <1>1, CeremonyStutters
  <1>2. ASSUME NEW d \in Devices,
               \/ Arrives(d) \/ RequestTimesOut(d) \/ ConnectionLeaves(d) \/ Fetch(d) \/ Misused(d) \/ Elsewhere(d)
               \/ RelayOpens(d) \/ RelayRefuses(d) \/ RelayCloses(d)
        PROVE  CeremonyInv'
    BY <1>0, <1>2, ArrivesStep, RequestTimesOutStep, ConnectionLeavesStep, FetchStep, MisusedStep, ElsewhereStep,
       RelayOpensStep, RelayRefusesStep, RelayClosesStep
  <1>3. ASSUME NEW d \in Devices, NEW b \in Blobs,
               \/ \E good \in BOOLEAN : Upload(d, b, good)
               \/ LooksUp(d, b) \/ \E kind \in EventKinds : Publishes(d, kind, b)
        PROVE  CeremonyInv'
    BY <1>0, <1>3, UploadStep, LooksUpStep, PublishesStep
  <1>4. ASSUME NEW u \in uploading, UploadEnds(u) \/ UploadFails(u) PROVE CeremonyInv'
    BY <1>0, <1>4, UploadEndsStep, UploadFailsStep
  <1>5. ASSUME NEW s \in Sockets, TrackerOpens(s) \/ TrackerCloses(s) \/ TrackerRefuses(s) PROVE CeremonyInv'
    BY <1>0, <1>5, TrackerOpensStep, TrackerClosesStep, TrackerRefusesStep
  <1>6. ASSUME NEW s \in Sockets, NEW b \in Blobs, NEW event \in {"started", "stopped", "update"}, Announces(s, b, event)
        PROVE  CeremonyInv'
    BY <1>6, AnnouncesStep
  <1>7. ASSUME NEW b \in Blobs, Transfer(b) PROVE CeremonyInv'
    BY <1>7, TransferStep
  <1>8. CASE Stop \/ Exit \/ Dies
    BY <1>8, StopStep, ExitStep, DiesStep
  <1> QED BY <1>1, <1>2, <1>3, <1>4, <1>5, <1>6, <1>7, <1>8 DEF CeremonyNext

(***************************************************************************)
(* What the evidence says                                                  *)
(***************************************************************************)

LEMMA CutIsRefused == ASSUME CeremonyInv PROVE CutShortIsRefused
  BY DEF CeremonyInv, CutShortIsRefused, VerifierAccepts, VerifiedFor, CutInv, ClosedInv

LEMMA ClosedQuiet == ASSUME CeremonyInv PROVE ClosedIsQuiet
  <1> SUFFICES ASSUME file.status = "closed"
               PROVE  /\ uploading = {} /\ \A s \in Sockets : trackers[s] = "gone" /\ peers[s] = {}
                      /\ \A b \in Blobs : file.swarms[b].current = {}
    BY DEF ClosedIsQuiet
  <1>1. file = evidence /\ ServerClosed
    BY DEF CeremonyInv, ClosedInv
  <1>2. uploading = {} /\ \A s \in Sockets : trackers[s] = "gone" /\ peers[s] = {}
    BY <1>1 DEF ServerClosed, CeremonyInv, PeersInv
  <1>3. \A b \in Blobs : Active(b, peers) = {}
    BY <1>2 DEF Active
  <1> QED BY <1>1, <1>2, <1>3 DEF CeremonyInv, CurrentFits

LEMMA AcceptedTrue == ASSUME CeremonyInv PROVE AcceptedIsTrue
  <1> SUFFICES ASSUME VerifierAccepts
               PROVE \E p, q \in Devices :
                        /\ p # q /\ <<file.uploads[1].blob, {p, q}>> \in together
                        /\ file.uploads[1].by = p /\ file.fetched = {p}
                        /\ \A d \in {Publisher, Downloader} : <<d, "elsewhere", "udp">> \notin capture
    BY DEF AcceptedIsTrue
  <1>1. PICK p \in Devices : VerifiedFor(file, p)
    BY DEF VerifierAccepts
  <1> DEFINE b == file.uploads[1].blob
             found == SelectSeq(file.lookups, LAMBDA l : l.blob = b /\ l.by # p)
             x == found[1].by
  <1>2. /\ file.status = "closed" /\ file.fetched = {p} /\ Len(file.uploads) = 1 /\ file.uploads[1].by = p
        /\ file.swarms[b].endpoints = {p, x} /\ file.swarms[b].peak >= 2
    BY <1>1 DEF VerifiedFor
  <1> HIDE DEF x
  <1>3. file = evidence /\ file \in Evidence
    BY <1>2 DEF CeremonyInv, ClosedInv, CeremonyTypeOK
  <1>4. b \in Blobs
    <2>1. file.uploads \in Seq([by : Devices, blob : Blobs])
      BY <1>3, EvidenceFields
    <2>2. file.uploads[1] \in [by : Devices, blob : Blobs]
      BY <1>2, <2>1, FirstTyped
    <2> QED BY <2>2
  <1>5. PICK pair \in SUBSET {p, x} : Cardinality(pair) = 2 /\ <<b, pair>> \in together
    BY <1>2, <1>3, <1>4 DEF CeremonyInv, PeakInv
  <1>6. pair = {p, x} /\ p # x
    <2>1. pair # {} /\ \A y : pair # {y}
      BY <1>5, FS_EmptySet, FS_Singleton
    <2> QED BY <1>5, <2>1
  <1>7. x \in Devices
    <2>1. file.swarms[b] \in Swarm
      BY <1>3, <1>4, EvidenceFields
    <2> QED BY <1>2, <2>1 DEF Swarm
  <1>8. ASSUME NEW d \in {Publisher, Downloader}, <<d, "elsewhere", "udp">> \in capture PROVE FALSE
    <2> DEFINE f == <<d, "elsewhere", "udp">>
    <2>1. f[1] = d /\ f[2] = "elsewhere" /\ f[3] = "udp"
      OBVIOUS
    <2>2. d \in Devices /\ "elsewhere" \notin Devices /\ Publisher \in Devices /\ Downloader \in Devices
      BY CeremonyAssumption
    <2>3. FlowKind(f) = "unapproved"
      <3>1. {f[1], f[2]} \cap {Publisher, Downloader} # {}
        BY <2>1
      <3>2. {f[1], f[2]} # {Publisher, Downloader}
        BY <2>1, <2>2
      <3>3. f[2] # "coordinator"
        BY <2>1
      <3> HIDE DEF f
      <3> QED BY <3>1, <3>2, <3>3 DEF FlowKind
    <2> QED BY <1>8, <2>3 DEF VerifierAccepts, CleanCapture
  <1> QED BY <1>2, <1>5, <1>6, <1>7, <1>8

(* For any finite set of devices and any blobs, with any number of acts    *)
(* outside the plan: the coordinator's evidence names who announces a      *)
(* torrent now, evidence that says closed has nothing left to come, a      *)
(* ceremony cut short is refused, and one that the verifier accepts took   *)
(* place (cross-device-coordinator.mjs, cross-device-evidence.mjs).        *)
THEOREM EvidenceStaysTrue == CeremonySpec => []EvidenceIsTrue
  <1>1. CeremonyInv => EvidenceIsTrue
    BY CutIsRefused, ClosedQuiet, AcceptedTrue DEF EvidenceIsTrue, CeremonyInv
  <1> QED BY <1>1, CeremonyInitInv, CeremonyStep, PTL DEF CeremonySpec

(***************************************************************************)
(* PoolStorage                                                             *)
(***************************************************************************)

(* The groups of all nodes; there are finitely many.                       *)
AllGroups == {Group[n] : n \in PoolNodes}

LEMMA RankPlaces ==
  ASSUME NEW rank \in Ranks
  PROVE  rank \in Seq(PoolNodes) /\ Len(rank) \in Nat /\ \A i \in 1..Len(rank) : rank[i] \in PoolNodes
  BY PoolAssumption

LEMMA NodeAppended ==
  ASSUME NEW S, NEW s \in Seq(S), NEW x \in S PROVE Append(s, x) \in Seq(S)
  OBVIOUS

(* The turns of the three loops of preparePool().                          *)
MetTurn(rank, i, before) ==
  IF Group[rank[i]] \in ToSet(before) THEN before ELSE Append(before, Group[rank[i]])
ChosenTurn(rank, g, i, before) == IF Group[rank[i]] = g THEN Append(before, rank[i]) ELSE before

LEMMA GroupOrderTyped ==
  ASSUME NEW rank \in Ranks
  PROVE  GroupOrder(rank) \in Seq(AllGroups)
  <1> DEFINE N == Len(rank)
             V == Seq(AllGroups)
             F == [i \in 1..N |-> [b \in V |-> MetTurn(rank, i, b)]]
             Runs(met) == met = [i \in 0..N |-> IF i = 0 THEN <<>> ELSE IF Group[rank[i]] \in ToSet(met[i - 1]) THEN met[i - 1] ELSE Append(met[i - 1], Group[rank[i]])]
  <1>1. N \in Nat /\ <<>> \in V
    BY RankPlaces
  <1>2. ASSUME NEW i \in 1..N, NEW b \in V PROVE MetTurn(rank, i, b) \in V
    BY RankPlaces, NodeAppended DEF MetTurn, AllGroups
  <1>3. F \in [1..N -> [V -> V]]
    <2> HIDE DEF V, N
    <2> QED BY <1>2
  <1>4. PICK g : IsRun(g, V, <<>>, N, F)
    <2> HIDE DEF F, N, V
    <2> QED BY <1>1, <1>3, Loop
  <1>5. g \in [0..N -> V] /\ g[0] = <<>> /\ \A i \in 1..N : g[i] = F[i][g[i - 1]]
    BY <1>4 DEF IsRun
  <1>6. ASSUME NEW i \in 1..N PROVE g[i] = MetTurn(rank, i, g[i - 1])
    <2>1. i - 1 \in 0..N
      BY <1>1
    <2>2. g[i - 1] \in V /\ g[i] = F[i][g[i - 1]]
      BY <1>5, <2>1
    <2> HIDE DEF V
    <2> QED BY <2>2
  <1>7. Runs(g)
    <2> DEFINE G == [i \in 0..N |-> IF i = 0 THEN <<>> ELSE IF Group[rank[i]] \in ToSet(g[i - 1]) THEN g[i - 1] ELSE Append(g[i - 1], Group[rank[i]])]
    <2>1. ASSUME NEW i \in 0..N PROVE g[i] = G[i]
      <3>1. CASE i = 0
        BY <1>5, <3>1
      <3>2. CASE i # 0
        <4>1. i \in 1..N
          BY <1>1, <3>2
        <4>2. g[i] = IF Group[rank[i]] \in ToSet(g[i - 1]) THEN g[i - 1] ELSE Append(g[i - 1], Group[rank[i]])
          BY <4>1, <1>6, Zenon DEF MetTurn
        <4> QED BY <3>2, <4>2, Zenon
      <3> QED BY <3>1, <3>2
    <2>2. DOMAIN g = 0..N /\ DOMAIN G = 0..N /\ g = [i \in 0..N |-> g[i]] /\ G = [i \in 0..N |-> G[i]]
      BY <1>5
    <2> HIDE DEF G
    <2>3. g = G
      BY <2>1, <2>2
    <2> QED BY <2>3, Zenon DEF G
  <1> DEFINE m == CHOOSE met : Runs(met)
  <1>8. Runs(m)
    <2> HIDE DEF Runs
    <2> QED BY <1>7
  <1>9. GroupOrder(rank) = m[N]
    BY Zenon DEF GroupOrder
  <1> HIDE DEF m
  <1>10. m[0] = <<>>
    <2>1. 0 \in 0..N
      BY <1>1
    <2> QED BY <1>8, <2>1, Zenon
  <1>11. ASSUME NEW i \in 1..N PROVE m[i] = MetTurn(rank, i, m[i - 1])
    <2>1. i \in 0..N /\ i # 0
      BY <1>1
    <2>2. m[i] = IF Group[rank[i]] \in ToSet(m[i - 1]) THEN m[i - 1] ELSE Append(m[i - 1], Group[rank[i]])
      BY <1>8, <2>1, Zenon
    <2> QED BY <2>2, Zenon DEF MetTurn
  <1> DEFINE S == {i \in 0..N : m[i] \in V}
  <1>12. 0 \in S
    <2>1. 0 \in 0..N /\ m[0] \in V
      BY <1>1, <1>10
    <2> QED BY <2>1
  <1>13. ASSUME NEW n \in 0..N, n \in S, n < N PROVE n + 1 \in S
    <2>1. n + 1 \in 1..N /\ n + 1 \in 0..N /\ (n + 1) - 1 = n /\ m[n] \in V
      BY <1>1, <1>13
    <2>2. m[n + 1] = MetTurn(rank, n + 1, m[n])
      BY <1>11, <2>1
    <2>3. MetTurn(rank, n + 1, m[n]) \in V
      BY <1>2, <2>1
    <2> QED BY <2>1, <2>2, <2>3
  <1> HIDE DEF S
  <1>14. 0..N \subseteq S
    BY <1>1, <1>12, <1>13, Climb
  <1>15. N \in S
    BY <1>1, <1>14
  <1> QED BY <1>9, <1>15 DEF S

LEMMA MembersTyped ==
  ASSUME NEW rank \in Ranks, NEW h
  PROVE  Members(rank, h) \in Seq(PoolNodes)
  <1> DEFINE N == Len(rank)
             V == Seq(PoolNodes)
             F == [i \in 1..N |-> [b \in V |-> ChosenTurn(rank, h, i, b)]]
             Runs(chosen) == chosen = [i \in 0..N |-> IF i = 0 THEN <<>> ELSE IF Group[rank[i]] = h THEN Append(chosen[i - 1], rank[i]) ELSE chosen[i - 1]]
  <1>1. N \in Nat /\ <<>> \in V
    BY RankPlaces
  <1>2. ASSUME NEW i \in 1..N, NEW b \in V PROVE ChosenTurn(rank, h, i, b) \in V
    BY RankPlaces, NodeAppended DEF ChosenTurn
  <1>3. F \in [1..N -> [V -> V]]
    <2> HIDE DEF V, N
    <2> QED BY <1>2
  <1>4. PICK g : IsRun(g, V, <<>>, N, F)
    <2> HIDE DEF F, N, V
    <2> QED BY <1>1, <1>3, Loop
  <1>5. g \in [0..N -> V] /\ g[0] = <<>> /\ \A i \in 1..N : g[i] = F[i][g[i - 1]]
    BY <1>4 DEF IsRun
  <1>6. ASSUME NEW i \in 1..N PROVE g[i] = ChosenTurn(rank, h, i, g[i - 1])
    <2>1. i - 1 \in 0..N
      BY <1>1
    <2>2. g[i - 1] \in V /\ g[i] = F[i][g[i - 1]]
      BY <1>5, <2>1
    <2> HIDE DEF V
    <2> QED BY <2>2
  <1>7. Runs(g)
    <2> DEFINE G == [i \in 0..N |-> IF i = 0 THEN <<>> ELSE IF Group[rank[i]] = h THEN Append(g[i - 1], rank[i]) ELSE g[i - 1]]
    <2>1. ASSUME NEW i \in 0..N PROVE g[i] = G[i]
      <3>1. CASE i = 0
        BY <1>5, <3>1
      <3>2. CASE i # 0
        <4>1. i \in 1..N
          BY <1>1, <3>2
        <4>2. g[i] = IF Group[rank[i]] = h THEN Append(g[i - 1], rank[i]) ELSE g[i - 1]
          BY <4>1, <1>6, Zenon DEF ChosenTurn
        <4> QED BY <3>2, <4>2, Zenon
      <3> QED BY <3>1, <3>2
    <2>2. DOMAIN g = 0..N /\ DOMAIN G = 0..N /\ g = [i \in 0..N |-> g[i]] /\ G = [i \in 0..N |-> G[i]]
      BY <1>5
    <2> HIDE DEF G
    <2>3. g = G
      BY <2>1, <2>2
    <2> QED BY <2>3, Zenon DEF G
  <1> DEFINE m == CHOOSE chosen : Runs(chosen)
  <1>8. Runs(m)
    <2> HIDE DEF Runs
    <2> QED BY <1>7
  <1>9. Members(rank, h) = m[N]
    BY Zenon DEF Members
  <1> HIDE DEF m
  <1>10. m[0] = <<>>
    <2>1. 0 \in 0..N
      BY <1>1
    <2> QED BY <1>8, <2>1, Zenon
  <1>11. ASSUME NEW i \in 1..N PROVE m[i] = ChosenTurn(rank, h, i, m[i - 1])
    <2>1. i \in 0..N /\ i # 0
      BY <1>1
    <2>2. m[i] = IF Group[rank[i]] = h THEN Append(m[i - 1], rank[i]) ELSE m[i - 1]
      BY <1>8, <2>1, Zenon
    <2> QED BY <2>2, Zenon DEF ChosenTurn
  <1> DEFINE S == {i \in 0..N : m[i] \in V}
  <1>12. 0 \in S
    <2>1. 0 \in 0..N /\ m[0] \in V
      BY <1>1, <1>10
    <2> QED BY <2>1
  <1>13. ASSUME NEW n \in 0..N, n \in S, n < N PROVE n + 1 \in S
    <2>1. n + 1 \in 1..N /\ n + 1 \in 0..N /\ (n + 1) - 1 = n /\ m[n] \in V
      BY <1>1, <1>13
    <2>2. m[n + 1] = ChosenTurn(rank, h, n + 1, m[n])
      BY <1>11, <2>1
    <2>3. ChosenTurn(rank, h, n + 1, m[n]) \in V
      BY <1>2, <2>1
    <2> QED BY <2>1, <2>2, <2>3
  <1> HIDE DEF S
  <1>14. 0..N \subseteq S
    BY <1>1, <1>12, <1>13, Climb
  <1>15. N \in S
    BY <1>1, <1>14
  <1> QED BY <1>9, <1>15 DEF S

DealtTurn(rank, total, k, before) ==
  [before EXCEPT ![((k - 1) % total) + 1] = before[((k - 1) % total) + 1] \o Members(rank, GroupOrder(rank)[k])]

LEMMA NodesJoined ==
  ASSUME NEW S, NEW s \in Seq(S), NEW t \in Seq(S) PROVE s \o t \in Seq(S)
  OBVIOUS

LEMMA DealtTyped ==
  ASSUME NEW rank \in Ranks, NEW total \in Nat \ {0}, NEW k \in Nat \ {0}, NEW b \in [1..total -> Seq(PoolNodes)]
  PROVE  DealtTurn(rank, total, k, b) \in [1..total -> Seq(PoolNodes)]
  <1> DEFINE j == ((k - 1) % total) + 1
             new == b[j] \o Members(rank, GroupOrder(rank)[k])
  <1>1. j \in 1..total
    OBVIOUS
  <1> HIDE DEF j
  <1>2. new \in Seq(PoolNodes)
    <2>1. b[j] \in Seq(PoolNodes) /\ Members(rank, GroupOrder(rank)[k]) \in Seq(PoolNodes)
      BY <1>1, MembersTyped
    <2> QED BY <2>1, NodesJoined
  <1> HIDE DEF new
  <1>3. [b EXCEPT ![j] = new] \in [1..total -> Seq(PoolNodes)]
    BY <1>1, <1>2
  <1> QED BY <1>3 DEF DealtTurn, j, new

LEMMA PlacementTyped ==
  ASSUME NEW rank \in Ranks, NEW total \in Nat \ {0}
  PROVE  Placement(rank, total) \in [1..total -> Seq(PoolNodes)]
  <1> DEFINE N == Len(GroupOrder(rank))
             V == [1..total -> Seq(PoolNodes)]
             F == [i \in 1..N |-> [b \in V |-> DealtTurn(rank, total, i, b)]]
             Runs(dealt) == dealt = [i \in 0..N |-> IF i = 0 THEN [spot \in 1..total |-> <<>>] ELSE [dealt[i - 1] EXCEPT ![((i - 1) % total) + 1] = dealt[i - 1][((i - 1) % total) + 1] \o Members(rank, GroupOrder(rank)[i])]]
  <1>1. N \in Nat /\ [i \in 1..total |-> <<>>] \in V
    BY GroupOrderTyped
  <1>2. ASSUME NEW i \in 1..N, NEW b \in V PROVE DealtTurn(rank, total, i, b) \in V
    BY <1>1, DealtTyped
  <1>3. F \in [1..N -> [V -> V]]
    <2> HIDE DEF V, N
    <2> QED BY <1>2
  <1>4. PICK g : IsRun(g, V, [i \in 1..total |-> <<>>], N, F)
    <2> HIDE DEF F, N, V
    <2> QED BY <1>1, <1>3, Loop
  <1>5. g \in [0..N -> V] /\ g[0] = [i \in 1..total |-> <<>>] /\ \A i \in 1..N : g[i] = F[i][g[i - 1]]
    BY <1>4 DEF IsRun
  <1>6. ASSUME NEW i \in 1..N PROVE g[i] = DealtTurn(rank, total, i, g[i - 1])
    <2>1. i - 1 \in 0..N
      BY <1>1
    <2>2. g[i - 1] \in V /\ g[i] = F[i][g[i - 1]]
      BY <1>5, <2>1
    <2> HIDE DEF V
    <2> QED BY <2>2
  <1>7. Runs(g)
    <2> DEFINE G == [i \in 0..N |-> IF i = 0 THEN [spot \in 1..total |-> <<>>] ELSE [g[i - 1] EXCEPT ![((i - 1) % total) + 1] = g[i - 1][((i - 1) % total) + 1] \o Members(rank, GroupOrder(rank)[i])]]
    <2>1. ASSUME NEW i \in 0..N PROVE g[i] = G[i]
      <3>1. CASE i = 0
        BY <1>5, <3>1
      <3>2. CASE i # 0
        <4>1. i \in 1..N
          BY <1>1, <3>2
        <4>2. g[i] = [g[i - 1] EXCEPT ![((i - 1) % total) + 1] = g[i - 1][((i - 1) % total) + 1] \o Members(rank, GroupOrder(rank)[i])]
          BY <4>1, <1>6, Zenon DEF DealtTurn
        <4> QED BY <3>2, <4>2, Zenon
      <3> QED BY <3>1, <3>2
    <2>2. DOMAIN g = 0..N /\ DOMAIN G = 0..N /\ g = [i \in 0..N |-> g[i]] /\ G = [i \in 0..N |-> G[i]]
      BY <1>5
    <2> HIDE DEF G
    <2>3. g = G
      BY <2>1, <2>2
    <2> QED BY <2>3, Zenon DEF G
  <1> DEFINE m == CHOOSE dealt : Runs(dealt)
  <1>8. Runs(m)
    <2> HIDE DEF Runs
    <2> QED BY <1>7
  <1>9. Placement(rank, total) = m[N]
    BY Zenon DEF Placement
  <1> HIDE DEF m
  <1>10. m[0] = [i \in 1..total |-> <<>>]
    <2>1. 0 \in 0..N
      BY <1>1
    <2> QED BY <1>8, <2>1, Zenon
  <1>11. ASSUME NEW i \in 1..N PROVE m[i] = DealtTurn(rank, total, i, m[i - 1])
    <2>1. i \in 0..N /\ i # 0
      BY <1>1
    <2>2. m[i] = [m[i - 1] EXCEPT ![((i - 1) % total) + 1] = m[i - 1][((i - 1) % total) + 1] \o Members(rank, GroupOrder(rank)[i])]
      BY <1>8, <2>1, Zenon
    <2> QED BY <2>2, Zenon DEF DealtTurn
  <1> DEFINE S == {i \in 0..N : m[i] \in V}
  <1>12. 0 \in S
    <2>1. 0 \in 0..N /\ m[0] \in V
      BY <1>1, <1>10
    <2> QED BY <2>1
  <1>13. ASSUME NEW n \in 0..N, n \in S, n < N PROVE n + 1 \in S
    <2>1. n + 1 \in 1..N /\ n + 1 \in 0..N /\ (n + 1) - 1 = n /\ m[n] \in V
      BY <1>1, <1>13
    <2>2. m[n + 1] = DealtTurn(rank, total, n + 1, m[n])
      BY <1>11, <2>1
    <2>3. DealtTurn(rank, total, n + 1, m[n]) \in V
      BY <1>2, <2>1
    <2> QED BY <2>1, <2>2, <2>3
  <1> HIDE DEF S
  <1>14. 0..N \subseteq S
    BY <1>1, <1>12, <1>13, Climb
  <1>15. N \in S
    BY <1>1, <1>14
  <1> QED BY <1>9, <1>15 DEF S

(***************************************************************************)
(* The pool's invariant                                                    *)
(***************************************************************************)

(* The stages in which an upload or a repair places parts.                 *)
Placing == op \in Writing /\ stage \in {"check", "put", "verify"}

(* The groups that hold part i, or were hit by a fault since the file was  *)
(* last written.                                                           *)
Kept(i) ==
  {g \in Groups(targets[i]) :
     g \in hit \/ \E n \in ToSet(targets[i]) : Group[n] = g /\ n \in up /\ holds[n] = parts[i]}

ManifestInv == ValidTargets(targets) /\ parts = Parts(Payload)

(* A node that is no target holds nothing.                                 *)
SparesInv == \A n \in PoolNodes : (\A i \in 1..layout.total : n \notin ToSet(targets[i])) => holds[n] = Absent

(* What is placed are the manifest's parts, and each part behind the       *)
(* cursor was counted.                                                     *)
CountsInv ==
  /\ counts \in Seq(Nat)
  /\ Placing => files = parts /\ Len(counts) = part - 1
  /\ Placing => \A i \in 1..Len(counts) : Cardinality(Kept(i)) >= counts[i]
  /\ Placing /\ part <= layout.total => groups \subseteq Kept(part)

ReportInv ==
  /\ op \in Writing => report = Absent
  /\ report # Absent /\ report.protected => \A i \in 1..layout.total : Cardinality(Kept(i)) >= layout.copies

ProofsInv == op # "audit" => proofs = {}

HitInv == hit \subseteq AllGroups

(* The parts a fetch has are parts, in order.                              *)
AvailableInv ==
  /\ available \in Seq([index : 1..layout.total, blob : Seq(Octet)])
  /\ \A k \in 1..Len(available) : available[k].index < part /\ available[k].blob = parts[available[k].index]
  /\ \A j, k \in 1..Len(available) : j < k => available[j].index < available[k].index

(* Wherever a fetch has looked, it has the part, or every target looked at *)
(* failed it or was touched by a fault meanwhile.                          *)
Got(i) == \E k \in 1..Len(available) : available[k].index = i
Fails(n, i) == n \in touched \/ ~(n \in up /\ holds[n] = parts[i])
LookedInv ==
  op \in {"fetch", "repair"} /\ stage = "get" =>
    \A i \in 1..layout.total :
      /\ i < part => Got(i) \/ \A n \in ToSet(targets[i]) : Fails(n, i)
      /\ i = part => \A t \in 1..Len(targets[i]) : t < target => Fails(targets[i][t], i)

PoolInv ==
  /\ PoolTypeOK /\ ManifestInv /\ SparesInv /\ CountsInv /\ ReportInv /\ ProofsInv /\ HitInv
  /\ AvailableInv /\ LookedInv /\ OnlyItsPart /\ AuditsAreTrue

LEMMA LayoutFacts ==
  ASSUME NEW l \in Layouts
  PROVE  /\ l.mode \in {"erasure", "replicas"} /\ l.copies \in 1..3 /\ l.required \in Nat \ {0} /\ l.total \in Nat \ {0}
         /\ l.mode = "erasure" =>
              /\ l.required < l.total /\ l.copies = 1
              /\ Encode(Payload, l.required, l.total) \in [1..l.total -> Seq(Octet)]
         /\ l.mode = "replicas" => l.required = 1 /\ l.total = 1
  BY PoolAssumption DEF codingBounds

LEMMA PlacesOfTargets ==
  ASSUME PoolTypeOK
  PROVE  /\ layout \in Layouts /\ layout.total \in Nat \ {0} /\ layout.copies \in 1..3 /\ layout.required \in Nat \ {0}
         /\ DOMAIN targets = 1..layout.total
         /\ \A i \in 1..layout.total : targets[i] \in Seq(PoolNodes) /\ ToSet(targets[i]) \subseteq PoolNodes
  BY LayoutFacts DEF PoolTypeOK, ToSet

LEMMA SpotFacts ==
  ASSUME PoolTypeOK, AtTarget
  PROVE  part \in 1..layout.total /\ Here \in PoolNodes /\ Here \in ToSet(targets[part])
  <1>1. part \in 1..layout.total /\ target \in 1..Len(targets[part])
    BY PlacesOfTargets DEF PoolTypeOK, AtTarget
  <1>2. targets[part] \in Seq(PoolNodes)
    BY <1>1, PlacesOfTargets
  <1> HIDE DEF AtTarget
  <1> QED BY <1>1, <1>2 DEF Here, ToSet

(* A node is a target of one part only.                                    *)
LEMMA OnePart ==
  ASSUME PoolTypeOK, ManifestInv, NEW i \in 1..layout.total, NEW j \in 1..layout.total,
         NEW m \in ToSet(targets[i]), NEW n \in ToSet(targets[j]), Group[m] = Group[n]
  PROVE  i = j
  <1>1. Group[m] \in Groups(targets[i]) /\ Group[n] \in Groups(targets[j])
    BY DEF Groups
  <1> QED BY <1>1, PlacesOfTargets DEF ManifestInv, ValidTargets

LEMMA AllGroupsFinite == IsFiniteSet(AllGroups)
  <1> DEFINE f == [n \in PoolNodes |-> Group[n]]
  <1>1. f \in Surjection(PoolNodes, AllGroups)
    BY DEF Surjection, AllGroups
  <1> HIDE DEF f
  <1> QED BY <1>1, PoolAssumption, FS_Surjection

LEMMA KeptFinite ==
  ASSUME PoolTypeOK, NEW i \in 1..layout.total
  PROVE  Kept(i) \subseteq AllGroups /\ IsFiniteSet(Kept(i)) /\ Cardinality(Kept(i)) \in Nat
  <1>1. Kept(i) \subseteq AllGroups
    BY PlacesOfTargets DEF Kept, Groups, AllGroups
  <1> QED BY <1>1, AllGroupsFinite, FS_Subset, FS_CardinalityType

(* A step that undoes no copy but by a hit keeps what is kept.             *)
LEMMA KeptGrows ==
  ASSUME NEW i, targets' = targets, parts' = parts, hit \subseteq hit',
         \A n \in ToSet(targets[i]) :
           n \in up /\ holds[n] = parts[i] => Group[n] \in hit' \/ (n \in up' /\ holds'[n] = parts[i])
  PROVE  Kept(i) \subseteq Kept(i)'
  <1> SUFFICES ASSUME NEW g \in Kept(i) PROVE g \in Kept(i)'
    OBVIOUS
  <1>1. g \in Groups(targets[i])' /\ Groups(targets[i])' = Groups(targets[i])
    BY DEF Kept, Groups
  <1>2. CASE g \in hit
    BY <1>1, <1>2 DEF Kept
  <1>3. CASE \E n \in ToSet(targets[i]) : Group[n] = g /\ n \in up /\ holds[n] = parts[i]
    <2>1. PICK n \in ToSet(targets[i]) : Group[n] = g /\ n \in up /\ holds[n] = parts[i]
      BY <1>3
    <2>2. g \in hit' \/ (n \in up' /\ holds'[n] = parts'[i])
      BY <2>1
    <2>3. n \in ToSet(targets[i])'
      BY <2>1
    <2> QED BY <1>1, <2>1, <2>2, <2>3 DEF Kept
  <1> QED BY <1>2, <1>3 DEF Kept

LEMMA KeptMore ==
  ASSUME PoolTypeOK, PoolTypeOK', layout' = layout, NEW i \in 1..layout.total, Kept(i) \subseteq Kept(i)', NEW c \in Nat,
         Cardinality(Kept(i)) >= c
  PROVE  Cardinality(Kept(i)') >= c
  <1>1. IsFiniteSet(Kept(i)') /\ Cardinality(Kept(i)') \in Nat
    <2>1. Kept(i)' \subseteq AllGroups
      BY PlacesOfTargets DEF Kept, Groups, AllGroups, PoolTypeOK, ToSet
    <2> QED BY <2>1, AllGroupsFinite, FS_Subset, FS_CardinalityType
  <1>2. Cardinality(Kept(i)) <= Cardinality(Kept(i)') /\ Cardinality(Kept(i)) \in Nat
    BY <1>1, FS_Subset, KeptFinite
  <1> QED BY <1>1, <1>2

LEMMA ElementTyped ==
  ASSUME NEW S, NEW s \in Seq(S), NEW k \in 1..Len(s) PROVE s[k] \in S
  OBVIOUS

LEMMA AvailableParts ==
  ASSUME AvailableInv
  PROVE  \A k \in 1..Len(available) : available[k].index \in 1..layout.total
  <1> DEFINE E == [index : 1..layout.total, blob : Seq(Octet)]
  <1>1. available \in Seq(E)
    BY DEF AvailableInv
  <1>2. \A e \in E : e.index \in 1..layout.total
    OBVIOUS
  <1> HIDE DEF E
  <1> QED BY <1>1, <1>2, ElementTyped

(* What a fetch has stays true while the cursor moves on.                  *)
LEMMA AvailableStays ==
  ASSUME PoolInv, UNCHANGED <<layout, parts, available>>, part' \in {part, part + 1}
  PROVE  AvailableInv'
  <1>1. part \in Nat
    BY PlacesOfTargets DEF PoolInv, PoolTypeOK
  <1>2. \A i \in 1..layout.total : i < part => i < part'
    BY <1>1, PlacesOfTargets DEF PoolInv
  <1>3. \A k \in 1..Len(available) : available[k].index \in 1..layout.total
    BY AvailableParts DEF PoolInv
  <1> QED BY <1>2, <1>3 DEF PoolInv, AvailableInv

(* A step that moves only the cursor.                                      *)
LEMMA CursorStep ==
  ASSUME PoolInv, PoolTypeOK', CountsInv', AvailableInv', LookedInv',
         UNCHANGED <<layout, targets, parts, up, holds, op, report, fetched, proofs, hit, touched>>
  PROVE  PoolInv'
  <1>1. ManifestInv' /\ SparesInv' /\ ProofsInv' /\ HitInv'
    BY DEF PoolInv, ManifestInv, ValidTargets, Groups, Parts, SparesInv, ProofsInv, HitInv
  <1>2. ReportInv'
    BY DEF PoolInv, ReportInv, Kept, Groups
  <1>3. OnlyItsPart' /\ AuditsAreTrue'
    BY DEF PoolInv, OnlyItsPart, AuditsAreTrue
  <1> QED BY <1>1, <1>2, <1>3 DEF PoolInv

LEMMA NatAppended ==
  ASSUME NEW s \in Seq(Nat), NEW x \in Nat
  PROVE  /\ Append(s, x) \in Seq(Nat) /\ Len(Append(s, x)) = Len(s) + 1 /\ Len(s) \in Nat
         /\ Append(s, x)[Len(s) + 1] = x /\ \A i \in 1..Len(s) : Append(s, x)[i] = s[i]
  OBVIOUS

(* The cursor moves on to the next part, whose predecessor counts c.       *)
LEMMA NextPartStep ==
  ASSUME PoolInv, Placing, part \in 1..layout.total, NEW c \in Nat, Cardinality(Kept(part)) >= c,
         NextPart("check"), counts' = Append(counts, c),
         UNCHANGED <<manifest, nodes, op, available, files, outcome, ops, hit, touched>>
  PROVE  PoolInv'
  <1>1. /\ part' = part + 1 /\ target' = 1 /\ stage' = "check" /\ groups' = {}
        /\ UNCHANGED <<layout, targets, parts, up, holds, faults, op, available, files, report, fetched, proofs, ops, hit, touched>>
    BY DEF NextPart, manifest, nodes, outcome
  <1>2. counts \in Seq(Nat) /\ Len(counts) = part - 1 /\ files = parts /\ layout.total \in Nat
    BY PlacesOfTargets DEF PoolInv, CountsInv
  <1>3. /\ counts' \in Seq(Nat) /\ Len(counts') = Len(counts) + 1 /\ Len(counts) \in Nat
        /\ counts'[Len(counts) + 1] = c /\ \A i \in 1..Len(counts) : counts'[i] = counts[i]
    BY <1>2, NatAppended
  <1>4. PoolTypeOK'
    <2>1. part' \in 1..layout'.total + 1 /\ Len(counts') < part'
      BY <1>1, <1>2, <1>3
    <2>2. target' \in Nat /\ target' >= 1 /\ groups' \subseteq {Group[n] : n \in PoolNodes}
      BY <1>1
    <2>3. stage' \in {"check", "put", "verify", "get", "challenge", "retrieval", "lied"}
      BY <1>1
    <2>4. /\ layout \in Layouts /\ DOMAIN targets = 1..layout.total
          /\ \A i \in 1..layout.total : targets[i] \in Seq(PoolNodes) /\ parts[i] \in Seq(Octet)
          /\ up \subseteq PoolNodes /\ DOMAIN holds = PoolNodes
          /\ op \in {Absent, "upload", "fetch", "repair", "audit"}
          /\ Len(available) <= layout.required
          /\ proofs \subseteq PoolNodes /\ ops \in 0..MaxOps /\ faults \in 0..MaxFaults
      BY DEF PoolInv, PoolTypeOK
    <2> QED BY <1>1, <2>1, <2>2, <2>3, <2>4 DEF PoolTypeOK
  <1>5. \A i : Kept(i)' = Kept(i)
    BY <1>1 DEF Kept, Groups
  <1>6. CountsInv'
    <2>1. Len(counts') = part' - 1
      BY <1>1, <1>2, <1>3
    <2>2. ASSUME NEW i \in 1..Len(counts') PROVE Cardinality(Kept(i)') >= counts'[i]
      <3>1. CASE i = part
        BY <1>2, <1>3, <1>5, <3>1
      <3>2. CASE i # part
        <4>1. i \in 1..Len(counts)
          BY <1>2, <1>3, <3>2
        <4> QED BY <1>3, <1>5, <4>1 DEF PoolInv, CountsInv
      <3> QED BY <3>1, <3>2
    <2> QED BY <1>1, <1>2, <1>3, <2>1, <2>2 DEF CountsInv
  <1>7. AvailableInv' /\ LookedInv'
    BY <1>1, AvailableStays DEF LookedInv
  <1> QED BY <1>1, <1>4, <1>6, <1>7, CursorStep

(* The cursor stays at its part, at this target or the next.               *)
LEMMA StayStep ==
  ASSUME PoolInv, Placing, part \in 1..layout.total, groups' \subseteq Kept(part),
         target' \in {target, target + 1}, stage' \in {"check", "put", "verify"}, UNCHANGED <<part, counts>>,
         UNCHANGED <<manifest, nodes, op, available, files, outcome, ops, hit, touched>>
  PROVE  PoolInv'
  <1>1. UNCHANGED <<layout, targets, parts, up, holds, faults, op, available, files, report, fetched, proofs, ops, hit, touched>>
    BY DEF manifest, nodes, outcome
  <1>2. PoolTypeOK'
    <2>1. groups' \subseteq AllGroups
      BY KeptFinite DEF PoolInv
    <2>2. target' \in Nat /\ target' >= 1
      BY DEF PoolInv, PoolTypeOK
    <2> QED BY <1>1, <2>1, <2>2 DEF PoolInv, PoolTypeOK, AllGroups
  <1>3. \A i : Kept(i)' = Kept(i)
    BY <1>1 DEF Kept, Groups
  <1>4. CountsInv'
    BY <1>1, <1>3 DEF PoolInv, CountsInv, Placing
  <1>5. AvailableInv' /\ LookedInv'
    BY <1>1, AvailableStays DEF LookedInv
  <1> QED BY <1>1, <1>2, <1>4, <1>5, CursorStep

(* The group of a target that serves its part is kept.                     *)
LEMMA ServedIsKept ==
  ASSUME PoolInv, Placing, AtTarget, Serves(Here)
  PROVE  /\ part \in 1..layout.total /\ Counted(Here) \subseteq Kept(part)
         /\ Cardinality(Counted(Here)) \in Nat /\ Cardinality(Kept(part)) >= Cardinality(Counted(Here))
  <1>1. part \in 1..layout.total /\ Here \in ToSet(targets[part])
    BY SpotFacts DEF PoolInv
  <1>2. Group[Here] \in Kept(part)
    BY <1>1 DEF Kept, Groups, Serves
  <1>3. groups \subseteq Kept(part)
    BY <1>1, PlacesOfTargets DEF PoolInv, CountsInv
  <1>4. Counted(Here) \subseteq Kept(part)
    BY <1>2, <1>3 DEF Counted
  <1>5. IsFiniteSet(Kept(part)) /\ Cardinality(Kept(part)) \in Nat
    BY <1>1, KeptFinite DEF PoolInv
  <1>6. IsFiniteSet(Counted(Here)) /\ Cardinality(Counted(Here)) <= Cardinality(Kept(part))
    BY <1>4, <1>5, FS_Subset
  <1>7. Cardinality(Counted(Here)) \in Nat
    BY <1>6, FS_CardinalityType
  <1> QED BY <1>1, <1>4, <1>5, <1>6, <1>7

LEMMA VerifiedStep ==
  ASSUME PoolInv, Placing, AtTarget, Serves(Here), Verified,
         UNCHANGED <<manifest, nodes, op, available, files, outcome, ops, hit, touched>>
  PROVE  PoolInv'
  <1>1. /\ part \in 1..layout.total /\ Counted(Here) \subseteq Kept(part)
        /\ Cardinality(Counted(Here)) \in Nat /\ Cardinality(Kept(part)) >= Cardinality(Counted(Here))
    BY ServedIsKept
  <1>2. CASE NextPart("check") /\ counts' = Append(counts, Cardinality(Counted(Here)))
    <2> DEFINE c == Cardinality(Counted(Here))
    <2>1. c \in Nat /\ Cardinality(Kept(part)) >= c /\ counts' = Append(counts, c)
      BY <1>1, <1>2
    <2> HIDE DEF c
    <2> QED BY <1>1, <1>2, <2>1, NextPartStep
  <1>3. CASE /\ groups' = Counted(Here) /\ target' = target + 1 /\ stage' = "check"
             /\ UNCHANGED <<part, counts>>
    BY <1>1, <1>3, StayStep
  <1> QED BY <1>2, <1>3 DEF Verified

LEMMA GroupsAreKept ==
  ASSUME PoolInv, Placing, part <= layout.total
  PROVE  groups \subseteq Kept(part) /\ part \in 1..layout.total
  BY PlacesOfTargets DEF PoolInv, CountsInv, PoolTypeOK

LEMMA WritingStep ==
  ASSUME PoolInv, SkipTarget \/ CheckTarget \/ VerifyPart \/ PartEnds
  PROVE  PoolInv'
  <1>1. CASE SkipTarget
    <2>1. /\ Placing /\ AtTarget /\ NextTarget("check")
          /\ UNCHANGED <<manifest, nodes, op, available, files, outcome, ops, hit, touched>>
      BY <1>1 DEF SkipTarget, At, Placing
    <2>2. groups' = groups /\ UNCHANGED <<part, counts>> /\ target' = target + 1 /\ stage' = "check" /\ part <= layout.total
      BY <2>1 DEF NextTarget, AtTarget
    <2> QED BY <2>1, <2>2, GroupsAreKept, StayStep
  <1>2. CASE CheckTarget
    <2>1. /\ Placing /\ AtTarget
          /\ UNCHANGED <<manifest, nodes, op, available, files, outcome, ops, hit, touched>>
          /\ (Serves(Here) /\ Verified) \/ (stage' = "put" /\ UNCHANGED <<part, target, groups, counts>>)
      BY <1>2 DEF CheckTarget, At, Placing
    <2>2. CASE Serves(Here) /\ Verified
      BY <2>1, <2>2, VerifiedStep
    <2>3. CASE stage' = "put" /\ UNCHANGED <<part, target, groups, counts>>
      BY <2>1, <2>3, GroupsAreKept, StayStep DEF AtTarget
    <2> QED BY <2>1, <2>2, <2>3
  <1>3. CASE VerifyPart
    <2>1. /\ Placing /\ AtTarget
          /\ UNCHANGED <<manifest, nodes, op, available, files, outcome, ops, hit, touched>>
          /\ (Serves(Here) /\ Verified) \/ NextTarget("check")
      BY <1>3 DEF VerifyPart, At, Placing, ReadBack
    <2>2. CASE Serves(Here) /\ Verified
      BY <2>1, <2>2, VerifiedStep
    <2>3. CASE NextTarget("check")
      BY <2>1, <2>3, GroupsAreKept, StayStep DEF AtTarget, NextTarget
    <2> QED BY <2>1, <2>2, <2>3
  <1>4. CASE PartEnds
    <2>1. /\ Placing /\ part <= layout.total /\ NextPart("check") /\ counts' = Append(counts, Cardinality(groups))
          /\ UNCHANGED <<manifest, nodes, op, available, files, outcome, ops, hit, touched>>
      BY <1>4 DEF PartEnds, Placing
    <2>2. groups \subseteq Kept(part) /\ part \in 1..layout.total
      BY <2>1, GroupsAreKept
    <2>3. IsFiniteSet(Kept(part)) /\ Cardinality(Kept(part)) \in Nat
      BY <2>2, KeptFinite DEF PoolInv
    <2>4. IsFiniteSet(groups) /\ Cardinality(groups) <= Cardinality(Kept(part))
      BY <2>2, <2>3, FS_Subset
    <2>5. Cardinality(groups) \in Nat
      BY <2>4, FS_CardinalityType
    <2> DEFINE c == Cardinality(groups)
    <2>6. c \in Nat /\ Cardinality(Kept(part)) >= c /\ counts' = Append(counts, c)
      BY <2>1, <2>3, <2>4, <2>5
    <2> HIDE DEF c
    <2> QED BY <2>1, <2>2, <2>6, NextPartStep
  <1> QED BY <1>1, <1>2, <1>3, <1>4

(* A step that stores the part at its target, or leaves the nodes alone.   *)
LEMMA StoreStep ==
  ASSUME PoolInv, Placing, AtTarget,
         holds' \in {holds, [holds EXCEPT ![Here] = PartFor(part)]},
         target' \in {target, target + 1}, stage' \in {"check", "verify"}, UNCHANGED <<part, groups, counts>>,
         UNCHANGED <<manifest, up, faults, op, available, files, outcome, ops, hit, touched>>
  PROVE  PoolInv'
  <1>1. UNCHANGED <<layout, targets, parts, up, faults, op, available, files, report, fetched, proofs, ops, hit, touched>>
    BY DEF manifest, outcome
  <1>2. part \in 1..layout.total /\ Here \in PoolNodes /\ Here \in ToSet(targets[part])
    BY SpotFacts DEF PoolInv
  <1>3. DOMAIN holds = PoolNodes /\ PartFor(part) = parts[part]
    BY DEF PoolInv, PoolTypeOK, CountsInv, PartFor
  <1>4. DOMAIN holds' = PoolNodes /\ \A n \in PoolNodes : holds'[n] = holds[n] \/ (n = Here /\ holds'[n] = parts[part])
    BY <1>3
  <1>5. PoolTypeOK'
    BY <1>1, <1>4 DEF PoolInv, PoolTypeOK
  <1>6. ManifestInv' /\ ProofsInv' /\ HitInv'
    BY <1>1 DEF PoolInv, ManifestInv, ValidTargets, Groups, Parts, ProofsInv, HitInv
  <1>7. SparesInv'
    BY <1>1, <1>2, <1>4 DEF PoolInv, SparesInv
  <1>8. ASSUME NEW i \in 1..layout.total, NEW n \in ToSet(targets[i])
        PROVE  n \in PoolNodes /\ (holds'[n] = holds[n] \/ holds'[n] = parts[i])
    <2>1. n \in PoolNodes
      BY PlacesOfTargets DEF PoolInv
    <2>2. n = Here => i = part
      BY <1>2, OnePart DEF PoolInv
    <2> QED BY <1>4, <2>1, <2>2
  <1>9. \A i \in 1..layout.total : Kept(i) \subseteq Kept(i)'
    BY <1>1, <1>8, KeptGrows
  <1>10. CountsInv'
    <2>1. counts \in Seq(Nat) /\ Len(counts) = part - 1 /\ Len(counts) \in Nat
      BY DEF PoolInv, CountsInv
    <2>2. ASSUME NEW i \in 1..Len(counts) PROVE Cardinality(Kept(i)') >= counts[i]
      <3>1. i \in 1..layout.total /\ counts[i] \in Nat
        BY <1>2, <2>1, PlacesOfTargets DEF PoolInv
      <3>2. Cardinality(Kept(i)) >= counts[i]
        BY DEF PoolInv, CountsInv
      <3> QED BY <1>1, <1>5, <1>9, <3>1, <3>2, KeptMore DEF PoolInv
    <2>3. groups \subseteq Kept(part)'
      BY <1>2, <1>9, GroupsAreKept DEF AtTarget
    <2> QED BY <1>1, <2>1, <2>2, <2>3 DEF PoolInv, CountsInv, Placing
  <1>11. ReportInv'
    BY <1>1 DEF PoolInv, ReportInv, Placing
  <1>12. OnlyItsPart'
    <2>1. \A i \in DOMAIN targets : \A n \in ToSet(targets[i]) : holds'[n] \in {Absent, Spoiled, parts[i]}
      BY <1>8, PlacesOfTargets DEF PoolInv, OnlyItsPart
    <2> QED BY <1>1, <2>1 DEF PoolInv, OnlyItsPart
  <1>13. AuditsAreTrue'
    BY <1>1 DEF AuditsAreTrue, Placing, Writing
  <1>14. AvailableInv' /\ LookedInv'
    BY <1>1, AvailableStays DEF LookedInv
  <1> QED BY <1>5, <1>6, <1>7, <1>10, <1>11, <1>12, <1>13, <1>14 DEF PoolInv

LEMMA PutStep ==
  ASSUME PoolInv, PutPart \/ PutFails PROVE PoolInv'
  <1>1. CASE PutPart
    <2>1. /\ Placing /\ AtTarget /\ holds' \in {holds, [holds EXCEPT ![Here] = PartFor(part)]}
          /\ stage' = "verify" /\ UNCHANGED <<part, target, groups, counts>>
          /\ UNCHANGED <<manifest, up, faults, op, available, files, outcome, ops, hit, touched>>
      BY <1>1 DEF PutPart, At, Placing
    <2> QED BY <2>1, StoreStep
  <1>2. CASE PutFails
    <2>1. /\ Placing /\ AtTarget /\ holds' \in {holds, [holds EXCEPT ![Here] = PartFor(part)]}
          /\ NextTarget("check")
          /\ UNCHANGED <<manifest, up, faults, op, available, files, outcome, ops, hit, touched>>
      BY <1>2 DEF PutFails, At, Placing
    <2> QED BY <2>1, StoreStep DEF NextTarget
  <1> QED BY <1>1, <1>2

(* An operation that is over, with or without a report.                    *)
LEMMA RewoundType ==
  ASSUME PoolInv, NEW first \in {"check", "get", "challenge"}, Rewind(first), layout' = layout
  PROVE  /\ stage' = first /\ part' \in 1..layout'.total + 1 /\ target' \in Nat /\ target' >= 1 /\ groups' = {}
         /\ counts' \in Seq(Nat) /\ Len(counts') = 0 /\ part' = 1 /\ Len(counts') < part' /\ Len(available') <= layout'.required
  BY PlacesOfTargets DEF Rewind, PoolInv

(* A fetch that begins, and what is no fetch, has nothing.                 *)
LEMMA RewoundAvailable ==
  ASSUME NEW first, Rewind(first) PROVE AvailableInv'
  <1>1. available' = <<>>
    BY DEF Rewind
  <1>2. <<>> \in Seq([index : 1..layout'.total, blob : Seq(Octet)]) /\ Len(<<>>) = 0
    OBVIOUS
  <1>3. 1..0 = {}
    OBVIOUS
  <1> QED BY <1>1, <1>2, <1>3 DEF AvailableInv

LEMMA DoneStep ==
  ASSUME PoolInv, op # Absent, Done, UNCHANGED <<layout, targets, parts, up, holds, faults, ops>>, hit' \in {hit, {}},
         fetched' # Absent /\ fetched'.ok => fetched'.blob = Payload,
         report' # Absent /\ report'.protected =>
           hit' = hit /\ \A i \in 1..layout.total : Cardinality(Kept(i)) >= layout.copies
  PROVE  PoolInv'
  <1>1. op' = Absent /\ Rewind("check") /\ proofs' = {}
    BY DEF Done
  <1>2. PoolTypeOK'
    BY <1>1, RewoundType DEF PoolInv, PoolTypeOK
  <1>3. ManifestInv' /\ SparesInv' /\ ProofsInv' /\ HitInv'
    BY <1>1 DEF PoolInv, ManifestInv, ValidTargets, Groups, Parts, SparesInv, ProofsInv, HitInv
  <1>4. CountsInv'
    BY <1>1, RewoundType, PoolAssumption DEF CountsInv, Placing, Writing
  <1>5. ReportInv'
    BY <1>1, PoolAssumption DEF ReportInv, Writing, Kept, Groups
  <1>6. OnlyItsPart' /\ AuditsAreTrue'
    BY <1>1, PoolAssumption DEF PoolInv, OnlyItsPart, AuditsAreTrue
  <1>7. AvailableInv' /\ LookedInv'
    BY <1>1, RewoundAvailable, PoolAssumption DEF LookedInv
  <1> QED BY <1>2, <1>3, <1>4, <1>5, <1>6, <1>7 DEF PoolInv

LEMMA ReportsStep ==
  ASSUME PoolInv, Reports PROVE PoolInv'
  <1>1. /\ Placing /\ part > layout.total /\ Done /\ hit' = (IF Protected THEN hit ELSE {})
        /\ report' = [protected |-> Protected,
                      recoverable |-> Cardinality({i \in DOMAIN counts : counts[i] > 0}) >= layout.required]
        /\ UNCHANGED <<layout, targets, parts, up, holds, faults, fetched, ops>>
    BY DEF Reports, Placing, manifest, nodes
  <1>2. report'.protected = Protected
    BY <1>1
  <1>3. ASSUME Protected PROVE \A i \in 1..layout.total : Cardinality(Kept(i)) >= layout.copies
    <2>1. part \in Nat /\ part <= layout.total + 1 /\ layout.total \in Nat /\ layout.copies \in Nat
      BY PlacesOfTargets DEF PoolInv, PoolTypeOK
    <2>2. Len(counts) = part - 1 /\ counts \in Seq(Nat)
      BY <1>1 DEF PoolInv, CountsInv
    <2>3. Len(counts) = layout.total /\ DOMAIN counts = 1..layout.total
      BY <1>1, <2>1, <2>2
    <2>4. ASSUME NEW i \in 1..layout.total PROVE Cardinality(Kept(i)) >= layout.copies
      <3>1. counts[i] >= layout.copies /\ counts[i] \in Nat
        BY <1>3, <2>2, <2>3 DEF Protected
      <3>2. Cardinality(Kept(i)) >= counts[i] /\ Cardinality(Kept(i)) \in Nat
        BY <1>1, <2>3, KeptFinite DEF PoolInv, CountsInv
      <3> QED BY <2>1, <3>1, <3>2
    <2> QED BY <2>4
  <1>4. op # Absent
    BY <1>1, PoolAssumption DEF Placing, Writing
  <1>5. fetched' # Absent /\ fetched'.ok => fetched'.blob = Payload
    BY <1>1 DEF PoolInv, OnlyItsPart
  <1> QED BY <1>1, <1>2, <1>3, <1>4, <1>5, DoneStep

LEMMA CancelStep ==
  ASSUME PoolInv, Cancel PROVE PoolInv'
  <1>1. /\ op # Absent /\ Done /\ hit' = (IF op \in Writing THEN {} ELSE hit)
        /\ UNCHANGED <<layout, targets, parts, up, holds, faults, report, fetched, ops>>
    BY DEF Cancel, manifest, nodes
  <1> QED BY <1>1, DoneStep DEF PoolInv, OnlyItsPart, ReportInv

(* A step of fetchPool() that goes on looking.                             *)
LEMMA LookStep ==
  ASSUME PoolInv, op \in {"fetch", "repair"}, stage = "get", part <= layout.total,
         Len(available') <= layout.required, AvailableInv', LookedInv',
         \/ NextPart("get") /\ UNCHANGED counts
         \/ NextTarget("get"),
         UNCHANGED <<manifest, nodes, op, files, outcome, ops, hit, touched>>
  PROVE  PoolInv'
  <1>1. /\ UNCHANGED <<layout, targets, parts, up, holds, faults, op, files, report, fetched, proofs, ops, hit, touched, counts>>
        /\ stage' = "get" /\ part' \in {part, part + 1} /\ target' \in {1, target + 1} /\ groups' \in {{}, groups}
    BY DEF manifest, nodes, outcome, NextPart, NextTarget
  <1>2. part' \in 1..layout'.total + 1 /\ Len(counts') < part' /\ target' \in Nat /\ target' >= 1
    BY <1>1, PlacesOfTargets DEF PoolInv, PoolTypeOK, CountsInv
  <1>3. PoolTypeOK'
    BY <1>1, <1>2 DEF PoolInv, PoolTypeOK
  <1>4. CountsInv'
    BY <1>1 DEF PoolInv, CountsInv, Placing
  <1> QED BY <1>1, <1>3, <1>4, CursorStep

LEMMA PartAppended ==
  ASSUME NEW S, NEW s \in Seq(S), NEW x \in S
  PROVE  /\ Append(s, x) \in Seq(S) /\ Len(Append(s, x)) = Len(s) + 1 /\ Len(s) \in Nat
         /\ Append(s, x)[Len(s) + 1] = x /\ \A i \in 1..Len(s) : Append(s, x)[i] = s[i]
  OBVIOUS

LEMMA GetStep ==
  ASSUME PoolInv, GetPart PROVE PoolInv'
  <1> DEFINE new == [index |-> part, blob |-> holds[Here]]
             E == [index : 1..layout.total, blob : Seq(Octet)]
  <1>1. /\ op \in {"fetch", "repair"} /\ stage = "get" /\ AtTarget /\ ~Enough
        /\ UNCHANGED <<manifest, nodes, op, files, outcome, ops, hit, touched>>
        /\ \/ Serves(Here) /\ available' = Append(available, new) /\ NextPart("get") /\ UNCHANGED counts
           \/ ~Serves(Here) /\ NextTarget("get") /\ UNCHANGED available
    BY DEF GetPart, At
  <1>2. /\ part \in 1..layout.total /\ part <= layout.total /\ Here \in ToSet(targets[part])
        /\ layout.total \in Nat /\ layout.required \in Nat /\ target \in Nat
        /\ \A i \in 1..layout.total : targets[i] \in Seq(PoolNodes)
    BY <1>1, SpotFacts, PlacesOfTargets DEF PoolInv, PoolTypeOK
  <1>3. /\ available \in Seq(E) /\ Len(available) \in Nat
        /\ \A k \in 1..Len(available) : available[k].index < part /\ available[k].blob = parts[available[k].index]
        /\ \A j, k \in 1..Len(available) : j < k => available[j].index < available[k].index
    <2>1. available \in Seq(E)
      BY DEF PoolInv, AvailableInv
    <2>2. Len(available) \in Nat
      BY <2>1
    <2> QED BY <2>1, <2>2 DEF PoolInv, AvailableInv
  <1>4. UNCHANGED <<layout, targets, parts, up, holds, op, touched>>
    BY <1>1 DEF manifest, nodes
  <1>5. CASE Serves(Here) /\ available' = Append(available, new) /\ NextPart("get") /\ UNCHANGED counts
    <2>1. part' = part + 1 /\ target' = 1 /\ stage' = "get"
      BY <1>5 DEF NextPart
    <2>2. new \in E /\ new.index = part /\ new.blob = parts[part]
      BY <1>2, <1>5 DEF Serves, PoolInv, PoolTypeOK
    <2> HIDE DEF new, E
    <2>3. /\ available' \in Seq(E) /\ Len(available') = Len(available) + 1
          /\ available'[Len(available) + 1] = new /\ \A k \in 1..Len(available) : available'[k] = available[k]
      BY <1>3, <1>5, <2>2, PartAppended
    <2>4. \A k \in 1..Len(available') : k \in 1..Len(available) \/ k = Len(available) + 1
      BY <1>3, <2>3
    <2>5. \A k \in 1..Len(available) : available[k].index \in 1..layout.total
      BY AvailableParts DEF PoolInv
    <2>6. Len(available') <= layout.required
      BY <1>1, <1>2, <1>3, <2>3 DEF Enough
    <2>7. AvailableInv'
      <3>1. ASSUME NEW k \in 1..Len(available')
            PROVE  available'[k].index < part' /\ available'[k].blob = parts[available'[k].index]
        BY <1>2, <1>3, <2>1, <2>2, <2>3, <2>4, <2>5
      <3>2. ASSUME NEW j \in 1..Len(available'), NEW k \in 1..Len(available'), j < k
            PROVE  available'[j].index < available'[k].index
        <4>1. j \in 1..Len(available)
          BY <1>3, <2>3, <2>4, <3>2
        <4> QED BY <1>3, <2>2, <2>3, <2>4, <3>2, <4>1
      <3> QED BY <1>4, <2>3, <3>1, <3>2 DEF AvailableInv, E
    <2>8. LookedInv'
      <3> SUFFICES ASSUME NEW i \in 1..layout.total
                   PROVE  /\ i < part' => Got(i)' \/ \A n \in ToSet(targets[i]) : Fails(n, i)'
                          /\ i = part' => \A t \in 1..Len(targets[i]) : t < target' => Fails(targets[i][t], i)'
        BY <1>4 DEF LookedInv
      <3>1. ASSUME i = part PROVE Got(i)'
        <4>1. Len(available) + 1 \in 1..Len(available')
          BY <1>3, <2>3
        <4> QED BY <2>2, <2>3, <3>1, <4>1 DEF Got
      <3>2. Got(i) => Got(i)'
        BY <1>3, <2>3 DEF Got
      <3>3. ASSUME i < part PROVE Got(i) \/ \A n \in ToSet(targets[i]) : Fails(n, i)
        BY <1>1, <3>3 DEF PoolInv, LookedInv
      <3>4. \A n : Fails(n, i)' = Fails(n, i)
        BY <1>4 DEF Fails
      <3>5. i < part' => i < part \/ i = part
        BY <1>2, <2>1
      <3>6. \A t \in 1..Len(targets[i]) : ~(t < target')
        BY <1>2, <2>1
      <3> QED BY <3>1, <3>2, <3>3, <3>4, <3>5, <3>6
    <2> QED BY <1>1, <1>2, <1>5, <2>6, <2>7, <2>8, LookStep
  <1>6. CASE ~Serves(Here) /\ NextTarget("get") /\ UNCHANGED available
    <2>1. part' = part /\ target' = target + 1 /\ stage' = "get" /\ available' = available
      BY <1>6 DEF NextTarget
    <2>2. AvailableInv'
      BY <1>4, <2>1, AvailableStays
    <2>3. LookedInv'
      <3> SUFFICES ASSUME NEW i \in 1..layout.total
                   PROVE  /\ i < part' => Got(i)' \/ \A n \in ToSet(targets[i]) : Fails(n, i)'
                          /\ i = part' => \A t \in 1..Len(targets[i]) : t < target' => Fails(targets[i][t], i)'
        BY <1>4 DEF LookedInv
      <3>1. (\A n : Fails(n, i)' = Fails(n, i)) /\ Got(i)' = Got(i)
        BY <1>4, <2>1 DEF Fails, Got
      <3>2. i < part => Got(i) \/ \A n \in ToSet(targets[i]) : Fails(n, i)
        BY <1>1 DEF PoolInv, LookedInv
      <3>3. ASSUME i = part, NEW t \in 1..Len(targets[i]), t < target + 1 PROVE Fails(targets[i][t], i)
        <4>1. CASE t < target
          BY <1>1, <3>3, <4>1 DEF PoolInv, LookedInv
        <4>2. CASE t = target
          BY <1>6, <3>3, <4>2 DEF Fails, Serves, Here
        <4>3. t \in Nat
          BY <1>2
        <4>4. target \in Nat
          BY <1>2
        <4>5. t < target \/ t = target
          BY <3>3, <4>3, <4>4
        <4> QED BY <4>1, <4>2, <4>5, Zenon
      <3>4. i < part' => Got(i)' \/ \A n \in ToSet(targets[i]) : Fails(n, i)'
        BY <2>1, <3>1, <3>2
      <3>5. i = part' => \A t \in 1..Len(targets[i]) : t < target' => Fails(targets[i][t], i)'
        <4> SUFFICES ASSUME i = part', NEW t \in 1..Len(targets[i]), t < target' PROVE Fails(targets[i][t], i)'
          OBVIOUS
        <4>1. Fails(targets[i][t], i)
          BY <2>1, <3>3
        <4> QED BY <1>4, <4>1 DEF Fails
      <3> QED BY <3>4, <3>5
    <2>4. Len(available') <= layout.required
      BY <2>1 DEF PoolInv, PoolTypeOK
    <2> QED BY <1>1, <1>2, <1>6, <2>2, <2>3, <2>4, LookStep
  <1> QED BY <1>1, <1>5, <1>6

LEMMA NoMoreStep ==
  ASSUME PoolInv, NoMoreTargets PROVE PoolInv'
  <1>1. /\ op \in {"fetch", "repair"} /\ stage = "get" /\ part <= layout.total /\ ~AtTarget /\ NextPart("get")
        /\ UNCHANGED <<manifest, nodes, op, counts, available, files, outcome, ops, hit, touched>>
    BY DEF NoMoreTargets
  <1>2. /\ part \in 1..layout.total /\ layout.total \in Nat /\ target \in Nat
        /\ \A i \in 1..layout.total : targets[i] \in Seq(PoolNodes)
    BY <1>1, PlacesOfTargets DEF PoolInv, PoolTypeOK
  <1>3. UNCHANGED <<layout, targets, parts, up, holds, op, touched, available>> /\ part' = part + 1 /\ target' = 1 /\ stage' = "get"
    BY <1>1 DEF manifest, nodes, NextPart
  <1>4. AvailableInv'
    BY <1>3, AvailableStays
  <1>5. LookedInv'
    <2> SUFFICES ASSUME NEW i \in 1..layout.total
                 PROVE  /\ i < part' => Got(i)' \/ \A n \in ToSet(targets[i]) : Fails(n, i)'
                        /\ i = part' => \A t \in 1..Len(targets[i]) : t < target' => Fails(targets[i][t], i)'
      BY <1>3 DEF LookedInv
    <2>1. (\A n : Fails(n, i)' = Fails(n, i)) /\ Got(i)' = Got(i)
      BY <1>3 DEF Fails, Got
    <2>2. i < part => Got(i) \/ \A n \in ToSet(targets[i]) : Fails(n, i)
      BY <1>1 DEF PoolInv, LookedInv
    <2>3. ASSUME i = part, NEW n \in ToSet(targets[i]) PROVE Fails(n, i)
      <3>1. PICK t \in 1..Len(targets[i]) : targets[i][t] = n
        BY <2>3 DEF ToSet
      <3>2. t < target
        BY <1>1, <1>2, <2>3, <3>1 DEF AtTarget
      <3> QED BY <1>1, <2>3, <3>1, <3>2 DEF PoolInv, LookedInv
    <2>4. i < part' => i < part \/ i = part
      BY <1>2, <1>3
    <2>5. \A t \in 1..Len(targets[i]) : ~(t < target')
      BY <1>2, <1>3
    <2> QED BY <2>1, <2>2, <2>3, <2>4, <2>5
  <1>6. Len(available') <= layout.required
    BY <1>3 DEF PoolInv, PoolTypeOK
  <1> QED BY <1>1, <1>4, <1>5, <1>6, LookStep

LEMMA FetchEndsStep ==
  ASSUME PoolInv, FetchEnds PROVE PoolInv'
  <1>1. /\ op \in {"fetch", "repair"} /\ stage = "get"
        /\ UNCHANGED <<layout, targets, parts, up, holds, faults, report, ops>>
    BY DEF FetchEnds, manifest, nodes
  <1>2. op # Absent /\ Absent \notin Writing
    BY <1>1, PoolAssumption DEF Writing
  <1>3. CASE /\ op = "repair" /\ Recovered
             /\ Rewind("check") /\ files' = Parts(Assembled) /\ UNCHANGED <<op, fetched, proofs, touched, hit>>
    <2>1. /\ stage' = "check" /\ part' \in 1..layout'.total + 1 /\ target' \in Nat /\ target' >= 1 /\ groups' = {}
          /\ counts' \in Seq(Nat) /\ Len(counts') = 0 /\ part' = 1 /\ Len(counts') < part' /\ Len(available') <= layout'.required
      BY <1>1, <1>3, RewoundType
    <2>2. files' = parts
      BY <1>3 DEF Recovered, PoolInv, ManifestInv
    <2>3. PoolTypeOK'
      BY <1>1, <1>3, <2>1 DEF PoolInv, PoolTypeOK
    <2>4. CountsInv'
      BY <1>1, <1>3, <2>1, <2>2 DEF CountsInv
    <2>5. AvailableInv' /\ LookedInv'
      BY <1>3, <2>1, RewoundAvailable DEF LookedInv
    <2> QED BY <1>1, <1>3, <2>3, <2>4, <2>5, CursorStep
  <1>4. CASE /\ Done /\ hit' = (IF op = "repair" THEN {} ELSE hit)
             /\ fetched' = IF Recovered THEN [ok |-> TRUE, blob |-> Assembled] ELSE [ok |-> FALSE, blob |-> <<>>]
    <2>1. fetched' # Absent /\ fetched'.ok => fetched'.blob = Payload
      <3>1. CASE Recovered
        BY <1>4, <3>1 DEF Recovered
      <3>2. CASE ~Recovered
        <4>1. fetched'.ok = FALSE
          BY <1>4, <3>2
        <4> QED BY <4>1
      <3> QED BY <3>1, <3>2
    <2>2. report' # Absent /\ report'.protected =>
            hit' = hit /\ \A i \in 1..layout.total : Cardinality(Kept(i)) >= layout.copies
      BY <1>1, <1>4 DEF PoolInv, ReportInv, Writing
    <2> QED BY <1>1, <1>2, <1>4, <2>1, <2>2, DoneStep
  <1> QED BY <1>3, <1>4 DEF FetchEnds

(***************************************************************************)
(* The audit                                                               *)
(***************************************************************************)

(* What an audit step may change: the cursor and the proofs.               *)
LEMMA AuditStep ==
  ASSUME PoolInv, op = "audit", proofs' \subseteq PoolNodes, AuditsAreTrue',
         stage' \in {"challenge", "retrieval", "lied"}, part' \in {part, part + 1}, part' <= layout.total,
         target' \in {1, target, target + 1}, groups' \in {groups, {}}, counts' = counts,
         UNCHANGED <<manifest, nodes, op, available, files, report, fetched, ops, hit, touched>>
  PROVE  PoolInv'
  <1>1. UNCHANGED <<layout, targets, parts, up, holds, faults, op, available, files, report, fetched, ops, hit, touched>>
    BY DEF manifest, nodes
  <1>2. part' \in 1..layout'.total + 1 /\ Len(counts') < part' /\ target' \in Nat /\ target' >= 1
    BY <1>1, PlacesOfTargets DEF PoolInv, PoolTypeOK, CountsInv
  <1>3. PoolTypeOK'
    BY <1>1, <1>2 DEF PoolInv, PoolTypeOK
  <1>4. CountsInv'
    BY <1>1 DEF PoolInv, CountsInv, Placing
  <1>5. AvailableInv' /\ LookedInv'
    BY <1>1, AvailableStays DEF LookedInv
  <1>6. ManifestInv' /\ SparesInv' /\ ProofsInv' /\ HitInv'
    BY <1>1 DEF PoolInv, ManifestInv, ValidTargets, Groups, Parts, SparesInv, ProofsInv, HitInv
  <1>7. ReportInv' /\ OnlyItsPart'
    <2>1. ReportInv'
      BY <1>1 DEF PoolInv, ReportInv, Kept, Groups
    <2>2. OnlyItsPart'
      BY <1>1 DEF PoolInv, OnlyItsPart
    <2> QED BY <2>1, <2>2
  <1> QED BY <1>3, <1>4, <1>5, <1>6, <1>7 DEF PoolInv

LEMMA ChallengeStep ==
  ASSUME PoolInv, Challenge PROVE PoolInv'
  <1>1. /\ op = "audit" /\ AtTarget /\ UNCHANGED <<manifest, nodes, op, available, files, outcome, ops, hit, touched>>
        /\ \/ stage' \in {"retrieval", "lied"} /\ UNCHANGED <<part, target, groups, counts>>
           \/ NextTarget("challenge")
    BY DEF Challenge, At
  <1>2. /\ stage' \in {"challenge", "retrieval", "lied"} /\ part' = part /\ target' \in {target, target + 1}
        /\ groups' = groups /\ counts' = counts
    BY <1>1 DEF NextTarget
  <1>3. UNCHANGED <<targets, parts, up, holds, op, proofs, touched, report, fetched>>
    BY <1>1 DEF manifest, nodes, outcome
  <1>4. AuditsAreTrue' /\ proofs' \subseteq PoolNodes /\ part' <= layout.total
    BY <1>1, <1>2, <1>3 DEF PoolInv, AuditsAreTrue, PoolTypeOK, AtTarget
  <1> QED BY <1>1, <1>2, <1>3, <1>4, AuditStep

LEMMA RetrieveStep ==
  ASSUME PoolInv, Retrieve PROVE PoolInv'
  <1>1. /\ op = "audit" /\ AtTarget /\ NextTarget("challenge")
        /\ proofs' = IF Proves THEN proofs \cup {Here} ELSE proofs
        /\ UNCHANGED <<manifest, nodes, op, available, files, report, fetched, ops, hit, touched>>
    BY DEF Retrieve
  <1>2. part \in 1..layout.total /\ Here \in PoolNodes /\ Here \in ToSet(targets[part])
    BY <1>1, SpotFacts DEF PoolInv
  <1>3. UNCHANGED <<layout, targets, parts, up, holds, op, touched>>
    BY <1>1 DEF manifest, nodes
  <1>4. AuditsAreTrue'
    <2> SUFFICES ASSUME NEW i \in 1..layout.total, NEW n \in ToSet(targets[i]), n \in proofs' \ touched
                 PROVE  n \in up /\ holds[n] = parts[i]
      BY <1>3, PlacesOfTargets DEF PoolInv, AuditsAreTrue
    <2>1. CASE n \in proofs
      BY <1>1, <2>1, PlacesOfTargets DEF PoolInv, AuditsAreTrue
    <2>2. CASE Proves /\ n = Here
      <3>1. i = part
        BY <1>2, <2>2, OnePart DEF PoolInv
      <3> QED BY <2>2, <3>1 DEF Proves, Serves
    <2> QED BY <1>1, <2>1, <2>2
  <1>5. proofs' \subseteq PoolNodes
    BY <1>1, <1>2 DEF PoolInv, PoolTypeOK
  <1>6. stage' = "challenge" /\ part' = part /\ target' = target + 1 /\ groups' = groups /\ counts' = counts /\ part' <= layout.total
    BY <1>1 DEF NextTarget, AtTarget
  <1> QED BY <1>1, <1>4, <1>5, <1>6, AuditStep

LEMMA AuditEndsStep ==
  ASSUME PoolInv, AuditEnds PROVE PoolInv'
  <1>1. op = "audit" /\ UNCHANGED <<layout, targets, parts, up, holds, faults, report, fetched, ops, hit>>
    BY DEF AuditEnds, manifest, nodes
  <1>2. CASE part < layout.total /\ NextPart("challenge") /\ UNCHANGED <<op, counts, available, files, proofs, touched>>
    <2>1. part' = part + 1 /\ target' = 1 /\ stage' = "challenge" /\ groups' = {}
      BY <1>2 DEF NextPart
    <2>2. part' <= layout.total
      BY <1>2, <2>1, PlacesOfTargets DEF PoolInv, PoolTypeOK
    <2>3. AuditsAreTrue' /\ proofs' \subseteq PoolNodes
      BY <1>1, <1>2 DEF PoolInv, AuditsAreTrue, PoolTypeOK
    <2>4. UNCHANGED <<manifest, nodes, op, available, files, report, fetched, ops, hit, touched>>
      BY <1>1, <1>2 DEF manifest, nodes
    <2> QED BY <1>1, <1>2, <2>1, <2>2, <2>3, <2>4, AuditStep
  <1>3. CASE Done
    <2>1. op # Absent
      BY <1>1, PoolAssumption
    <2>2. /\ fetched' # Absent /\ fetched'.ok => fetched'.blob = Payload
          /\ report' # Absent /\ report'.protected =>
               hit' = hit /\ \A i \in 1..layout.total : Cardinality(Kept(i)) >= layout.copies
      BY <1>1 DEF PoolInv, OnlyItsPart, ReportInv
    <2> QED BY <1>1, <1>3, <2>1, <2>2, DoneStep
  <1> QED BY <1>2, <1>3 DEF AuditEnds

(***************************************************************************)
(* Starting an operation                                                   *)
(***************************************************************************)

LEMMA StartStep ==
  ASSUME PoolInv, NEW kind \in {"upload", "fetch", "repair", "audit"}, NEW first \in {"check", "get", "challenge"},
         Start(kind, first), targets' = targets,
         \/ kind \in {"fetch", "audit"} /\ first # "check" /\ UNCHANGED <<report, hit>>
         \/ kind = "upload" /\ files' = Parts(Payload) /\ report' = Absent /\ hit' = {}
         \/ kind = "repair" /\ first = "get" /\ report' = Absent /\ hit' = {}
  PROVE  PoolInv'
  <1>1. /\ op = Absent /\ op' = kind /\ Rewind(first) /\ fetched' = Absent /\ ops < MaxOps /\ ops' = ops + 1
        /\ UNCHANGED <<layout, parts, up, holds, faults, proofs, touched>>
    BY DEF Start, nodes
  <1>2. /\ stage' = first /\ part' \in 1..layout'.total + 1 /\ target' \in Nat /\ target' >= 1 /\ groups' = {}
        /\ counts' \in Seq(Nat) /\ Len(counts') = 0 /\ part' = 1 /\ Len(counts') < part' /\ Len(available') <= layout'.required
    BY <1>1, RewoundType
  <1>3. PoolTypeOK'
    <2>1. ops' \in 0..MaxOps
      BY <1>1, PoolAssumption DEF PoolInv, PoolTypeOK
    <2> QED BY <1>1, <1>2, <2>1 DEF PoolInv, PoolTypeOK
  <1>4. proofs' = {}
    BY <1>1, PoolAssumption DEF PoolInv, ProofsInv
  <1>5. ManifestInv' /\ SparesInv' /\ ProofsInv' /\ HitInv'
    BY <1>1, <1>4 DEF PoolInv, ManifestInv, ValidTargets, Groups, Parts, SparesInv, ProofsInv, HitInv
  <1>6. CountsInv'
    <2>1. Placing' => files' = parts'
      BY <1>1, <1>2 DEF Placing, Writing, PoolInv, ManifestInv
    <2> QED BY <1>2, <2>1 DEF CountsInv
  <1>7. ReportInv'
    BY <1>1 DEF PoolInv, ReportInv, Writing, Kept, Groups
  <1>8. AvailableInv'
    BY <1>1, RewoundAvailable
  <1>9. LookedInv'
    <2>1. \A i \in 1..layout.total : ~(i < 1) /\ \A t \in 1..Len(targets[i]) : ~(t < 1)
      <3>1. \A i \in 1..layout.total : Len(targets[i]) \in Nat /\ layout.total \in Nat
        BY PlacesOfTargets DEF PoolInv
      <3> QED BY <3>1
    <2>2. part' = 1 /\ target' = 1
      BY <1>1 DEF Rewind
    <2> QED BY <1>1, <2>1, <2>2 DEF LookedInv
  <1>10. OnlyItsPart' /\ AuditsAreTrue'
    BY <1>1, <1>4 DEF PoolInv, OnlyItsPart, AuditsAreTrue
  <1> QED BY <1>3, <1>5, <1>6, <1>7, <1>8, <1>9, <1>10 DEF PoolInv

(* A repair that first adds a node to a part.                              *)
LEMMA ExtendStep ==
  ASSUME PoolInv, Start("repair", "get"), report' = Absent, hit' = {}, NEW i \in DOMAIN targets, NEW n \in PoolNodes,
         targets' = [targets EXCEPT ![i] = Append(targets[i], n)],
         \A j \in DOMAIN targets : n \notin ToSet(targets[j]), Extends(targets')
  PROVE  PoolInv'
  <1>1. /\ op = Absent /\ op' = "repair" /\ Rewind("get") /\ fetched' = Absent /\ ops < MaxOps /\ ops' = ops + 1
        /\ UNCHANGED <<layout, parts, up, holds, faults, proofs, touched>>
    BY DEF Start, nodes
  <1>2. /\ stage' = "get" /\ part' \in 1..layout'.total + 1 /\ target' \in Nat /\ target' >= 1 /\ groups' = {}
        /\ counts' \in Seq(Nat) /\ Len(counts') = 0 /\ part' = 1 /\ Len(counts') < part' /\ Len(available') <= layout'.required
    BY <1>1, RewoundType
  <1>3. /\ DOMAIN targets = 1..layout.total /\ layout.total \in Nat /\ \A j \in 1..layout.total : targets[j] \in Seq(PoolNodes)
        /\ holds[n] = Absent
    BY PlacesOfTargets DEF PoolInv, SparesInv
  <1>4. /\ DOMAIN targets' = 1..layout.total
        /\ \A j \in 1..layout.total : /\ targets'[j] \in Seq(PoolNodes)
                                      /\ ToSet(targets[j]) \subseteq ToSet(targets'[j])
                                      /\ ToSet(targets'[j]) \subseteq ToSet(targets[j]) \cup {n}
    <2>1. DOMAIN targets' = 1..layout.total /\ targets'[i] = Append(targets[i], n) /\ \A j \in 1..layout.total : j # i => targets'[j] = targets[j]
      BY <1>3
    <2>2. /\ Append(targets[i], n) \in Seq(PoolNodes) /\ ToSet(targets[i]) \subseteq ToSet(Append(targets[i], n))
          /\ ToSet(Append(targets[i], n)) \subseteq ToSet(targets[i]) \cup {n}
      <3>1. /\ Append(targets[i], n) \in Seq(PoolNodes) /\ Len(Append(targets[i], n)) = Len(targets[i]) + 1 /\ Len(targets[i]) \in Nat
            /\ Append(targets[i], n)[Len(targets[i]) + 1] = n
            /\ \A k \in 1..Len(targets[i]) : Append(targets[i], n)[k] = targets[i][k]
        BY <1>3, PartAppended
      <3> QED BY <3>1 DEF ToSet
    <2> QED BY <1>3, <2>1, <2>2
  <1>5. PoolTypeOK'
    <2>1. ops' \in 0..MaxOps
      BY <1>1, PoolAssumption DEF PoolInv, PoolTypeOK
    <2> QED BY <1>1, <1>2, <1>4, <2>1 DEF PoolInv, PoolTypeOK
  <1>6. proofs' = {}
    BY <1>1, PoolAssumption DEF PoolInv, ProofsInv
  <1>7. ManifestInv'
    BY <1>1 DEF PoolInv, ManifestInv, Parts, Extends, ValidTargets, Groups
  <1>8. SparesInv'
    BY <1>1, <1>4 DEF PoolInv, SparesInv
  <1>9. ProofsInv' /\ HitInv' /\ ReportInv'
    BY <1>1, <1>6 DEF ProofsInv, HitInv, ReportInv
  <1>10. CountsInv'
    BY <1>2 DEF CountsInv, Placing
  <1>11. AvailableInv'
    BY <1>1, RewoundAvailable
  <1>12. LookedInv'
    <2>1. \A j \in 1..layout.total : ~(j < 1) /\ \A t \in 1..Len(targets'[j]) : ~(t < 1)
      <3>1. \A j \in 1..layout.total : Len(targets'[j]) \in Nat
        BY <1>4
      <3> QED BY <1>3, <3>1
    <2>2. part' = 1 /\ target' = 1
      BY <1>1 DEF Rewind
    <2> QED BY <1>1, <2>1, <2>2 DEF LookedInv
  <1>13. OnlyItsPart' /\ AuditsAreTrue'
    <2>1. \A j \in 1..layout.total : \A m \in ToSet(targets'[j]) : holds[m] \in {Absent, Spoiled, parts[j]}
      BY <1>3, <1>4 DEF PoolInv, OnlyItsPart
    <2> QED BY <1>1, <1>4, <1>6, <2>1 DEF OnlyItsPart, AuditsAreTrue
  <1> QED BY <1>5, <1>7, <1>8, <1>9, <1>10, <1>11, <1>12, <1>13 DEF PoolInv

LEMMA OperationStep ==
  ASSUME PoolInv, UploadPool \/ FetchPool \/ Repair \/ Audit PROVE PoolInv'
  <1>1. CASE UploadPool
    BY <1>1, StartStep DEF UploadPool
  <1>2. CASE FetchPool
    BY <1>2, StartStep DEF FetchPool
  <1>3. CASE Audit
    BY <1>3, StartStep DEF Audit
  <1>4. CASE Repair
    <2>1. CASE UNCHANGED targets
      BY <1>4, <2>1, StartStep DEF Repair
    <2>2. CASE \E i \in DOMAIN targets, n \in PoolNodes :
                 /\ targets' = [targets EXCEPT ![i] = Append(targets[i], n)]
                 /\ \A j \in DOMAIN targets : n \notin ToSet(targets[j])
                 /\ Extends(targets')
      BY <1>4, <2>2, ExtendStep DEF Repair
    <2> QED BY <1>4, <2>1, <2>2 DEF Repair
  <1> QED BY <1>1, <1>2, <1>3, <1>4

(***************************************************************************)
(* The nodes                                                               *)
(***************************************************************************)

(* A step of a node: it may spoil or lose its copy only by a hit, and what *)
(* it takes back was touched.                                              *)
LEMMA NodeStep ==
  ASSUME PoolInv, NEW n \in PoolNodes, UNCHANGED <<layout, targets, parts, op, work, outcome, ops>>,
         DOMAIN holds' = PoolNodes, up' \subseteq PoolNodes, faults' \in 0..MaxFaults, hit \subseteq hit', hit' \subseteq AllGroups,
         touched \subseteq touched', op # Absent => n \in touched',
         \A m \in PoolNodes : m # n => holds'[m] = holds[m] /\ (m \in up' <=> m \in up),
         holds'[n] \in {holds[n], Spoiled, Absent}, holds[n] = Absent => holds'[n] = Absent,
         \/ Group[n] \in hit'
         \/ op \notin Writing /\ ~(report # Absent /\ report.protected)
         \/ holds'[n] = holds[n] /\ (n \in up => n \in up')
  PROVE  PoolInv'
  <1>1. UNCHANGED <<stage, part, target, groups, counts, available, files, report, fetched, proofs>>
    BY DEF work, cursor, outcome
  <1>2. PoolTypeOK'
    BY <1>1 DEF PoolInv, PoolTypeOK
  <1>3. ManifestInv' /\ ProofsInv' /\ HitInv'
    BY <1>1 DEF PoolInv, ManifestInv, ValidTargets, Groups, Parts, ProofsInv, HitInv
  <1>4. SparesInv'
    BY DEF PoolInv, SparesInv
  <1>5. OnlyItsPart'
    <2>1. ASSUME NEW i \in 1..layout.total, NEW m \in ToSet(targets[i]) PROVE holds'[m] \in {Absent, Spoiled, parts[i]}
      <3>1. m \in PoolNodes /\ holds[m] \in {Absent, Spoiled, parts[i]}
        BY <2>1, PlacesOfTargets DEF PoolInv, OnlyItsPart
      <3> QED BY <3>1
    <2> QED BY <1>1, <2>1, PlacesOfTargets DEF PoolInv, OnlyItsPart
  <1>6. AvailableInv'
    BY <1>1, AvailableStays
  <1>7. op \in {"fetch", "repair", "audit"} => n \in touched'
    BY PoolAssumption
  <1>8. ASSUME op \in {"fetch", "repair"}, NEW i \in 1..layout.total, NEW m \in ToSet(targets[i]), Fails(m, i)
        PROVE  Fails(m, i)'
    <2>1. m \in PoolNodes
      BY <1>8, PlacesOfTargets DEF PoolInv
    <2> QED BY <1>7, <1>8, <2>1 DEF Fails
  <1>9. LookedInv'
    <2> SUFFICES ASSUME op \in {"fetch", "repair"}, stage = "get", NEW i \in 1..layout.total
                 PROVE  /\ i < part => Got(i)' \/ \A m \in ToSet(targets[i]) : Fails(m, i)'
                        /\ i = part => \A t \in 1..Len(targets[i]) : t < target => Fails(targets[i][t], i)'
      BY <1>1 DEF LookedInv
    <2>1. Got(i)' = Got(i)
      BY <1>1 DEF Got
    <2>2. i < part => Got(i) \/ \A m \in ToSet(targets[i]) : Fails(m, i)
      BY DEF PoolInv, LookedInv
    <2>3. i = part => \A t \in 1..Len(targets[i]) : t < target => Fails(targets[i][t], i)
      BY DEF PoolInv, LookedInv
    <2>4. \A t \in 1..Len(targets[i]) : targets[i][t] \in ToSet(targets[i])
      <3>1. targets[i] \in Seq(PoolNodes)
        BY PlacesOfTargets DEF PoolInv
      <3> QED BY <3>1 DEF ToSet
    <2>5. \A m \in ToSet(targets[i]) : Fails(m, i) => Fails(m, i)'
      BY <1>8
    <2>6. i = part => \A t \in 1..Len(targets[i]) : t < target => Fails(targets[i][t], i)'
      <3> SUFFICES ASSUME i = part, NEW t \in 1..Len(targets[i]), t < target PROVE Fails(targets[i][t], i)'
        OBVIOUS
      <3>1. Fails(targets[i][t], i) /\ targets[i][t] \in ToSet(targets[i])
        BY <2>3, <2>4
      <3> DEFINE m == targets[i][t]
      <3>2. m' = m
        OBVIOUS
      <3>3. m \in PoolNodes /\ n \in touched'
        BY <1>7, <3>1, PlacesOfTargets DEF PoolInv
      <3> QED BY <3>1, <3>3 DEF Fails
    <2> QED BY <2>1, <2>2, <2>5, <2>6
  <1>10. AuditsAreTrue'
    BY <1>1, <1>7, PlacesOfTargets DEF PoolInv, AuditsAreTrue
  <1>11. ASSUME NEW i \in 1..layout.total, op \in Writing \/ (report # Absent /\ report.protected)
         PROVE  Kept(i) \subseteq Kept(i)'
    <2>1. \A m \in ToSet(targets[i]) :
            m \in up /\ holds[m] = parts[i] => Group[m] \in hit' \/ (m \in up' /\ holds'[m] = parts[i])
      BY <1>11, PlacesOfTargets DEF PoolInv
    <2> QED BY <2>1, KeptGrows
  <1>12. CountsInv'
    <2>1. counts \in Seq(Nat) /\ Len(counts) \in Nat /\ layout.total \in Nat /\ part \in 1..layout.total + 1
      BY PlacesOfTargets DEF PoolInv, CountsInv, PoolTypeOK
    <2>2. ASSUME Placing, NEW i \in 1..Len(counts) PROVE Cardinality(Kept(i)') >= counts[i]
      <3>1. i \in 1..layout.total /\ counts[i] \in Nat
        <4>1. Len(counts) = part - 1
          BY <2>2 DEF PoolInv, CountsInv
        <4> QED BY <2>1, <4>1
      <3>2. Cardinality(Kept(i)) >= counts[i]
        BY <2>2 DEF PoolInv, CountsInv
      <3>3. Kept(i) \subseteq Kept(i)'
        BY <1>11, <2>2, <3>1 DEF Placing
      <3> QED BY <1>2, <3>1, <3>2, <3>3, KeptMore DEF PoolInv
    <2>3. ASSUME Placing, part <= layout.total PROVE groups \subseteq Kept(part)'
      <3>1. part' = part /\ part \in 1..layout.total /\ groups \subseteq Kept(part) /\ op \in Writing
        BY <1>1, <2>3, GroupsAreKept DEF Placing
      <3>2. \A i \in 1..layout.total : Kept(i) \subseteq Kept(i)'
        BY <1>11, <3>1
      <3> QED BY <3>1, <3>2
    <2>4. Placing' <=> Placing
      BY <1>1 DEF Placing
    <2> QED BY <1>1, <2>1, <2>2, <2>3, <2>4 DEF PoolInv, CountsInv
  <1>13. ReportInv'
    <2>1. ASSUME report # Absent, report.protected, NEW i \in 1..layout.total PROVE Cardinality(Kept(i)') >= layout.copies
      <3>1. Kept(i) \subseteq Kept(i)'
        BY <1>11, <2>1
      <3>2. Cardinality(Kept(i)) >= layout.copies /\ layout.copies \in Nat
        BY <2>1, PlacesOfTargets DEF PoolInv, ReportInv
      <3> QED BY <1>2, <3>1, <3>2, KeptMore DEF PoolInv
    <2> QED BY <1>1, <2>1 DEF PoolInv, ReportInv
  <1> QED BY <1>2, <1>3, <1>4, <1>5, <1>6, <1>9, <1>10, <1>12, <1>13 DEF PoolInv

LEMMA FaultStep ==
  ASSUME PoolInv, NEW n \in PoolNodes, NodeFails(n) \/ NodeSpoils(n) \/ NodeLoses(n) \/ NodeReturns(n)
  PROVE  PoolInv'
  <1>1. DOMAIN holds = PoolNodes /\ up \subseteq PoolNodes /\ faults \in 0..MaxFaults /\ hit \subseteq AllGroups /\ Group[n] \in AllGroups
    BY DEF PoolInv, PoolTypeOK, HitInv, AllGroups
  <1>2. CASE NodeReturns(n)
    <2>1. /\ UNCHANGED <<layout, targets, parts, holds, faults, op, work, outcome, ops, hit>> /\ up' = up \cup {n}
          /\ touched' = IF op = Absent THEN touched ELSE touched \cup {n}
      BY <1>2 DEF NodeReturns, manifest, Touches
    <2> QED BY <1>1, <2>1, NodeStep
  <1>3. CASE NodeFails(n) \/ NodeSpoils(n) \/ NodeLoses(n)
    <2>1. /\ UNCHANGED <<layout, targets, parts, op, work, outcome, ops>> /\ faults' \in 0..MaxFaults
          /\ hit' = IF op \in Writing \/ (report # Absent /\ report.protected) THEN hit \cup {Group[n]} ELSE hit
          /\ touched' = IF op = Absent THEN touched ELSE touched \cup {n}
      BY <1>1, <1>3, PoolAssumption DEF NodeFails, NodeSpoils, NodeLoses, Fault, Touches, manifest
    <2>2. /\ DOMAIN holds' = PoolNodes /\ up' \subseteq PoolNodes
          /\ \A m \in PoolNodes : m # n => holds'[m] = holds[m] /\ (m \in up' <=> m \in up)
          /\ holds'[n] \in {holds[n], Spoiled, Absent} /\ (holds[n] = Absent => holds'[n] = Absent)
      BY <1>1, <1>3 DEF NodeFails, NodeSpoils, NodeLoses
    <2>3. hit \subseteq hit' /\ hit' \subseteq AllGroups /\ touched \subseteq touched' /\ (op # Absent => n \in touched')
      BY <1>1, <2>1
    <2>4. Group[n] \in hit' \/ (op \notin Writing /\ ~(report # Absent /\ report.protected))
      BY <2>1
    <2> QED BY <2>1, <2>2, <2>3, <2>4, NodeStep
  <1> QED BY <1>2, <1>3

(***************************************************************************)
(* The theorems                                                            *)
(***************************************************************************)

LEMMA PartsTyped ==
  ASSUME NEW l \in Layouts, l = layout
  PROVE  \A i \in 1..layout.total : Parts(Payload)[i] \in Seq(Octet)
  <1>1. CASE layout.mode = "replicas"
    <2>1. layout.total = 1 /\ Parts(Payload) = <<Payload>> /\ Payload \in Seq(Octet)
      BY <1>1, LayoutFacts, PoolAssumption DEF Parts
    <2>2. \A i \in 1..1 : <<Payload>>[i] = Payload
      OBVIOUS
    <2> QED BY <2>1, <2>2
  <1>2. CASE layout.mode = "erasure"
    <2>1. Parts(Payload) = Encode(Payload, layout.required, layout.total)
      BY <1>2 DEF Parts
    <2>2. Encode(Payload, layout.required, layout.total) \in [1..layout.total -> Seq(Octet)]
      BY <1>2, LayoutFacts
    <2> QED BY <2>1, <2>2
  <1> QED BY <1>1, <1>2, LayoutFacts

LEMMA PoolStarts ==
  ASSUME PoolInit PROVE PoolInv
  <1>1. /\ layout \in Layouts /\ ValidTargets(targets) /\ parts = Parts(Payload)
        /\ up = PoolNodes /\ holds = [n \in PoolNodes |-> Absent]
        /\ op = Absent /\ stage = "check" /\ part = 1 /\ target = 1 /\ groups = {} /\ counts = <<>>
        /\ available = <<>> /\ files = <<>> /\ proofs = {} /\ report = Absent /\ fetched = Absent
        /\ ops = 0 /\ faults = 0 /\ hit = {} /\ touched = {}
    BY DEF PoolInit
  <1>2. layout.total \in Nat \ {0} /\ layout.required \in Nat
    BY <1>1, LayoutFacts
  <1>3. targets \in [1..layout.total -> Seq(PoolNodes)]
    <2>1. PICK rank \in Ranks : targets = Placement(rank, layout.total)
      BY DEF PoolInit
    <2> QED BY <1>2, <2>1, PlacementTyped
  <1>4. \A i \in 1..layout.total : parts[i] \in Seq(Octet)
    BY <1>1, PartsTyped
  <1>5. /\ Len(counts) = 0 /\ counts \in Seq(Nat) /\ Len(available) = 0
        /\ available \in Seq([index : 1..layout.total, blob : Seq(Octet)])
    BY <1>1
  <1>6. PoolTypeOK
    <2>1. DOMAIN targets = 1..layout.total /\ \A i \in 1..layout.total : targets[i] \in Seq(PoolNodes)
      BY <1>3
    <2>2. DOMAIN holds = PoolNodes /\ part \in 1..layout.total + 1 /\ target \in Nat /\ target >= 1
      BY <1>1, <1>2
    <2>3. Len(counts) < part /\ Len(available) <= layout.required /\ ops \in 0..MaxOps /\ faults \in 0..MaxFaults
      BY <1>1, <1>2, <1>5, PoolAssumption
    <2> QED BY <1>1, <1>4, <2>1, <2>2, <2>3 DEF PoolTypeOK
  <1>7. ManifestInv /\ SparesInv /\ ProofsInv /\ HitInv
    BY <1>1 DEF ManifestInv, SparesInv, ProofsInv, HitInv
  <1>8. op \notin {"upload", "fetch", "repair", "audit"}
    BY <1>1, PoolAssumption
  <1>9. CountsInv /\ ReportInv /\ LookedInv /\ AuditsAreTrue
    BY <1>1, <1>5, <1>8 DEF CountsInv, ReportInv, LookedInv, AuditsAreTrue, Placing, Writing
  <1>10. AvailableInv
    BY <1>5 DEF AvailableInv
  <1>11. OnlyItsPart
    <2>1. \A i \in DOMAIN targets : \A n \in ToSet(targets[i]) : holds[n] = Absent
      BY <1>1, <1>6, PlacesOfTargets
    <2> QED BY <1>1, <2>1 DEF OnlyItsPart
  <1> QED BY <1>6, <1>7, <1>9, <1>10, <1>11 DEF PoolInv

LEMMA PoolStutter ==
  ASSUME PoolInv, UNCHANGED poolVars PROVE PoolInv'
  <1>1. UNCHANGED <<layout, targets, parts, up, holds, faults, op, stage, part, target, groups, counts, available, files,
                    report, fetched, proofs, ops, hit, touched>>
    BY DEF poolVars, manifest, nodes, work, cursor, outcome
  <1>2. PoolTypeOK'
    BY <1>1 DEF PoolInv, PoolTypeOK
  <1>3. CountsInv'
    BY <1>1 DEF PoolInv, CountsInv, Placing, Kept, Groups
  <1>4. AvailableInv' /\ LookedInv'
    BY <1>1, AvailableStays DEF PoolInv, LookedInv, Got, Fails
  <1> QED BY <1>1, <1>2, <1>3, <1>4, CursorStep

LEMMA PoolStep ==
  ASSUME PoolInv, [PoolNext]_poolVars PROVE PoolInv'
  BY OperationStep, CancelStep, WritingStep, PutStep, ReportsStep, GetStep, NoMoreStep, FetchEndsStep,
     ChallengeStep, RetrieveStep, AuditEndsStep, FaultStep, PoolStutter
  DEF PoolNext, Step

(* Nodes hold their own part and no other, no failure group holds two, and *)
(* an audit believes only bytes: whatever fails, returns, is repaired or   *)
(* replaced between two requests (uploadPool, extendPool, auditStoredBlob).*)
THEOREM PartsAlwaysFit == PoolSpec => []PartsFit
  <1>1. ASSUME PoolInv PROVE PartsFit
    <2>1. OnePartPerGroup
      BY <1>1, OnePart, PlacesOfTargets DEF PoolInv, OnePartPerGroup
    <2> QED BY <1>1, <2>1 DEF PoolInv, PartsFit
  <1> QED BY <1>1, PoolStarts, PoolStep, PTL DEF PoolSpec

(* A part that cannot be reached lost every group it was counted in.       *)
LEMMA LostWasHit ==
  ASSUME PoolInv, NEW i \in (1..layout.total) \ Reachable
  PROVE  Kept(i) \subseteq hit
  BY DEF Kept, Reachable

(* "tolerates any two missing parts": a file that an upload or a repair    *)
(* reported protected can be recovered, although as many whole failure     *)
(* groups as its layout tolerates have failed since that upload or repair  *)
(* began (uploadPool, report).                                             *)
THEOREM ProtectedAlwaysSurvives == PoolSpec => []ProtectedSurvives
  <1>1. ASSUME PoolInv, report # Absent, report.protected, Cardinality(hit) <= Tolerance
        PROVE  Cardinality(Reachable) >= layout.required
    <2>1. /\ layout.total \in Nat \ {0} /\ layout.required \in Nat \ {0} /\ layout.copies \in 1..3
          /\ layout.mode \in {"erasure", "replicas"}
          /\ layout.mode = "erasure" => layout.required < layout.total /\ layout.copies = 1
          /\ layout.mode = "replicas" => layout.required = 1 /\ layout.total = 1
      BY <1>1, LayoutFacts DEF PoolInv, PoolTypeOK
    <2>2. \A i \in 1..layout.total : Cardinality(Kept(i)) >= layout.copies
      BY <1>1 DEF PoolInv, ReportInv
    <2>3. IsFiniteSet(hit) /\ Cardinality(hit) \in Nat
      BY <1>1, AllGroupsFinite, FS_Subset, FS_CardinalityType DEF PoolInv, HitInv
    <2>4. Reachable \subseteq 1..layout.total /\ IsFiniteSet(1..layout.total) /\ Cardinality(1..layout.total) = layout.total
      <3>1. Reachable \subseteq 1..layout.total
        BY DEF Reachable
      <3>2. /\ IsFiniteSet(1..layout.total)
            /\ Cardinality(1..layout.total) = IF 1 > layout.total THEN 0 ELSE layout.total - 1 + 1
        <4>1. 1 \in Int /\ layout.total \in Int
          BY <2>1
        <4> QED BY <4>1, FS_Interval, Zenon
      <3>3. Cardinality(1..layout.total) = layout.total
        BY <2>1, <3>2
      <3> QED BY <3>1, <3>2, <3>3
    <2>5. IsFiniteSet(Reachable) /\ Cardinality(Reachable) \in Nat
      BY <2>4, FS_Subset, FS_CardinalityType
    <2>6. CASE layout.mode = "replicas"
      <3>1. ASSUME 1 \notin Reachable PROVE FALSE
        <4>1. Kept(1) \subseteq hit /\ 1 \in 1..layout.total
          BY <1>1, <2>1, <3>1, LostWasHit
        <4>2. Cardinality(Kept(1)) <= Cardinality(hit)
          BY <2>3, <4>1, FS_Subset
        <4>3. Cardinality(Kept(1)) >= layout.copies /\ Cardinality(Kept(1)) \in Nat
          BY <1>1, <2>2, <4>1, KeptFinite DEF PoolInv
        <4>4. Cardinality(hit) <= layout.copies - 1
          BY <1>1, <2>6 DEF Tolerance
        <4> QED BY <2>1, <2>3, <4>2, <4>3, <4>4
      <3>2. Cardinality(Reachable) # 0
        BY <2>5, <3>1, FS_EmptySet
      <3> QED BY <2>1, <2>5, <2>6, <3>2
    <2>7. CASE layout.mode = "erasure"
      <3> DEFINE Lost == (1..layout.total) \ Reachable
                 f == [i \in Lost |-> CHOOSE g \in hit : g \in Groups(targets[i])]
      <3>1. ASSUME NEW i \in Lost PROVE f[i] \in hit /\ f[i] \in Groups(targets[i])
        <4>1. Kept(i) \subseteq hit /\ i \in 1..layout.total
          BY <1>1, LostWasHit
        <4>2. Cardinality(Kept(i)) >= 1 /\ Cardinality(Kept(i)) \in Nat /\ IsFiniteSet(Kept(i))
          BY <1>1, <2>1, <2>2, <2>7, <4>1, KeptFinite DEF PoolInv
        <4>3. Kept(i) # {}
          BY <4>2, FS_EmptySet
        <4>4. \E g \in hit : g \in Groups(targets[i])
          BY <4>1, <4>3 DEF Kept
        <4> QED BY <4>4
      <3> HIDE DEF Lost
      <3>2. f \in [Lost -> hit]
        BY <3>1
      <3>3. \A i, j \in Lost : f[i] = f[j] => i = j
        <4>1. Lost \subseteq 1..layout.total /\ DOMAIN targets = 1..layout.total
          BY <1>1, PlacesOfTargets DEF Lost, PoolInv
        <4>2. \A i, j \in Lost : i # j => Groups(targets[i]) \cap Groups(targets[j]) = {}
          BY <1>1, <4>1 DEF PoolInv, ManifestInv, ValidTargets
        <4> HIDE DEF f
        <4> QED BY <3>1, <4>2
      <3> HIDE DEF f
      <3>4. f \in Injection(Lost, hit)
        BY <3>2, <3>3 DEF Injection, IsInjective
      <3>5. IsFiniteSet(Lost) /\ Cardinality(Lost) <= Cardinality(hit)
        <4> HIDE DEF f
        <4>1. IsFiniteSet(Lost)
          <5>1. Lost \subseteq 1..layout.total
            BY DEF Lost
          <5> QED BY <2>4, <5>1, FS_Subset
        <4>2. Cardinality(Lost) <= Cardinality(hit)
          BY <2>3, <3>4, <4>1, FS_Injection
        <4> QED BY <4>1, <4>2
      <3>6. Cardinality(Lost) = layout.total - Cardinality(Reachable)
        <4>1. Cardinality((1..layout.total) \ Reachable) = Cardinality(1..layout.total) - Cardinality((1..layout.total) \cap Reachable)
          BY <2>4, <2>5, FS_Difference
        <4>2. (1..layout.total) \cap Reachable = Reachable
          BY <2>4
        <4> QED BY <2>4, <4>1, <4>2 DEF Lost
      <3>7. Cardinality(hit) <= layout.total - layout.required
        BY <1>1, <2>7 DEF Tolerance
      <3> QED BY <2>1, <2>3, <2>5, <3>5, <3>6, <3>7
    <2> QED BY <2>1, <2>6, <2>7
  <1>2. PoolInv => ProtectedSurvives
    BY <1>1 DEF ProtectedSurvives
  <1> QED BY <1>2, PoolStarts, PoolStep, PTL DEF PoolSpec

(* A fetch with enough parts has the file.                                 *)
LEMMA EnoughRecovers ==
  ASSUME PoolInv, AnyPartsSuffice, Enough
  PROVE  Recovered
  <1>1. /\ layout \in Layouts /\ layout.total \in Nat \ {0} /\ layout.required \in Nat \ {0}
        /\ layout.mode \in {"erasure", "replicas"}
        /\ layout.mode = "replicas" => layout.required = 1 /\ layout.total = 1
    BY LayoutFacts DEF PoolInv, PoolTypeOK
  <1>2. /\ available \in Seq([index : 1..layout.total, blob : Seq(Octet)])
        /\ \A k \in 1..Len(available) : available[k].blob = parts[available[k].index]
        /\ \A j, k \in 1..Len(available) : j < k => available[j].index < available[k].index
    BY DEF PoolInv, AvailableInv
  <1>3. Len(available) = layout.required
    BY <1>1, <1>2 DEF PoolInv, PoolTypeOK, Enough
  <1>4. \A k \in 1..layout.required : available[k] \in [index : 1..layout.total, blob : Seq(Octet)]
    BY <1>1, <1>2, <1>3, ElementTyped
  <1>5. parts = Parts(Payload)
    BY DEF PoolInv, ManifestInv
  <1>6. CASE layout.mode = "replicas"
    <2>1. available[1].index = 1 /\ available[1].blob = parts[1]
      BY <1>1, <1>2, <1>3, <1>4, <1>6
    <2>2. parts[1] = Payload
      BY <1>5, <1>6 DEF Parts
    <2> QED BY <1>6, <2>1, <2>2 DEF Recovered, Assembled
  <1>7. CASE layout.mode = "erasure"
    <2> DEFINE chosen == [k \in 1..layout.required |-> available[k].index]
               coded == Encode(Payload, layout.required, layout.total)
               whole == [k \in 1..layout.required |-> [index |-> chosen[k], blob |-> coded[chosen[k]]]]
    <2>1. parts = coded
      BY <1>5, <1>7 DEF Parts
    <2>2. chosen \in [1..layout.required -> 1..layout.total]
      BY <1>4
    <2>3. \A j, k \in 1..layout.required : j < k => chosen[j] < chosen[k]
      BY <1>2, <1>3
    <2>4. available = whole
      <3>1. \A k \in 1..layout.required : available[k] = [index |-> available[k].index, blob |-> parts[available[k].index]]
        BY <1>2, <1>3, <1>4
      <3>2. available = [k \in 1..layout.required |-> available[k]]
        BY <1>2, <1>3
      <3> QED BY <2>1, <3>1, <3>2
    <2>5. Decode(whole, layout.required, layout.total, Len(Payload)) = Payload
      <3> HIDE DEF chosen
      <3> QED BY <1>1, <1>7, <2>2, <2>3 DEF AnyPartsSuffice
    <2> QED BY <1>7, <2>4, <2>5 DEF Recovered, Assembled
  <1> QED BY <1>1, <1>6, <1>7

(* A fetch fails only if parts are really missing: counting only the nodes *)
(* nothing happened to during the fetch, fewer parts than required could   *)
(* be had, whatever the nodes did between two requests (fetchPool), if the *)
(* decoder keeps its promise.                                              *)
THEOREM FetchFailsOnlyIfLost == AnyPartsSuffice => (PoolSpec => FailsOnlyIfLost)
  <1> SUFFICES ASSUME AnyPartsSuffice PROVE PoolSpec => FailsOnlyIfLost
    OBVIOUS
  <1> DEFINE Sound == {i \in Reachable : \E n \in ToSet(targets[i]) : n \in up \ touched /\ holds[n] = parts[i]}
             Lost == fetched = Absent /\ fetched' # Absent /\ ~fetched'.ok => Cardinality(Sound) < layout.required
  <1>1. ASSUME PoolInv, PoolNext, fetched = Absent, fetched' # Absent, ~fetched'.ok
        PROVE  Cardinality(Sound) < layout.required
    <2>1. FetchEnds
      <3>1. ASSUME NEW k, NEW first, Start(k, first) PROVE FALSE
        BY <1>1, <3>1 DEF Start
      <3>2. ~UploadPool /\ ~FetchPool /\ ~Repair /\ ~Audit
        BY <3>1 DEF UploadPool, FetchPool, Repair, Audit
      <3>3. fetched' # fetched
        BY <1>1
      <3>4. ~Cancel /\ ~SkipTarget /\ ~CheckTarget /\ ~PutPart /\ ~PutFails /\ ~VerifyPart /\ ~PartEnds /\ ~Reports
        BY <3>3 DEF Cancel, SkipTarget, CheckTarget, PutPart, PutFails, VerifyPart, PartEnds, Reports, outcome
      <3>5. ~GetPart /\ ~NoMoreTargets /\ ~Challenge /\ ~Retrieve /\ ~AuditEnds /\ ~UNCHANGED poolVars
        BY <3>3 DEF GetPart, NoMoreTargets, Challenge, Retrieve, AuditEnds, outcome, poolVars
      <3>6. \A n \in PoolNodes : ~NodeFails(n) /\ ~NodeSpoils(n) /\ ~NodeLoses(n) /\ ~NodeReturns(n)
        BY <3>3 DEF NodeFails, NodeSpoils, NodeLoses, NodeReturns, Fault, outcome
      <3> QED BY <1>1, <3>2, <3>4, <3>5, <3>6 DEF PoolNext, Step
    <2>2. ~Recovered
      <3>1. fetched' = IF Recovered THEN [ok |-> TRUE, blob |-> Assembled] ELSE [ok |-> FALSE, blob |-> <<>>]
        BY <1>1, <2>1 DEF FetchEnds
      <3> QED BY <1>1, <3>1
    <2>3. ~Enough
      BY <1>1, <2>2, EnoughRecovers
    <2>4. op \in {"fetch", "repair"} /\ stage = "get" /\ part > layout.total
      BY <2>1, <2>3 DEF FetchEnds
    <2>5. /\ layout.total \in Nat /\ layout.required \in Nat /\ part \in Nat
          /\ available \in Seq([index : 1..layout.total, blob : Seq(Octet)]) /\ Len(available) \in Nat
      BY <1>1, PlacesOfTargets DEF PoolInv, PoolTypeOK, AvailableInv
    <2>6. \A i \in Sound : \E k \in 1..Len(available) : available[k].index = i
      <3>1. \A i \in 1..layout.total : Got(i) \/ \A n \in ToSet(targets[i]) : Fails(n, i)
        BY <1>1, <2>4, <2>5 DEF PoolInv, LookedInv
      <3>2. \A i \in Sound : i \in 1..layout.total /\ \E n \in ToSet(targets[i]) : ~Fails(n, i)
        BY DEF Reachable, Fails
      <3> QED BY <3>1, <3>2 DEF Got
    <2> DEFINE f == [i \in Sound |-> CHOOSE k \in 1..Len(available) : available[k].index = i]
    <2> HIDE DEF Sound
    <2>7. \A i \in Sound : f[i] \in 1..Len(available) /\ available[f[i]].index = i
      BY <2>6
    <2>8. f \in Injection(Sound, 1..Len(available))
      <3>1. f \in [Sound -> 1..Len(available)]
        BY <2>7
      <3> HIDE DEF f
      <3> QED BY <2>7, <3>1 DEF Injection, IsInjective
    <2>9. IsFiniteSet(1..Len(available)) /\ Cardinality(1..Len(available)) = IF 1 > Len(available) THEN 0 ELSE Len(available) - 1 + 1
      <3>1. 1 \in Int /\ Len(available) \in Int
        BY <2>5
      <3> QED BY <3>1, FS_Interval, Zenon
    <2> HIDE DEF f
    <2>10. IsFiniteSet(Sound) /\ Cardinality(Sound) <= Cardinality(1..Len(available))
      BY <2>8, <2>9, FS_Injection
    <2>11. Cardinality(Sound) \in Nat
      BY <2>10, FS_CardinalityType
    <2> QED BY <2>3, <2>5, <2>9, <2>10, <2>11 DEF Enough
  <1>2. ASSUME PoolInv, [PoolNext]_poolVars PROVE [Lost]_poolVars
    BY <1>1, <1>2
  <1>3. [][PoolInv /\ [PoolNext]_poolVars]_poolVars => FailsOnlyIfLost
    <2>1. (PoolInv /\ [PoolNext]_poolVars) => [Lost]_poolVars
      BY <1>2
    <2> QED BY <2>1, PTL DEF FailsOnlyIfLost, Lost, Sound
  <1> QED BY <1>3, PoolStarts, PoolStep, PTL DEF PoolSpec
=============================================================================
