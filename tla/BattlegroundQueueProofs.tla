------------------------ MODULE BattlegroundQueueProofs ------------------------
(***************************************************************************)
(* That BattlegroundQueue's invariants hold in every state, for any number *)
(* of players, groups and battlegrounds and all settings.                  *)
(*                                                                         *)
(* Good is the inductive invariant, a property of the queue, the           *)
(* battlegrounds, the players and the free slots that is stated apart from *)
(* the variables: QueueUpdate changes a copy of them many times, in folds  *)
(* over the free slots and the queued groups, before it is done.           *)
(***************************************************************************)
EXTENDS BattlegroundQueue, SequenceTheorems, FiniteSetTheorems, WellFoundedInduction, TLAPS

Groups == [players: SUBSET Players, team: Teams, bg: Bgs \cup {NoBg}, time: Nat]
Battlegrounds == [status: {"none", "join", "progress", "leave"}, invited: [Teams -> Int],
                  players: SUBSET Players, offline: Seq(Players)]
PlayerStates == [online: BOOLEAN, queueId: Bgs \cup {NoBg, NoQueue},
                 bg: Bgs \cup {NoBg}, transit: BOOLEAN]
Invitations == [player: Players, bg: Bgs, time: Nat]

(* The states of the queue, the battlegrounds and the players, apart from the
   variables: QueueUpdate changes a copy. *)
Typed(q, B, P) ==
    /\ q \in [Lists -> Seq(Groups)]
    /\ B \in [Bgs -> Battlegrounds]
    /\ P \in [Players -> PlayerStates]

Positions(q, l) == 1..Len(q[l])

Queued(q) == {p \in Players : \E l \in Lists : \E i \in Positions(q, l) : p \in q[l][i].players}

(* Nobody is in two groups. *)
OneGroup(q) ==
    \A l \in Lists, m \in Lists : \A i \in Positions(q, l), j \in Positions(q, m) :
        \A p \in q[l][i].players : p \in q[m][j].players => l = m /\ i = j

QueueOk(q, P) ==
    /\ \A l \in Lists : \A i \in Positions(q, l) :
        /\ q[l][i].players # {}
        /\ \A p \in q[l][i].players :
            /\ Team[p] = l[2]
            /\ P[p].online /\ ~P[p].transit /\ P[p].bg = NoBg
            /\ P[p].queueId = q[l][i].bg
    /\ OneGroup(q)

(* A player's queue slot, apart from those in Q, who are queued: it names the
   battleground he is inside, or on his way to. *)
PlayerOk(Q, B, P, p) ==
    /\ ~P[p].online => P[p].queueId = NoQueue /\ ~P[p].transit
    /\ P[p].online /\ P[p].bg # NoBg => P[p].queueId = P[p].bg
    /\ P[p].transit => P[p].bg # NoBg
    /\ P[p].queueId # NoQueue /\ p \notin Q =>
            /\ P[p].queueId = P[p].bg /\ P[p].bg # NoBg
            /\ P[p].transit \/ p \in B[P[p].bg].players
    /\ \A b \in Bgs : p \in B[b].players => P[p].bg = b /\ ~P[p].transit

PlayersOk(Q, B, P) == \A p \in Players : PlayerOk(Q, B, P, p)

(* Who holds a place of battleground b. *)
Claims(B, P, b) == {p \in Players : P[p].queueId = b} \cup B[b].players

(* The invited counts are exact, and a battleground that is gone is cleared. *)
PlacesOk(B, P) ==
    \A b \in Bgs :
        /\ \A t \in Teams : B[b].invited[t] = Cardinality(Of(Claims(B, P, b), t))
        /\ B[b].status = "none" => B[b] = NoBattleground

(* No team holds more places than max. *)
RoomOk(B, max) == \A b \in Bgs : \A t \in Teams : B[b].invited[t] <= max

(* Who is on a battleground's list of those who are away. *)
AwayOk(B, P, b) ==
    LET off == B[b].offline
    IN  /\ \A i \in 1..Len(off) : off[i] \in B[b].players /\ ~P[off[i]].online
        /\ \A i \in 1..Len(off), j \in 1..Len(off) : off[i] = off[j] => i = j

OfflineOk(B, P) == \A b \in Bgs : B[b].status # "leave" => AwayOk(B, P, b)

(* A running battleground that is not full is among the free slots. *)
SlotsOk(B, S, max) ==
    /\ S \in Seq(Bgs)
    /\ \A b \in Bgs :
        (B[b].status \in {"join", "progress"} /\ Cardinality(B[b].players) < 2 * max) =>
            b \in Range(S)

(* What every change of the copy keeps. *)
Good(q, B, P, S, max) ==
    /\ Typed(q, B, P)
    /\ QueueOk(q, P) /\ PlayersOk(Queued(q), B, P) /\ PlacesOk(B, P)
    /\ RoomOk(B, max) /\ OfflineOk(B, P) /\ SlotsOk(B, S, max)

(* The inductive invariant. *)
IInv ==
    /\ config \in Settings /\ updates \in Nat /\ events \subseteq Invitations
    /\ Good(queue, bgs, pl, slots, config.max)

(* A set of naturals that is not empty has a least element. *)
LEMMA LeastNumber ==
  ASSUME NEW T \in SUBSET Nat, T # {}
  PROVE  \E x \in T : \A y \in T : x <= y
<1> DEFINE R == {ss \in Nat \X Nat : ss[1] < ss[2]}
<1>1. IsWellFoundedOn(R, Nat)
  BY NatLessThanWellFounded DEF OpToRel
<1>2. \A x, y \in T : <<y, x>> \in R <=> y < x
  OBVIOUS
<1> HIDE DEF R
<1>3. PICK x \in T : \A y \in T : ~(<<y, x>> \in R)
  BY <1>1, WFMin
<1>4. \A y \in T : ~(y < x)
  BY <1>2, <1>3
<1>5. \A y \in T : y \in Nat /\ x \in Nat
  OBVIOUS
<1>6. \A y \in T : x <= y
  BY <1>4, <1>5
<1> QED
  BY <1>6

(* Induction, for a set of naturals instead of a predicate. *)
LEMMA SetInduction ==
  ASSUME NEW T \in SUBSET Nat, 0 \in T, \A n \in T : n + 1 \in T
  PROVE  T = Nat
<1> SUFFICES ASSUME T # Nat PROVE FALSE
  OBVIOUS
<1>1. Nat \ T # {}
  OBVIOUS
<1>2. PICK x \in Nat \ T : \A y \in Nat \ T : x <= y
  BY <1>1, LeastNumber
<1>3. x - 1 \in Nat /\ x - 1 \in T
  BY <1>2
<1>4. (x - 1) + 1 = x
  BY <1>2
<1> QED
  BY <1>2, <1>3, <1>4

(* How the community modules fold over a finite set D: pick chooses an element,
   step combines it with the value for the others, in V, and t has the value of
   every subset. *)
Picks(pick, D) == \A S \in (SUBSET D) \ {{}} : pick[S] \in S
Steps(step, D, V) == \A x \in D, v \in V : step[x][v] \in V
Folded(t, D, base, pick, step) ==
    \A S \in SUBSET D :
        t[S] = IF S = {} THEN base ELSE step[pick[S]][t[S \ {pick[S]}]]

(* The function by which they fold exists. *)
LEMMA FoldExists ==
  ASSUME NEW D, IsFiniteSet(D), NEW V, NEW base \in V,
         NEW pick, Picks(pick, D), NEW step, Steps(step, D, V)
  PROVE  \E t \in [SUBSET D -> V] : Folded(t, D, base, pick, step)
<1> DEFINE Upto(n) == {S \in SUBSET D : Cardinality(S) <= n}
           Folds(n, t) == \A S \in Upto(n) :
              t[S] = IF S = {} THEN base ELSE step[pick[S]][t[S \ {pick[S]}]]
           T == {n \in Nat : \E t \in [Upto(n) -> V] : Folds(n, t)}
<1>1. \A S \in SUBSET D : IsFiniteSet(S) /\ Cardinality(S) \in Nat
  BY FS_Subset, FS_CardinalityType
<1>2. ASSUME NEW S \in SUBSET D, S # {}
      PROVE  /\ pick[S] \in D /\ S \ {pick[S]} \in SUBSET D
             /\ Cardinality(S \ {pick[S]}) = Cardinality(S) - 1
             /\ S \ {pick[S]} # S
  BY <1>1, <1>2, FS_RemoveElement DEF Picks
<1>3. 0 \in T
  <2>1. \A S \in Upto(0) : S = {}
    BY <1>1, FS_EmptySet
  <2>2. [S \in Upto(0) |-> base] \in [Upto(0) -> V] /\ Folds(0, [S \in Upto(0) |-> base])
    BY <2>1
  <2> QED
    BY <2>2
<1>4. ASSUME NEW n \in T PROVE n + 1 \in T
  <2>1. PICK t \in [Upto(n) -> V] : Folds(n, t)
    BY <1>4
  <2> DEFINE next(S) == IF S = {} THEN base ELSE step[pick[S]][t[S \ {pick[S]}]]
             u == [S \in Upto(n + 1) |-> next(S)]
  <2>2. n \in Nat /\ n + 1 \in Nat
    BY <1>4
  <2>3. ASSUME NEW S \in Upto(n + 1), S # {}
        PROVE  S \ {pick[S]} \in Upto(n) /\ pick[S] \in D
    BY <1>1, <1>2, <2>2, <2>3
  <2>4. \A S \in Upto(n) : S \in Upto(n + 1) /\ u[S] = t[S]
    <3>1. \A S \in Upto(n) : S \in Upto(n + 1)
      BY <1>1, <2>2
    <3> QED
      BY <2>1, <3>1
  <2>5. u \in [Upto(n + 1) -> V]
    <3>1. ASSUME NEW S \in Upto(n + 1) PROVE next(S) \in V
      BY <2>1, <2>3 DEF Steps
    <3> HIDE DEF next
    <3> QED
      BY <3>1
  <2>6. Folds(n + 1, u)
    <3> HIDE DEF Upto
    <3>1. \A S \in Upto(n + 1) : S # {} => u[S \ {pick[S]}] = t[S \ {pick[S]}]
      BY <2>3, <2>4
    <3> QED
      BY <3>1
  <2> QED
    BY <2>2, <2>5, <2>6
<1>5. T = Nat
  <2> HIDE DEF T
  <2>1. T \subseteq Nat
    BY DEF T
  <2> QED
    BY <1>3, <1>4, <2>1, SetInduction
<1>6. Cardinality(D) \in Nat /\ Upto(Cardinality(D)) = SUBSET D
  BY <1>1, FS_CardinalityType, FS_Subset
<1>7. PICK t \in [Upto(Cardinality(D)) -> V] : Folds(Cardinality(D), t)
  <2>1. Cardinality(D) \in T
    BY <1>5, <1>6
  <2> HIDE DEF Upto, Folds
  <2> QED
    BY <2>1
<1> QED
  BY <1>6, <1>7 DEF Folded

(* The greatest number of 1..n in a set, and of a whole prefix. *)
LEMMA Greatest ==
  ASSUME NEW n \in Nat, NEW S \in SUBSET (1..n), S # {}
  PROVE  Max(S) \in S
<1> DEFINE Z == {n - x : x \in S}
<1>1. Z \in SUBSET Nat /\ Z # {}
  <2>1. \A x \in S : x \in 1..n /\ n - x \in Nat
    OBVIOUS
  <2> QED
    BY <2>1
<1>2. PICK z \in Z : \A y \in Z : z <= y
  BY <1>1, LeastNumber
<1>3. PICK x \in S : z = n - x
  BY <1>2
<1>4. ASSUME NEW y \in S PROVE x >= y
  <2>1. n - x <= n - y
    BY <1>2, <1>3
  <2>2. x \in Int /\ y \in Int
    OBVIOUS
  <2> QED
    BY <2>1, <2>2
<1> QED
  BY <1>4 DEF Max

(* The greatest number of 1..k + 1, and what is left without it. *)
LEMMA GreatestOfPrefix ==
  ASSUME NEW k \in Nat
  PROVE  Max(1..(k + 1)) = k + 1 /\ 1..(k + 1) \ {k + 1} = 1..k
<1>1. k + 1 \in 1..(k + 1) /\ \A y \in 1..(k + 1) : k + 1 >= y
  OBVIOUS
<1>2. \A x \in 1..(k + 1) : (\A y \in 1..(k + 1) : x >= y) => x = k + 1
  OBVIOUS
<1>3. Max(1..(k + 1)) = k + 1
  BY <1>1, <1>2 DEF Max
<1>4. 1..(k + 1) \ {k + 1} = 1..k
  OBVIOUS
<1> QED
  BY <1>3, <1>4

(* The same for a list of n elements: the last one is combined with the value for
   those before it. *)
ListFolded(u, n, base, step) ==
    \A S \in SUBSET (1..n) :
        u[S] = IF S = {} THEN base ELSE step[Max(S)][u[S \ {Max(S)}]]

(* The function by which a list is folded exists. *)
LEMMA ListFoldExists ==
  ASSUME NEW n \in Nat, NEW V, NEW base \in V, NEW step, Steps(step, 1..n, V)
  PROVE  \E u \in [SUBSET (1..n) -> V] : ListFolded(u, n, base, step)
<1> DEFINE pick == [S \in SUBSET (1..n) |-> Max(S)]
<1>1. IsFiniteSet(1..n)
  BY FS_Interval
<1>2. Picks(pick, 1..n)
  BY Greatest DEF Picks
<1>3. \A S \in SUBSET (1..n) : pick[S] = Max(S)
  OBVIOUS
<1> HIDE DEF pick
<1>4. PICK u \in [SUBSET (1..n) -> V] : Folded(u, 1..n, base, pick, step)
  <2> DEFINE D == 1..n
  <2>1. IsFiniteSet(D) /\ Picks(pick, D) /\ Steps(step, D, V)
    BY <1>1, <1>2
  <2> HIDE DEF D
  <2>2. \E u \in [SUBSET D -> V] : Folded(u, D, base, pick, step)
    BY <2>1, FoldExists
  <2> QED
    BY <2>2 DEF D
<1> QED
  <2>1. \A S \in SUBSET (1..n) : u[S] = IF S = {} THEN base ELSE step[pick[S]][u[S \ {pick[S]}]]
    BY <1>4 DEF Folded
  <2> SUFFICES ASSUME NEW S \in SUBSET (1..n)
               PROVE  u[S] = IF S = {} THEN base ELSE step[Max(S)][u[S \ {Max(S)}]]
    BY DEF ListFolded
  <2>2. pick[S] = Max(S)
    BY <1>3
  <2>3. u[S] = IF S = {} THEN base ELSE step[pick[S]][u[S \ {pick[S]}]]
    BY <2>1
  <2> QED
    BY <2>2, <2>3

(* What holds of the empty prefix, and of a prefix when of the one before, holds of
   the list. *)
LEMMA PrefixInduction ==
  ASSUME NEW n \in Nat, NEW T \in SUBSET Nat, 0 \in T,
         \A k \in T : k < n => k + 1 \in T
  PROVE  n \in T
<1> DEFINE U == {k \in Nat : k <= n => k \in T}
<1>1. 0 \in U
  OBVIOUS
<1>2. ASSUME NEW k \in U PROVE k + 1 \in U
  OBVIOUS
<1>3. U = Nat
  <2> HIDE DEF U
  <2>1. U \in SUBSET Nat
    BY DEF U
  <2> QED
    BY <1>1, <1>2, <2>1, SetInduction
<1> QED
  BY <1>3

(* kept has the elements of the list that are in S, in their order: at[i] is where
   the i-th one was. *)
Kept(kept, list, S, at) ==
    /\ at \in [1..Len(kept) -> 1..Len(list)]
    /\ \A i \in 1..Len(kept) : kept[i] = list[at[i]] /\ list[at[i]] \in S
    /\ \A i \in 1..Len(kept), j \in 1..Len(kept) : at[i] = at[j] => i = j
    /\ \A k \in 1..Len(list) : list[k] \in S => \E i \in 1..Len(kept) : at[i] = k

(* Keep returns those elements of the list that are in S, in their order. *)
LEMMA KeepAt ==
  ASSUME NEW X, NEW list \in Seq(X), NEW S
  PROVE  Keep(list, S) \in Seq(X) /\ \E at : Kept(Keep(list, S), list, S, at)
<1> DEFINE n == Len(list)
           V == Seq(X)
           next(r, x) == IF x \in S THEN Append(r, x) ELSE r
           t == CHOOSE t : t = [Z \in SUBSET DOMAIN list |->
                   IF Z = {} THEN <<>> ELSE next(t[Z \ {Max(Z)}], list[Max(Z)])]
           step == [k \in 1..n |-> [r \in V |-> next(r, list[k])]]
<1>1. Keep(list, S) = t[DOMAIN list]
  BY DEF Keep, FoldLeft, MapThenFoldSet
<1>2. n \in Nat /\ DOMAIN list = 1..n /\ \A k \in 1..n : list[k] \in X
  BY LenProperties
<1>3. \A r \in V, x \in X : next(r, x) \in V
  OBVIOUS
<1>4. <<>> \in V
  OBVIOUS
<1>5. PICK u \in [SUBSET (1..n) -> V] : ListFolded(u, n, <<>>, step)
  <2> HIDE DEF n, V, next
  <2>1. Steps(step, 1..n, V)
    BY <1>2, <1>3 DEF Steps
  <2> HIDE DEF step
  <2> QED
    BY <1>2, <1>4, <2>1, ListFoldExists
<1>6. \A Z \in SUBSET (1..n) :
        u[Z] = IF Z = {} THEN <<>> ELSE next(u[Z \ {Max(Z)}], list[Max(Z)])
  <2> HIDE DEF n, V, next
  <2>1. ASSUME NEW Z \in SUBSET (1..n), Z # {}
        PROVE  step[Max(Z)][u[Z \ {Max(Z)}]] = next(u[Z \ {Max(Z)}], list[Max(Z)])
    <3>1. Max(Z) \in 1..n /\ u[Z \ {Max(Z)}] \in V
      BY <1>2, <2>1, Greatest
    <3> QED
      BY <3>1
  <2> HIDE DEF step
  <2> QED
    BY <1>5, <2>1 DEF ListFolded
<1> HIDE DEF next
<1>7. u = [Z \in SUBSET DOMAIN list |->
             IF Z = {} THEN <<>> ELSE next(u[Z \ {Max(Z)}], list[Max(Z)])]
  BY <1>2, <1>6
<1>8. t = [Z \in SUBSET DOMAIN list |->
             IF Z = {} THEN <<>> ELSE next(t[Z \ {Max(Z)}], list[Max(Z)])]
  BY <1>7
<1> HIDE DEF t, step, n
<1>9. t[{}] = <<>> /\ \A k \in Nat : k < n => t[1..(k + 1)] = next(t[1..k], list[k + 1])
  <2>1. ASSUME NEW k \in Nat, k < n PROVE t[1..(k + 1)] = next(t[1..k], list[k + 1])
    <3>1. PICK Z \in SUBSET DOMAIN list : Z = 1..(k + 1)
      BY <1>2, <2>1
    <3>2. Z # {} /\ Max(Z) = k + 1 /\ Z \ {k + 1} = 1..k
      <4>1. k + 1 \in Z
        BY <3>1
      <4> QED
        BY <3>1, <4>1, GreatestOfPrefix
    <3>3. t[Z] = next(t[Z \ {Max(Z)}], list[Max(Z)])
      BY <1>8, <3>2
    <3> QED
      BY <3>1, <3>2, <3>3
  <2> QED
    BY <1>8, <2>1
<1> DEFINE At(r, k, at) ==
              /\ at \in [1..Len(r) -> 1..k]
              /\ \A i \in 1..Len(r) : r[i] = list[at[i]] /\ list[at[i]] \in S
              /\ \A i \in 1..Len(r), j \in 1..Len(r) : at[i] = at[j] => i = j
              /\ \A m \in 1..k : list[m] \in S => \E i \in 1..Len(r) : at[i] = m
           T == {k \in Nat : t[1..k] \in Seq(X) /\ \E at : At(t[1..k], k, at)}
<1>10. 0 \in T
  <2>1. 1..0 = {} /\ t[1..0] = <<>>
    BY <1>9
  <2>2. At(<<>>, 0, <<>>)
    BY <2>1
  <2> HIDE DEF At
  <2>3. t[1..0] \in Seq(X) /\ At(t[1..0], 0, <<>>)
    BY <2>1, <2>2
  <2> QED
    BY <2>3
<1>11. ASSUME NEW k \in T, k < n PROVE k + 1 \in T
  <2>1. k \in Nat /\ k + 1 \in Nat /\ k + 1 \in 1..n /\ list[k + 1] \in X
    BY <1>2, <1>11
  <2>2. PICK r \in Seq(X) : r = t[1..k]
    BY <1>11
  <2>3. PICK at : At(r, k, at)
    BY <1>11, <2>2
  <2>4. t[1..(k + 1)] = next(r, list[k + 1])
    BY <1>9, <1>11, <2>1, <2>2
  <2>5. CASE list[k + 1] \notin S
    <3>1. t[1..(k + 1)] = r
      BY <2>4, <2>5 DEF next
    <3>2. At(r, k + 1, at)
      <4>1. at \in [1..Len(r) -> 1..(k + 1)]
        BY <2>1, <2>3
      <4>2. \A m \in 1..(k + 1) : list[m] \in S => m \in 1..k
        BY <2>1, <2>5
      <4> QED
        BY <2>3, <4>1, <4>2
    <3> HIDE DEF At
    <3> QED
      BY <2>1, <3>1, <3>2
  <2>6. CASE list[k + 1] \in S
    <3> DEFINE l == Len(r)
               new == [i \in 1..(l + 1) |-> IF i = l + 1 THEN k + 1 ELSE at[i]]
    <3>1. PICK r1 \in Seq(X) : r1 = Append(r, list[k + 1])
      <4>1. Append(r, list[k + 1]) \in Seq(X)
        <5> HIDE DEF T, At
        <5> QED
          BY <2>1, AppendProperties
      <4> QED
        BY <4>1
    <3>2. t[1..(k + 1)] = r1
      BY <2>4, <2>6, <3>1 DEF next
    <3>3. l \in Nat /\ Len(r1) = l + 1 /\ r1[l + 1] = list[k + 1] /\ \A i \in 1..l : r1[i] = r[i]
      BY <3>1
    <3>4. at \in [1..l -> 1..k] /\ \A i \in 1..l : r[i] = list[at[i]] /\ list[at[i]] \in S
      BY <2>3
    <3> HIDE DEF l
    <3>5. /\ new[l + 1] = k + 1 /\ \A i \in 1..l : new[i] = at[i] /\ new[i] \in 1..k
          /\ \A i \in 1..(l + 1) : i \in 1..l \/ i = l + 1
          /\ \A m \in 1..(k + 1) : m \in 1..k \/ m = k + 1
          /\ k + 1 \notin 1..k
          /\ \A i \in 1..l : i \in 1..(l + 1)
          /\ l + 1 \in 1..(l + 1)
      BY <2>1, <3>3, <3>4
    <3>6. new \in [1..(l + 1) -> 1..(k + 1)]
      BY <2>1, <3>3, <3>4
    <3> HIDE DEF new
    <3>7. \A i \in 1..(l + 1) : r1[i] = list[new[i]] /\ list[new[i]] \in S
      BY <2>6, <3>3, <3>4, <3>5
    <3>8. \A i \in 1..(l + 1), j \in 1..(l + 1) : new[i] = new[j] => i = j
      <4>1. \A i \in 1..l, j \in 1..l : at[i] = at[j] => i = j
        BY <2>3 DEF l
      <4>2. SUFFICES ASSUME NEW i \in 1..(l + 1), NEW j \in 1..(l + 1), new[i] = new[j]
                    PROVE  i = j
        OBVIOUS
      <4>3. CASE i \in 1..l /\ j \in 1..l
        BY <3>5, <4>1, <4>2, <4>3
      <4>4. CASE i = l + 1 \/ j = l + 1
        BY <3>5, <4>2, <4>4
      <4> QED
        BY <3>5, <4>3, <4>4
    <3>9. \A m \in 1..(k + 1) : list[m] \in S => \E i \in 1..(l + 1) : new[i] = m
      <4>1. \A m \in 1..k : list[m] \in S => \E i \in 1..l : at[i] = m
        BY <2>3 DEF l
      <4> QED
        BY <3>5, <4>1
    <3>10. At(r1, k + 1, new)
      BY <3>3, <3>6, <3>7, <3>8, <3>9
    <3> HIDE DEF At
    <3> QED
      BY <2>1, <3>1, <3>2, <3>10
  <2> QED
    BY <2>5, <2>6
<1>12. n \in T
  <2>1. T \in SUBSET Nat
    OBVIOUS
  <2> HIDE DEF T
  <2> QED
    BY <1>2, <1>10, <1>11, <2>1, PrefixInduction
<1>13. Keep(list, S) = t[1..n]
  BY <1>1, <1>2
<1>14. Keep(list, S) \in Seq(X) /\ \E at : At(Keep(list, S), n, at)
  <2> HIDE DEF At
  <2>1. t[1..n] \in Seq(X) /\ \E at : At(t[1..n], n, at)
    BY <1>12 DEF T
  <2> QED
    BY <1>13, <2>1
<1> QED
  BY <1>14 DEF n, Kept

(* The players of one team, counted. *)
LEMMA OfCounts ==
  ASSUME NEW S \in SUBSET Players, NEW T \in SUBSET Players, NEW t \in Teams
  PROVE  /\ IsFiniteSet(S) /\ IsFiniteSet(Of(S, t)) /\ Cardinality(Of(S, t)) \in Nat
         /\ T \subseteq S =>
              Cardinality(Of(S \ T, t)) = Cardinality(Of(S, t)) - Cardinality(Of(T, t))
         /\ S \cap T = {} =>
              Cardinality(Of(S \cup T, t)) = Cardinality(Of(S, t)) + Cardinality(Of(T, t))
<1>1. IsFiniteSet(S) /\ IsFiniteSet(T)
  BY ConstantsAssumption, FS_Subset
<1>2. Of(S, t) \in SUBSET S /\ Of(T, t) \in SUBSET T
  BY DEF Of
<1>3. /\ IsFiniteSet(Of(S, t)) /\ Cardinality(Of(S, t)) \in Nat
      /\ IsFiniteSet(Of(T, t)) /\ Cardinality(Of(T, t)) \in Nat
  BY <1>1, <1>2, FS_Subset, FS_CardinalityType
<1>4. ASSUME T \subseteq S
      PROVE  Cardinality(Of(S \ T, t)) = Cardinality(Of(S, t)) - Cardinality(Of(T, t))
  <2>1. Of(S \ T, t) = Of(S, t) \ Of(T, t) /\ Of(S, t) \cap Of(T, t) = Of(T, t)
    BY <1>4 DEF Of
  <2> QED
    <3>1. Cardinality(Of(S, t) \ Of(T, t)) =
            Cardinality(Of(S, t)) - Cardinality(Of(S, t) \cap Of(T, t))
      BY <1>3, FS_Difference
    <3> QED
      BY <2>1, <3>1
<1>5. ASSUME S \cap T = {}
      PROVE  Cardinality(Of(S \cup T, t)) = Cardinality(Of(S, t)) + Cardinality(Of(T, t))
  <2>1. Of(S \cup T, t) = Of(S, t) \cup Of(T, t) /\ Of(S, t) \cap Of(T, t) = {}
    BY <1>5 DEF Of
  <2>2. Cardinality(Of(S, t) \cap Of(T, t)) = 0
    BY <2>1, FS_EmptySet
  <2>3. Cardinality(Of(S, t) \cup Of(T, t)) =
          Cardinality(Of(S, t)) + Cardinality(Of(T, t)) - Cardinality(Of(S, t) \cap Of(T, t))
    BY <1>3, FS_Union
  <2>4. Cardinality(Of(S, t) \cup Of(T, t)) = Cardinality(Of(S, t)) + Cardinality(Of(T, t))
    BY <1>3, <2>2, <2>3
  <2> QED
    BY <2>1, <2>4
<1> QED
  BY <1>1, <1>3, <1>4, <1>5

(* What is in a list. *)
LEMMA RangeOfList ==
  ASSUME NEW X, NEW list \in Seq(X)
  PROVE  /\ Range(list) \subseteq X
         /\ \A x : x \in Range(list) <=> \E i \in 1..Len(list) : list[i] = x
<1>1. DOMAIN list = 1..Len(list) /\ \A i \in 1..Len(list) : list[i] \in X
  BY LenProperties
<1> QED
  BY <1>1 DEF Range

(* What Keep leaves in a list: what was in it and is in S. *)
LEMMA KeepHas ==
  ASSUME NEW X, NEW list \in Seq(X), NEW S
  PROVE  /\ Keep(list, S) \in Seq(X)
         /\ \A x : x \in Range(Keep(list, S)) <=> x \in Range(list) /\ x \in S
<1>1. Keep(list, S) \in Seq(X)
  BY KeepAt
<1>2. PICK at : Kept(Keep(list, S), list, S, at)
  BY KeepAt
<1>3. \A x : x \in Range(Keep(list, S)) <=> \E i \in 1..Len(Keep(list, S)) : Keep(list, S)[i] = x
  BY <1>1, RangeOfList
<1>4. \A x : x \in Range(list) <=> \E i \in 1..Len(list) : list[i] = x
  BY RangeOfList
<1> QED
  <2> DEFINE kept == Keep(list, S)
  <2> HIDE DEF kept
  <2>1. /\ \A i \in 1..Len(kept) : at[i] \in 1..Len(list) /\ kept[i] = list[at[i]] /\ kept[i] \in S
        /\ \A k \in 1..Len(list) : list[k] \in S => \E i \in 1..Len(kept) : at[i] = k
    BY <1>2 DEF Kept, kept
  <2>2. \A x : x \in Range(kept) <=> \E i \in 1..Len(kept) : kept[i] = x
    BY <1>3 DEF kept
  <2>3. \A x : x \in Range(kept) <=> x \in Range(list) /\ x \in S
    BY <1>4, <2>1, <2>2
  <2> QED
    BY <1>1, <2>3 DEF kept

(* Who is queued, and in which group. *)
LEMMA QueuedIs ==
  ASSUME queue \in [Lists -> Seq(Groups)]
  PROVE  /\ InQueue = Queued(queue)
         /\ \A p \in Queued(queue) : \E l \in Lists : \E i \in Positions(queue, l) :
               p \in queue[l][i].players /\ GroupOf(p) = queue[l][i]
<1>1. \A l \in Lists : \A g : g \in Range(queue[l]) <=> \E i \in Positions(queue, l) : queue[l][i] = g
  BY RangeOfList DEF Positions
<1>2. \A l \in Lists : \A i \in Positions(queue, l) : queue[l][i] \in Groups
  BY LenProperties DEF Positions
<1>3. \A l \in Lists : \A i \in Positions(queue, l) : queue[l][i].players \subseteq Players
  BY <1>2 DEF Groups
<1> DEFINE all == UNION {Range(queue[l]) : l \in Lists}
<1>4. \A g : g \in all <=> \E l \in Lists : \E i \in Positions(queue, l) : queue[l][i] = g
  BY <1>1
<1>5. InQueue = UNION {g.players : g \in all}
  BY DEF InQueue
<1> HIDE DEF all
<1>6. \A p : p \in InQueue <=> \E g \in all : p \in g.players
  BY <1>5
<1>7. InQueue = Queued(queue)
  BY <1>3, <1>4, <1>6 DEF Queued
<1>8. ASSUME NEW p \in Queued(queue)
      PROVE  \E l \in Lists : \E i \in Positions(queue, l) :
               p \in queue[l][i].players /\ GroupOf(p) = queue[l][i]
  <2>1. GroupOf(p) = CHOOSE g \in all : p \in g.players
    BY DEF GroupOf, all
  <2>2. GroupOf(p) \in all /\ p \in GroupOf(p).players
    BY <1>4, <2>1 DEF Queued
  <2> QED
    BY <1>4, <2>2
<1> QED
  BY <1>7, <1>8

(* The queue slot of a player who is queued names his group's battleground. *)
LEMMA InvitedIs ==
  ASSUME queue \in [Lists -> Seq(Groups)], QueueOk(queue, pl)
  PROVE  /\ \A p \in Queued(queue) : GroupOf(p).bg = pl[p].queueId
         /\ \A b, p : InvitedTo(b, p) <=> p \in Queued(queue) /\ pl[p].queueId = b
<1>1. \A p \in Queued(queue) : GroupOf(p).bg = pl[p].queueId
  BY QueuedIs DEF QueueOk
<1> QED
  BY <1>1, QueuedIs DEF InvitedTo

(* What RemovePlayer leaves of a list; at: where each group was. *)
Left(left, list, ps, at) ==
    /\ at \in [1..Len(left) -> 1..Len(list)]
    /\ \A i \in 1..Len(left) : /\ left[i].players = list[at[i]].players \ ps
                               /\ left[i].players # {}
                               /\ left[i].bg = list[at[i]].bg
    /\ \A i \in 1..Len(left), j \in 1..Len(left) : at[i] = at[j] => i = j
    /\ \A k \in 1..Len(list) : list[k].players \ ps # {} => \E i \in 1..Len(left) : at[i] = k

(* RemovePlayer leaves in every list the groups who still have a member, in
   their order. *)
LEMMA LeftAt ==
  ASSUME queue \in [Lists -> Seq(Groups)], NEW ps \in SUBSET Players, RemovePlayer(ps),
         NEW l \in Lists
  PROVE  queue'[l] \in Seq(Groups) /\ \E at : Left(queue'[l], queue[l], ps, at)
<1>1. PICK list \in Seq(Groups) : list = queue[l]
  OBVIOUS
<1>2. Len(list) \in Nat /\ \A i \in 1..Len(list) : list[i] \in Groups
  BY LenProperties
<1> DEFINE left == [i \in 1..Len(list) |-> [list[i] EXCEPT !.players = @ \ ps]]
<1>3. \A i \in 1..Len(list) : /\ left[i] \in Groups /\ left[i].players = list[i].players \ ps
                              /\ left[i].bg = list[i].bg
  BY <1>2 DEF Groups
<1>4. left \in Seq(Groups) /\ Len(left) = Len(list)
  <2>1. left \in [1..Len(list) -> Groups]
    BY <1>3
  <2> HIDE DEF left
  <2>2. left \in Seq(Groups)
    BY <1>2, <2>1, SeqDef
  <2> QED
    BY <1>2, <2>1, <2>2, LenProperties
<1> DEFINE S == {g \in Range(left) : g.players # {}}
<1>5. queue'[l] = Keep(left, S)
  BY <1>1 DEF RemovePlayer
<1> HIDE DEF left
<1>6. \A i \in 1..Len(list) : left[i] \in S <=> left[i].players # {}
  BY <1>4, RangeOfList
<1> HIDE DEF S
<1>7. queue'[l] \in Seq(Groups)
  BY <1>4, <1>5, KeepAt
<1>8. PICK at : Kept(queue'[l], left, S, at)
  BY <1>4, <1>5, KeepAt
<1>9. Left(queue'[l], list, ps, at)
  <2>1. PICK new : new = queue'[l]
    OBVIOUS
  <2>2. Kept(new, left, S, at)
    BY <1>8, <2>1
  <2>3. \A i \in 1..Len(new) : at[i] \in 1..Len(list) /\ new[i] = left[at[i]] /\ new[i] \in S
    BY <1>4, <2>2 DEF Kept
  <2>4. at \in [1..Len(new) -> 1..Len(list)]
    BY <1>4, <2>2 DEF Kept
  <2>5. \A i \in 1..Len(new) : /\ new[i].players = list[at[i]].players \ ps
                              /\ new[i].players # {}
                              /\ new[i].bg = list[at[i]].bg
    BY <1>3, <1>6, <2>3
  <2>6. \A k \in 1..Len(list) : list[k].players \ ps # {} => \E i \in 1..Len(new) : at[i] = k
    BY <1>3, <1>4, <1>6, <2>2 DEF Kept
  <2>7. \A i \in 1..Len(new), j \in 1..Len(new) : at[i] = at[j] => i = j
    BY <2>2 DEF Kept
  <2> QED
    BY <2>1, <2>4, <2>5, <2>6, <2>7 DEF Left
<1> QED
  BY <1>1, <1>7, <1>9

(* RemovePlayer takes exactly the players ps out of the queue. *)
LEMMA RemovePlayerOk ==
  ASSUME queue \in [Lists -> Seq(Groups)], QueueOk(queue, pl),
         NEW ps \in SUBSET Players, RemovePlayer(ps),
         \A p \in Players \ ps : pl'[p] = pl[p]
  PROVE  /\ queue' \in [Lists -> Seq(Groups)]
         /\ Queued(queue') = Queued(queue) \ ps
         /\ QueueOk(queue', pl')
<1>1. \A l \in Lists : queue'[l] \in Seq(Groups)
  BY LeftAt
<1>2. queue' \in [Lists -> Seq(Groups)]
  BY <1>1 DEF RemovePlayer
<1>3. \A l \in Lists : \A i \in Positions(queue', l) : \E k \in Positions(queue, l) :
        /\ queue'[l][i].players = queue[l][k].players \ ps
        /\ queue'[l][i].players # {}
        /\ queue'[l][i].bg = queue[l][k].bg
  <2> SUFFICES ASSUME NEW l \in Lists, NEW i \in Positions(queue', l)
               PROVE  \E k \in Positions(queue, l) :
                        /\ queue'[l][i].players = queue[l][k].players \ ps
                        /\ queue'[l][i].players # {}
                        /\ queue'[l][i].bg = queue[l][k].bg
    OBVIOUS
  <2>1. PICK at : Left(queue'[l], queue[l], ps, at)
    BY LeftAt
  <2> QED
    BY <2>1 DEF Left, Positions
<1>4. \A l \in Lists : \A k \in Positions(queue, l) : queue[l][k].players \ ps # {} =>
        \E i \in Positions(queue', l) : queue'[l][i].players = queue[l][k].players \ ps
  <2> SUFFICES ASSUME NEW l \in Lists, NEW k \in Positions(queue, l), queue[l][k].players \ ps # {}
               PROVE  \E i \in Positions(queue', l) : queue'[l][i].players = queue[l][k].players \ ps
    OBVIOUS
  <2>1. PICK at : Left(queue'[l], queue[l], ps, at)
    BY LeftAt
  <2> QED
    <3>1. PICK i \in 1..Len(queue'[l]) : at[i] = k
      BY <2>1 DEF Left, Positions
    <3>2. queue'[l][i].players = queue[l][at[i]].players \ ps
      BY <2>1, <3>1 DEF Left
    <3> QED
      BY <3>1, <3>2 DEF Positions
<1>5. \A l \in Lists : \A k \in Positions(queue, l) : queue[l][k].players \subseteq Players
  <2>1. \A l \in Lists : \A k \in Positions(queue, l) : queue[l][k] \in Groups
    BY LenProperties DEF Positions
  <2> QED
    BY <2>1 DEF Groups
<1>6. Queued(queue') = Queued(queue) \ ps
  BY <1>3, <1>4 DEF Queued
<1>7. OneGroup(queue')
  <2> SUFFICES ASSUME NEW l \in Lists, NEW m \in Lists,
                      NEW i \in Positions(queue', l), NEW j \in Positions(queue', m),
                      NEW p \in queue'[l][i].players, p \in queue'[m][j].players
               PROVE  l = m /\ i = j
    BY DEF OneGroup
  <2>1. PICK at : Left(queue'[l], queue[l], ps, at)
    BY LeftAt
  <2>2. PICK k \in Positions(queue, m) : queue'[m][j].players = queue[m][k].players \ ps
    BY <1>3
  <2>3. p \in queue[l][at[i]].players /\ at[i] \in Positions(queue, l) /\ p \in queue[m][k].players
    BY <2>1, <2>2 DEF Left, Positions
  <2>4. l = m /\ at[i] = k
    BY <2>2, <2>3 DEF QueueOk, OneGroup
  <2>5. queue'[m][j].players = queue[l][at[j]].players \ ps /\ at[j] \in Positions(queue, l)
    BY <2>1, <2>4 DEF Left, Positions
  <2>6. at[j] = at[i]
    BY <2>3, <2>5 DEF QueueOk, OneGroup
  <2> QED
    BY <2>1, <2>4, <2>6 DEF Left, Positions
<1>8. ASSUME NEW l \in Lists, NEW i \in Positions(queue', l), NEW p \in queue'[l][i].players
      PROVE  /\ Team[p] = l[2]
             /\ pl'[p].online /\ ~pl'[p].transit /\ pl'[p].bg = NoBg
             /\ pl'[p].queueId = queue'[l][i].bg
  <2>1. PICK k \in Positions(queue, l) : /\ queue'[l][i].players = queue[l][k].players \ ps
                                         /\ queue'[l][i].bg = queue[l][k].bg
    BY <1>3
  <2>2. p \in queue[l][k].players /\ p \in Players \ ps
    BY <1>5, <2>1
  <2> QED
    BY <2>1, <2>2 DEF QueueOk
<1> QED
  BY <1>2, <1>3, <1>6, <1>7, <1>8 DEF QueueOk

(* A battleground that somebody has a place in exists. *)
LEMMA ClaimedExists ==
  ASSUME NEW B \in [Bgs -> Battlegrounds], NEW P, PlacesOk(B, P),
         NEW b \in Bgs, NEW p \in Claims(B, P, b)
  PROVE  B[b].status # "none"
<1>1. SUFFICES ASSUME B[b].status = "none" PROVE FALSE
  OBVIOUS
<1>2. B[b].players \in SUBSET Players
  BY DEF Battlegrounds
<1>3. p \in Players /\ Team[p] \in Teams /\ p \in Of(Claims(B, P, b), Team[p])
  BY <1>2, ConstantsAssumption DEF Claims, Of
<1>4. Claims(B, P, b) \in SUBSET Players
  BY <1>2 DEF Claims
<1>5. B[b].invited[Team[p]] = 0
  BY <1>1, <1>3 DEF PlacesOk, NoBattleground
<1>6. Cardinality(Of(Claims(B, P, b), Team[p])) = 0
  BY <1>3, <1>5 DEF PlacesOk
<1>7. IsFiniteSet(Of(Claims(B, P, b), Team[p]))
  BY <1>3, <1>4, OfCounts
<1> QED
  BY <1>3, <1>6, <1>7, FS_EmptySet

(* AddGroup of players of team t who are not queued, and whom nothing keeps from
   waiting there. *)
Joining(ps, kind, t) ==
    /\ queue \in [Lists -> Seq(Groups)] /\ QueueOk(queue, pl)
    /\ ps \in SUBSET Players /\ ps # {} /\ ps \cap Queued(queue) = {}
    /\ kind \in {"premade", "normal"} /\ t \in Teams /\ AddGroup(ps, kind, t)
    /\ \A p \in ps : Team[p] = t
    /\ \A p \in Players \ ps : pl'[p] = pl[p]
    /\ \A p \in ps : /\ pl'[p].online /\ ~pl'[p].transit /\ pl'[p].bg = NoBg
                     /\ pl'[p].queueId = NoBg

(* AddGroup puts players who are not queued at the end of their team's list. *)
LEMMA AddGroupOk ==
  ASSUME NEW ps, NEW kind, NEW t, Joining(ps, kind, t)
  PROVE  /\ queue' \in [Lists -> Seq(Groups)]
         /\ Queued(queue') = Queued(queue) \cup ps
         /\ QueueOk(queue', pl')
<1>0. /\ queue \in [Lists -> Seq(Groups)] /\ QueueOk(queue, pl)
      /\ ps \in SUBSET Players /\ ps # {} /\ ps \cap Queued(queue) = {}
      /\ kind \in {"premade", "normal"} /\ t \in Teams /\ AddGroup(ps, kind, t)
      /\ \A p \in ps : Team[p] = t
      /\ \A p \in Players \ ps : pl'[p] = pl[p]
      /\ \A p \in ps : /\ pl'[p].online /\ ~pl'[p].transit /\ pl'[p].bg = NoBg
                       /\ pl'[p].queueId = NoBg
  BY DEF Joining
<1> USE <1>0
<1> DEFINE at == <<kind, t>>
<1>1. PICK g : g = NewGroup(ps, t)
  OBVIOUS
<1>2. g \in Groups /\ g.players = ps /\ g.team = t /\ g.bg = NoBg
  BY <1>1 DEF NewGroup, Groups, NoBg
<1>3. at \in Lists /\ at[2] = t
  BY DEF Lists
<1>4. queue' = [queue EXCEPT ![at] = Append(@, g)]
  BY <1>1 DEF AddGroup
<1> HIDE DEF at
<1>5. /\ queue'[at] = Append(queue[at], g) /\ \A l \in Lists \ {at} : queue'[l] = queue[l]
      /\ queue' \in [Lists -> Seq(Groups)]
  BY <1>2, <1>3, <1>4
<1>6. \A l \in Lists : Len(queue[l]) \in Nat /\ \A i \in Positions(queue, l) : queue[l][i] \in Groups
  BY LenProperties DEF Positions
<1>7. /\ Len(queue'[at]) = Len(queue[at]) + 1 /\ queue'[at][Len(queue[at]) + 1] = g
      /\ \A i \in 1..Len(queue[at]) : queue'[at][i] = queue[at][i]
  BY <1>2, <1>3, <1>5, AppendProperties
<1> DEFINE last == Len(queue[at]) + 1
<1>8. /\ \A l \in Lists : \A i \in Positions(queue, l) :
            i \in Positions(queue', l) /\ queue'[l][i] = queue[l][i]
      /\ \A l \in Lists : \A i \in Positions(queue', l) :
            \/ l = at /\ i = last
            \/ i \in Positions(queue, l) /\ queue'[l][i] = queue[l][i]
      /\ last \in Positions(queue', at) /\ queue'[at][last] = g
  <2> DEFINE n == Len(queue[at])
  <2>1. n \in Nat /\ Positions(queue, at) = 1..n /\ Positions(queue', at) = 1..(n + 1)
        /\ last = n + 1
    BY <1>3, <1>6, <1>7 DEF Positions
  <2> HIDE DEF n
  <2>2. \A i \in 1..(n + 1) : i \in 1..n \/ i = n + 1
    BY <2>1
  <2>3. n + 1 \in 1..(n + 1) /\ \A i \in 1..n : i \in 1..(n + 1)
    BY <2>1
  <2>4. \A i \in 1..n : queue'[at][i] = queue[at][i]
    BY <1>7 DEF n
  <2>5. \A l \in Lists \ {at} : Positions(queue', l) = Positions(queue, l)
    BY <1>5 DEF Positions
  <2> HIDE DEF last
  <2> QED
    BY <1>3, <1>5, <1>7, <2>1, <2>2, <2>3, <2>4, <2>5 DEF last
<1> HIDE DEF last
<1>9. \A l \in Lists : \A i \in Positions(queue, l) : queue[l][i].players \subseteq Queued(queue)
  BY <1>6 DEF Queued, Groups
<1>10. Queued(queue') = Queued(queue) \cup ps
  <2>1. \A p : p \in Queued(queue) => p \in Queued(queue')
    BY <1>8 DEF Queued
  <2>2. \A p \in ps : p \in Queued(queue')
    BY <1>2, <1>3, <1>8 DEF Queued
  <2>3. \A p : p \in Queued(queue') => p \in Queued(queue) \/ p \in ps
    BY <1>2, <1>8 DEF Queued
  <2> QED
    BY <2>1, <2>2, <2>3
<1>11. OneGroup(queue')
  <2> SUFFICES ASSUME NEW l \in Lists, NEW m \in Lists,
                      NEW i \in Positions(queue', l), NEW j \in Positions(queue', m),
                      NEW p \in queue'[l][i].players, p \in queue'[m][j].players
               PROVE  l = m /\ i = j
    BY DEF OneGroup
  <2>1. CASE p \in ps
    BY <1>2, <1>8, <1>9, <2>1
  <2>2. CASE p \notin ps
    <3>1. /\ i \in Positions(queue, l) /\ p \in queue[l][i].players
          /\ j \in Positions(queue, m) /\ p \in queue[m][j].players
      BY <1>2, <1>8, <2>2
    <3> QED
      BY <3>1 DEF QueueOk, OneGroup
  <2> QED
    BY <2>1, <2>2
<1>12. ASSUME NEW l \in Lists, NEW i \in Positions(queue', l)
       PROVE  /\ queue'[l][i].players # {}
              /\ \A p \in queue'[l][i].players :
                   /\ Team[p] = l[2]
                   /\ pl'[p].online /\ ~pl'[p].transit /\ pl'[p].bg = NoBg
                   /\ pl'[p].queueId = queue'[l][i].bg
  <2>1. CASE l = at /\ i = last
    BY <1>2, <1>3, <1>8, <2>1
  <2>2. CASE i \in Positions(queue, l) /\ queue'[l][i] = queue[l][i]
    <3>1. \A p \in queue[l][i].players : p \in Players \ ps
      BY <1>9, <2>2 DEF Queued
    <3> QED
      <4>1. /\ queue[l][i].players # {}
            /\ \A p \in queue[l][i].players :
                 /\ Team[p] = l[2]
                 /\ pl[p].online /\ ~pl[p].transit /\ pl[p].bg = NoBg
                 /\ pl[p].queueId = queue[l][i].bg
        BY <2>2 DEF QueueOk
      <4> QED
        BY <2>2, <3>1, <4>1
  <2> QED
    BY <1>8, <2>1, <2>2
<1> QED
  BY <1>5, <1>10, <1>11, <1>12 DEF QueueOk

(* Players join, alone or as a group. *)
LEMMA JoinIInv ==
  ASSUME IInv, NEW ps \in SUBSET Players, ps # {}, NEW kind \in {"premade", "normal"},
         NEW t \in Teams, AddGroup(ps, kind, t), \A p \in ps : Team[p] = t,
         \A p \in ps : pl[p].online /\ pl[p].queueId = NoQueue,
         pl' = [p \in Players |-> IF p \in ps THEN [pl[p] EXCEPT !.queueId = 0] ELSE pl[p]],
         UNCHANGED <<config, bgs, slots, events, updates>>
  PROVE  IInv'
<1>1. Good(queue, bgs, pl, slots, config.max)
  BY DEF IInv
<1>2. /\ \A p \in Players \ ps : pl'[p] = pl[p]
      /\ \A p \in ps : /\ pl'[p].online = pl[p].online /\ pl'[p].transit = pl[p].transit
                       /\ pl'[p].bg = pl[p].bg /\ pl'[p].queueId = NoBg
  BY <1>1 DEF Good, Typed, PlayerStates, NoBg
<1>3. pl' \in [Players -> PlayerStates]
  BY <1>1 DEF Good, Typed, PlayerStates, NoBg
<1>4. \A p \in ps : /\ p \in Players /\ pl[p].bg = NoBg /\ ~pl[p].transit /\ p \notin Queued(queue)
                    /\ \A b \in Bgs : p \notin bgs[b].players
  <2> SUFFICES ASSUME NEW p \in ps
               PROVE  /\ p \in Players /\ pl[p].bg = NoBg /\ ~pl[p].transit /\ p \notin Queued(queue)
                      /\ \A b \in Bgs : p \notin bgs[b].players
    OBVIOUS
  <2>1. p \in Players /\ pl[p] \in PlayerStates
    BY <1>1 DEF Good, Typed
  <2>2. pl[p].bg = NoBg
    BY <1>1, <2>1 DEF Good, PlayersOk, PlayerOk, PlayerStates, NoBg, NoQueue, Bgs
  <2>3. ~pl[p].transit
    BY <1>1, <2>1, <2>2 DEF Good, PlayersOk, PlayerOk
  <2>4. p \notin Queued(queue)
    <3>1. ASSUME NEW l \in Lists, NEW i \in Positions(queue, l), p \in queue[l][i].players PROVE FALSE
      <4>1. queue[l][i] \in Groups
        BY <1>1 DEF Good, Typed, Positions
      <4>2. pl[p].queueId = queue[l][i].bg
        BY <1>1, <3>1 DEF Good, QueueOk
      <4> QED
        BY <4>1, <4>2, ConstantsAssumption DEF Groups, NoQueue, NoBg, Bgs
    <3> QED
      BY <3>1 DEF Queued
  <2>5. \A b \in Bgs : p \notin bgs[b].players
    BY <1>1, <2>2 DEF Good, PlayersOk, PlayerOk, NoBg, Bgs
  <2> QED
    BY <2>1, <2>2, <2>3, <2>4, <2>5
<1>5. /\ queue' \in [Lists -> Seq(Groups)] /\ QueueOk(queue', pl')
      /\ Queued(queue') = Queued(queue) \cup ps
  <2>1. queue \in [Lists -> Seq(Groups)] /\ QueueOk(queue, pl)
    BY <1>1 DEF Good, Typed
  <2>2. ps \cap Queued(queue) = {}
    BY <1>4
  <2>3. \A p \in ps : /\ pl'[p].online /\ ~pl'[p].transit /\ pl'[p].bg = NoBg
                      /\ pl'[p].queueId = NoBg
    BY <1>2, <1>4
  <2>4. Joining(ps, kind, t)
    BY <1>2, <2>1, <2>2, <2>3 DEF Joining
  <2> QED
    BY <2>4, AddGroupOk
<1>6. bgs' = bgs /\ slots' = slots /\ config' = config
  OBVIOUS
<1>7. Typed(queue', bgs', pl')
  BY <1>1, <1>3, <1>5, <1>6 DEF Good, Typed
<1>8. PlayersOk(Queued(queue'), bgs', pl')
  <2>1. PlayersOk(Queued(queue), bgs, pl)
    BY <1>1 DEF Good
  <2>2. ASSUME NEW p \in Players PROVE PlayerOk(Queued(queue'), bgs', pl', p)
    <3>1. CASE p \in ps
      <4>1. /\ p \in Queued(queue') /\ pl'[p].online /\ pl'[p].bg = NoBg /\ ~pl'[p].transit
            /\ \A b \in Bgs : p \notin bgs'[b].players
        BY <1>2, <1>4, <1>5, <1>6, <3>1
      <4> QED
        BY <4>1 DEF PlayerOk
    <3>2. CASE p \notin ps
      BY <1>2, <1>5, <1>6, <2>1, <3>2 DEF PlayersOk, PlayerOk
    <3> QED
      BY <3>1, <3>2
  <2> QED
    BY <2>2 DEF PlayersOk
<1>9. \A b \in Bgs : Claims(bgs', pl', b) = Claims(bgs, pl, b)
  BY <1>2, <1>4, <1>6 DEF Claims, NoBg, NoQueue, Bgs
<1>10. PlacesOk(bgs', pl')
  BY <1>1, <1>6, <1>9 DEF Good, PlacesOk
<1>11. OfflineOk(bgs', pl')
  <2>1. \A p \in Players : pl'[p].online = pl[p].online
    BY <1>2
  <2>2. \A b \in Bgs : bgs[b].players \subseteq Players
    BY <1>1 DEF Good, Typed, Battlegrounds
  <2> QED
    BY <1>1, <1>6, <2>1, <2>2 DEF Good, OfflineOk, AwayOk
<1>12. RoomOk(bgs', config.max) /\ SlotsOk(bgs', slots', config.max)
  BY <1>1, <1>6 DEF Good
<1> QED
  BY <1>5, <1>6, <1>7, <1>8, <1>10, <1>11, <1>12 DEF IInv, Good

(* JoinAlone: a player joins the queue alone. *)
LEMMA JoinAloneIInv ==
  ASSUME IInv, NEW p \in Players, JoinAlone(p)
  PROVE  IInv'
<1>1. pl \in [Players -> PlayerStates]
  BY DEF IInv, Good, Typed
<1>2. pl' = [r \in Players |-> IF r \in {p} THEN [pl[r] EXCEPT !.queueId = 0] ELSE pl[r]]
  BY <1>1 DEF JoinAlone
<1>3. /\ {p} \in SUBSET Players /\ {p} # {} /\ AddGroup({p}, "normal", Team[p])
      /\ Team[p] \in Teams /\ \A r \in {p} : Team[r] = Team[p]
      /\ \A r \in {p} : pl[r].online /\ pl[r].queueId = NoQueue
      /\ UNCHANGED <<config, bgs, slots, events, updates>>
  BY ConstantsAssumption DEF JoinAlone, InWorld
<1> DEFINE ps == {p}
           t == Team[p]
<1>4. /\ ps \in SUBSET Players /\ ps # {} /\ AddGroup(ps, "normal", t)
      /\ t \in Teams /\ \A r \in ps : Team[r] = t
      /\ \A r \in ps : pl[r].online /\ pl[r].queueId = NoQueue
      /\ pl' = [r \in Players |-> IF r \in ps THEN [pl[r] EXCEPT !.queueId = 0] ELSE pl[r]]
  BY <1>2, <1>3
<1> HIDE DEF ps, t, IInv
<1> QED
  BY <1>3, <1>4, JoinIInv

(* JoinAsGroup: the members who are online join, if CanJoinBattlegroundQueue
   lets them, and they have passed the checks unless the group is too large. *)
LEMMA JoinAsGroupIInv ==
  ASSUME IInv, NEW party \in Parties, JoinAsGroup(party), ~unchecked'
  PROVE  IInv'
<1>1. PICK leader \in party :
        /\ InWorld(leader) /\ pl[leader].bg = NoBg
        /\ IF CanJoinBattlegroundQueue(party, leader)
           THEN /\ AddGroup(Online(party), IF Cardinality(party) >= MinPlayers
                                           THEN "premade" ELSE "normal", Team[leader])
                /\ unchecked' = (TooMany(party) /\ ~Checks(party, leader))
                /\ pl' = [p \in Players |-> IF p \in Online(party)
                            THEN [pl[p] EXCEPT !.queueId = 0] ELSE pl[p]]
           ELSE UNCHANGED <<queue, pl>>
        /\ UNCHANGED <<config, bgs, slots, events, updates>>
  BY DEF JoinAsGroup
<1>2. CASE ~CanJoinBattlegroundQueue(party, leader)
  BY <1>1, <1>2 DEF IInv
<1>3. CASE CanJoinBattlegroundQueue(party, leader)
  <2>1. PICK ps : ps = Online(party)
    OBVIOUS
  <2>2. PICK kind \in {"premade", "normal"} :
           kind = IF Cardinality(party) >= MinPlayers THEN "premade" ELSE "normal"
    OBVIOUS
  <2>3. PICK t : t = Team[leader]
    OBVIOUS
  <2>4. party \subseteq Players /\ t \in Teams
    BY <2>3, ConstantsAssumption
  <2>5. /\ ps \in SUBSET Players /\ ps # {} /\ \A p \in ps : Team[p] = t
        /\ \A p \in ps : pl[p].online /\ pl[p].queueId = NoQueue
    <3>1. Checks(party, leader)
      BY <1>1, <1>3 DEF CanJoinBattlegroundQueue
    <3> HIDE DEF IInv
    <3> QED
      BY <1>1, <2>1, <2>3, <2>4, <3>1 DEF Checks, Online, InWorld
  <2>6. /\ AddGroup(ps, kind, t)
        /\ pl' = [p \in Players |-> IF p \in ps THEN [pl[p] EXCEPT !.queueId = 0] ELSE pl[p]]
        /\ UNCHANGED <<config, bgs, slots, events, updates>>
    BY <1>1, <1>3, <2>1, <2>2, <2>3
  <2> HIDE DEF IInv
  <2> QED
    BY <2>4, <2>5, <2>6, JoinIInv
<1> QED
  BY <1>2, <1>3

(* RemovePlayer with decreaseInvitedCount: players who are in no battleground leave
   the queue, if they are in it, and hold no queue slot any more. *)
LEMMA LeaveQueueIInv ==
  ASSUME IInv, NEW ps \in SUBSET Players, RemovePlayer(ps), bgs' = DecreaseInvitedCount(ps),
         \A p \in ps : /\ pl[p].bg = NoBg
                       /\ p \in Queued(queue) \/ pl[p].queueId = NoQueue,
         pl' \in [Players -> PlayerStates], \A p \in Players \ ps : pl'[p] = pl[p],
         \A p \in ps : pl'[p].bg = NoBg /\ ~pl'[p].transit /\ pl'[p].queueId = NoQueue,
         UNCHANGED <<config, slots, updates>>, events' \subseteq events
  PROVE  IInv'
<1>1. /\ Good(queue, bgs, pl, slots, config.max)
      /\ queue \in [Lists -> Seq(Groups)] /\ QueueOk(queue, pl)
      /\ bgs \in [Bgs -> Battlegrounds] /\ pl \in [Players -> PlayerStates]
      /\ PlayersOk(Queued(queue), bgs, pl) /\ PlacesOk(bgs, pl)
  BY DEF IInv, Good, Typed
<1>2. /\ queue' \in [Lists -> Seq(Groups)] /\ QueueOk(queue', pl')
      /\ Queued(queue') = Queued(queue) \ ps
  BY <1>1, RemovePlayerOk
<1> DEFINE gone(b) == {p \in ps : pl[p].queueId = b}
<1>3. \A b \in Bgs : b # NoQueue /\ b # NoBg
  BY ConstantsAssumption DEF Bgs, NoBg, NoQueue
<1>4. ASSUME NEW b \in Bgs
      PROVE  /\ bgs'[b].status = bgs[b].status /\ bgs'[b].players = bgs[b].players
             /\ bgs'[b].offline = bgs[b].offline
             /\ bgs[b].status = "none" => bgs'[b] = bgs[b]
             /\ \A t \in Teams : bgs'[b].invited[t] =
                    bgs[b].invited[t] - Cardinality(Of(gone(b), t))
             /\ bgs'[b] \in Battlegrounds
  <2>1. bgs[b] \in Battlegrounds
    BY <1>1
  <2>2. \A t \in Teams : {p \in Of(ps, t) : InvitedTo(b, p)} = Of(gone(b), t)
    <3>1. \A p \in ps : InvitedTo(b, p) <=> pl[p].queueId = b
      BY <1>1, <1>3, InvitedIs
    <3> QED
      BY <3>1 DEF Of
  <2>3. CASE bgs[b].status = "none"
    <3>1. bgs'[b] = bgs[b]
      BY <2>3 DEF DecreaseInvitedCount, Exists
    <3>2. gone(b) = {}
      BY <1>1, <2>3, ClaimedExists DEF Claims
    <3>3. \A t \in Teams : Of(gone(b), t) = {}
      BY <3>2 DEF Of
    <3>4. \A t \in Teams : Cardinality(Of(gone(b), t)) = 0
      BY <3>3, FS_EmptySet
    <3>5. \A t \in Teams : bgs[b].invited[t] \in Int
      BY <2>1 DEF Battlegrounds
    <3> QED
      BY <2>1, <3>1, <3>4, <3>5
  <2>4. CASE bgs[b].status # "none"
    <3> DEFINE new == [t \in Teams |-> bgs[b].invited[t] - Cardinality(Of(gone(b), t))]
    <3>1. bgs'[b] = [bgs[b] EXCEPT !.invited = new]
      BY <1>3, <2>2, <2>4 DEF DecreaseInvitedCount, Exists
    <3>2. \A t \in Teams : Cardinality(Of(gone(b), t)) \in Nat
      BY OfCounts
    <3>3. new \in [Teams -> Int]
      BY <2>1, <3>2 DEF Battlegrounds
    <3>4. \A t \in Teams : new[t] = bgs[b].invited[t] - Cardinality(Of(gone(b), t))
      OBVIOUS
    <3> HIDE DEF new
    <3> QED
      BY <2>1, <2>4, <3>1, <3>3, <3>4 DEF Battlegrounds
  <2> QED
    BY <2>3, <2>4
<1>5. Typed(queue', bgs', pl')
  <2>1. bgs' \in [Bgs -> Battlegrounds]
    BY <1>4 DEF DecreaseInvitedCount
  <2> QED
    BY <1>2, <2>1 DEF Typed
<1>6. PlayersOk(Queued(queue'), bgs', pl')
  <2>1. ASSUME NEW p \in Players PROVE PlayerOk(Queued(queue'), bgs', pl', p)
    <3>1. CASE p \in ps
      <4>1. PlayerOk(Queued(queue), bgs, pl, p)
        BY <1>1 DEF PlayersOk
      <4> QED
        BY <1>1, <1>3, <1>4, <3>1, <4>1 DEF PlayerOk
    <3>2. CASE p \notin ps
      <4>1. pl[p].bg # NoBg => pl[p].bg \in Bgs
        BY <1>1 DEF PlayerStates
      <4>2. PlayerOk(Queued(queue), bgs, pl, p)
        BY <1>1 DEF PlayersOk
      <4>3. /\ pl'[p] = pl[p] /\ p \notin Queued(queue') => p \notin Queued(queue)
            /\ \A b \in Bgs : bgs'[b].players = bgs[b].players
        BY <1>2, <1>4, <3>2
      <4> HIDE DEF IInv
      <4> QED
        BY <4>1, <4>2, <4>3 DEF PlayerOk
    <3> QED
      BY <3>1, <3>2
  <2> QED
    BY <2>1 DEF PlayersOk
<1>7. PlacesOk(bgs', pl')
  <2>1. ASSUME NEW b \in Bgs, NEW t \in Teams
        PROVE  bgs'[b].invited[t] = Cardinality(Of(Claims(bgs', pl', b), t))
    <3>1. bgs[b].players \subseteq Players /\ ps \cap bgs[b].players = {}
      <4>1. bgs[b].players \subseteq Players
        BY <1>1 DEF Battlegrounds
      <4>2. \A p \in ps : p \notin bgs[b].players
        BY <1>1, <1>3 DEF PlayersOk, PlayerOk
      <4> QED
        BY <4>1, <4>2
    <3>2. Claims(bgs', pl', b) = Claims(bgs, pl, b) \ gone(b)
      BY <1>3, <1>4, <3>1 DEF Claims
    <3>3. gone(b) \subseteq Claims(bgs, pl, b) /\ gone(b) \in SUBSET Players
          /\ Claims(bgs, pl, b) \in SUBSET Players
      BY <3>1 DEF Claims
    <3> HIDE DEF gone
    <3>4. Cardinality(Of(Claims(bgs, pl, b) \ gone(b), t)) =
            Cardinality(Of(Claims(bgs, pl, b), t)) - Cardinality(Of(gone(b), t))
      BY <3>3, OfCounts
    <3>5. bgs[b].invited[t] = Cardinality(Of(Claims(bgs, pl, b), t))
      BY <1>1 DEF PlacesOk
    <3> QED
      BY <1>4, <3>2, <3>4, <3>5
  <2> QED
    BY <1>1, <1>4, <2>1 DEF PlacesOk
<1>8. RoomOk(bgs', config.max)
  <2>1. ASSUME NEW b \in Bgs, NEW t \in Teams PROVE bgs'[b].invited[t] <= config.max
    <3>1. Cardinality(Of(gone(b), t)) \in Nat
      BY OfCounts
    <3>2. bgs[b].invited[t] <= config.max /\ bgs[b].invited[t] \in Int
      BY <1>1 DEF Good, RoomOk, Battlegrounds
    <3>3. config.max \in Int
      BY ConstantsAssumption DEF IInv
    <3> HIDE DEF gone
    <3> QED
      BY <1>4, <3>1, <3>2, <3>3
  <2> QED
    BY <2>1 DEF RoomOk
<1>9. OfflineOk(bgs', pl')
  <2>1. \A b \in Bgs : \A p \in bgs[b].players : p \in Players \ ps
    BY <1>1, <1>3 DEF PlayersOk, PlayerOk, Battlegrounds
  <2> QED
    BY <1>1, <1>4, <2>1 DEF Good, OfflineOk, AwayOk
<1>10. SlotsOk(bgs', slots', config.max)
  BY <1>1, <1>4 DEF Good, SlotsOk
<1> QED
  BY <1>2, <1>5, <1>6, <1>7, <1>8, <1>9, <1>10 DEF IInv, Good

(* The parts of the invariant, and what a player's bg says. *)
LEMMA Facts ==
  ASSUME IInv
  PROVE  /\ Good(queue, bgs, pl, slots, config.max)
         /\ queue \in [Lists -> Seq(Groups)] /\ QueueOk(queue, pl)
         /\ bgs \in [Bgs -> Battlegrounds] /\ pl \in [Players -> PlayerStates]
         /\ PlayersOk(Queued(queue), bgs, pl) /\ PlacesOk(bgs, pl)
         /\ RoomOk(bgs, config.max) /\ OfflineOk(bgs, pl) /\ SlotsOk(bgs, slots, config.max)
         /\ \A b \in Bgs : b # NoQueue /\ b # NoBg
         /\ \A p \in Queued(queue) : p \in Players /\ pl[p].bg = NoBg /\ pl[p].online
         /\ \A p \in Players : /\ p \in Queued(queue) => pl[p].queueId # NoQueue
                               /\ PlayerOk(Queued(queue), bgs, pl, p)
                               /\ pl[p].bg # NoBg => pl[p].bg \in Bgs
         /\ \A b \in Bgs : bgs[b].players \subseteq Players
<1>1. /\ Good(queue, bgs, pl, slots, config.max)
      /\ queue \in [Lists -> Seq(Groups)] /\ QueueOk(queue, pl)
      /\ bgs \in [Bgs -> Battlegrounds] /\ pl \in [Players -> PlayerStates]
      /\ PlayersOk(Queued(queue), bgs, pl) /\ PlacesOk(bgs, pl)
      /\ RoomOk(bgs, config.max) /\ OfflineOk(bgs, pl) /\ SlotsOk(bgs, slots, config.max)
  BY DEF IInv, Good, Typed
<1>2. \A b \in Bgs : b # NoQueue /\ b # NoBg
  BY ConstantsAssumption DEF Bgs, NoBg, NoQueue
<1>3. ASSUME NEW p \in Queued(queue)
      PROVE  p \in Players /\ pl[p].bg = NoBg /\ pl[p].online /\ pl[p].queueId # NoQueue
  <2>1. PICK l \in Lists : \E i \in Positions(queue, l) : p \in queue[l][i].players
    BY DEF Queued
  <2>2. PICK i \in Positions(queue, l) : p \in queue[l][i].players
    BY <2>1
  <2>3. queue[l][i] \in Groups
    BY <1>1, <2>1 DEF Positions
  <2>4. queue[l][i].bg # NoQueue
    BY <1>2, <2>3 DEF Groups, NoBg, NoQueue
  <2> QED
    BY <1>1, <2>1, <2>2, <2>4 DEF QueueOk, Queued
<1>4. \A b \in Bgs : bgs[b].players \subseteq Players
  BY <1>1 DEF Battlegrounds
<1>5. \A p \in Players : /\ PlayerOk(Queued(queue), bgs, pl, p)
                         /\ pl[p].bg # NoBg => pl[p].bg \in Bgs
  BY <1>1 DEF PlayersOk, PlayerStates
<1> QED
  BY <1>1, <1>2, <1>3, <1>4, <1>5

(* A player who has left his battleground is in none and on his way to none. *)
LEMMA OutsideQueued ==
  ASSUME IInv, NEW p \in Queued(queue)
  PROVE  /\ p \in Players /\ pl[p].online /\ pl[p].bg = NoBg /\ ~pl[p].transit
         /\ \A b \in Bgs : p \notin bgs[b].players
<1> QED
  BY Facts DEF PlayerOk

(* PortDecline: the player leaves the queue, and his place is given back. *)
LEMMA PortDeclineIInv ==
  ASSUME IInv, NEW p \in Players, PortDecline(p)
  PROVE  IInv'
<1>1. p \in Queued(queue)
  BY Facts, QueuedIs DEF PortDecline
<1>2. pl[p].bg = NoBg /\ ~pl[p].transit /\ pl \in [Players -> PlayerStates]
  BY <1>1, Facts, OutsideQueued
<1>3. /\ pl' \in [Players -> PlayerStates] /\ \A r \in Players \ {p} : pl'[r] = pl[r]
      /\ pl'[p].bg = NoBg /\ ~pl'[p].transit /\ pl'[p].queueId = NoQueue
  BY <1>2 DEF PortDecline, PlayerStates
<1> DEFINE ps == {p}
<1>4. /\ ps \in SUBSET Players /\ RemovePlayer(ps) /\ bgs' = DecreaseInvitedCount(ps)
      /\ UNCHANGED <<config, slots, updates>> /\ events' \subseteq events
      /\ \A r \in ps : /\ pl[r].bg = NoBg
                       /\ r \in Queued(queue) \/ pl[r].queueId = NoQueue
      /\ \A r \in Players \ ps : pl'[r] = pl[r]
      /\ \A r \in ps : pl'[r].bg = NoBg /\ ~pl'[r].transit /\ pl'[r].queueId = NoQueue
  BY <1>1, <1>2, <1>3 DEF PortDecline
<1> HIDE DEF ps, IInv
<1> QED
  BY <1>3, <1>4, LeaveQueueIInv

(* RemoveEvents: who has not answered loses the place that was kept for him. *)
LEMMA RemoveEventsIInv ==
  ASSUME IInv, RemoveEvents
  PROVE  IInv'
<1>1. PICK due : due = {e \in events : \A f \in events : e.time <= f.time}
  OBVIOUS
<1>2. PICK ps : ps = {e.player : e \in Late(due)}
  OBVIOUS
<1>3. \A p \in ps : p \in Queued(queue)
  BY <1>1, <1>2, Facts, QueuedIs DEF Late, IsPlayerInvited
<1>4. /\ events' = events \ due /\ RemovePlayer(ps) /\ bgs' = DecreaseInvitedCount(ps)
      /\ pl' = [p \in Players |-> IF p \in ps THEN [pl[p] EXCEPT !.queueId = NoQueue]
                                              ELSE pl[p]]
      /\ UNCHANGED <<config, slots, updates>>
  BY <1>1, <1>2 DEF RemoveEvents
<1>5. /\ \A p \in ps : p \in Players /\ pl[p].bg = NoBg /\ ~pl[p].transit
      /\ pl \in [Players -> PlayerStates]
  BY <1>3, Facts, OutsideQueued
<1>6. /\ pl' \in [Players -> PlayerStates] /\ \A p \in Players \ ps : pl'[p] = pl[p]
      /\ \A p \in ps : pl'[p].bg = NoBg /\ ~pl'[p].transit /\ pl'[p].queueId = NoQueue
  BY <1>4, <1>5 DEF PlayerStates
<1>7. ps \in SUBSET Players /\ events' \subseteq events
      /\ \A p \in ps : pl[p].bg = NoBg /\ (p \in Queued(queue) \/ pl[p].queueId = NoQueue)
  BY <1>3, <1>4, <1>5
<1> HIDE DEF IInv
<1> QED
  BY <1>4, <1>6, <1>7, LeaveQueueIInv

(* HandleBattleFieldPortOpcode: the place he had as one who is queued he has on his
   way. *)
LEMMA PortAcceptIInv ==
  ASSUME IInv, NEW p \in Players, PortAccept(p)
  PROVE  IInv'
<1>1. PICK b : b = GroupOf(p).bg
  OBVIOUS
<1>2. /\ RemovePlayer({p}) /\ p \in Queued(queue) /\ pl[p].queueId > 0 /\ pl[p].online
      /\ pl' = [pl EXCEPT ![p].bg = b, ![p].transit = TRUE]
      /\ UNCHANGED <<config, bgs, slots, events, updates>>
  BY <1>1, Facts, QueuedIs DEF PortAccept, InWorld
<1>3. b = pl[p].queueId /\ b \in Bgs /\ pl[p].bg = NoBg
      /\ pl \in [Players -> PlayerStates]
  <2>1. b = pl[p].queueId /\ pl[p].queueId \in Bgs \cup {NoBg, NoQueue}
    BY <1>1, <1>2, Facts, InvitedIs DEF PlayerStates
  <2> QED
    BY <1>2, <2>1, Facts DEF NoBg, NoQueue
<1>4. /\ pl' \in [Players -> PlayerStates] /\ \A r \in Players \ {p} : pl'[r] = pl[r]
      /\ pl'[p].bg = b /\ pl'[p].transit /\ pl'[p].queueId = b /\ pl'[p].online
  BY <1>2, <1>3 DEF PlayerStates
<1>5. /\ queue' \in [Lists -> Seq(Groups)] /\ QueueOk(queue', pl')
      /\ Queued(queue') = Queued(queue) \ {p}
  <2> DEFINE ps == {p}
  <2>1. ps \in SUBSET Players /\ RemovePlayer(ps) /\ \A r \in Players \ ps : pl'[r] = pl[r]
    BY <1>2, <1>4
  <2> HIDE DEF ps
  <2>2. /\ queue' \in [Lists -> Seq(Groups)] /\ QueueOk(queue', pl')
        /\ Queued(queue') = Queued(queue) \ ps
    BY <2>1, Facts, RemovePlayerOk
  <2> QED
    BY <2>2 DEF ps
<1>6. bgs' = bgs /\ slots' = slots
  BY <1>2
<1>7. \A c \in Bgs : p \notin bgs[c].players
  BY <1>2, OutsideQueued
<1>8. PlayersOk(Queued(queue'), bgs', pl')
  <2>1. ASSUME NEW r \in Players PROVE PlayerOk(Queued(queue'), bgs', pl', r)
    <3>1. CASE r = p
      BY <1>3, <1>4, <1>6, <1>7, <3>1, Facts DEF PlayerOk
    <3>2. CASE r # p
      <4>1. PlayerOk(Queued(queue), bgs, pl, r) /\ pl'[r] = pl[r]
            /\ (r \notin Queued(queue') => r \notin Queued(queue))
        BY <1>4, <1>5, <3>2, Facts
      <4> HIDE DEF IInv
      <4> QED
        BY <1>6, <4>1 DEF PlayerOk
    <3> QED
      BY <3>1, <3>2
  <2> QED
    BY <2>1 DEF PlayersOk
<1>9. PlacesOk(bgs', pl')
  <2>1. \A c \in Bgs : Claims(bgs', pl', c) = Claims(bgs, pl, c)
    BY <1>3, <1>4, <1>6 DEF Claims
  <2> QED
    BY <1>6, <2>1, Facts DEF PlacesOk
<1>10. OfflineOk(bgs', pl')
  <2>1. \A r \in Players : pl'[r].online = pl[r].online
    BY <1>2, <1>4
  <2> QED
    BY <1>6, <2>1, Facts DEF OfflineOk, AwayOk
<1> QED
  BY <1>2, <1>4, <1>5, <1>6, <1>8, <1>9, <1>10, Facts DEF IInv, Good, Typed

(* HandleMoveWorldportAck: the place he had on his way he has inside. *)
LEMMA ArrivedIs ==
  ASSUME IInv, NEW p \in Players, pl[p].transit
  PROVE  /\ pl[p].bg \in Bgs /\ pl[p].online /\ p \notin Queued(queue)
         /\ pl[p].queueId = pl[p].bg
         /\ Arrived(p) = [bgs EXCEPT ![pl[p].bg].players = @ \cup {p}]
BY Facts, OutsideQueued DEF PlayerOk, Arrived

(* HandleMoveWorldportAck: the place kept for the player becomes the one he has. *)
LEMMA WorldportAckIInv ==
  ASSUME IInv, NEW p \in Players, HandleMoveWorldportAck(p)
  PROVE  IInv'
<1>1. PICK b : b = pl[p].bg
  OBVIOUS
<1>2. /\ b \in Bgs /\ pl[p].online /\ pl[p].queueId = b /\ p \notin Queued(queue)
      /\ bgs' = [bgs EXCEPT ![b].players = @ \cup {p}]
      /\ pl' = [pl EXCEPT ![p].transit = FALSE]
      /\ UNCHANGED <<config, queue, slots, events, updates>>
  BY <1>1, ArrivedIs DEF HandleMoveWorldportAck
<1>3. /\ bgs' \in [Bgs -> Battlegrounds] /\ \A c \in Bgs \ {b} : bgs'[c] = bgs[c]
      /\ bgs'[b].players = bgs[b].players \cup {p} /\ bgs'[b].status = bgs[b].status
      /\ bgs'[b].invited = bgs[b].invited /\ bgs'[b].offline = bgs[b].offline
  <2>1. bgs \in [Bgs -> Battlegrounds]
    BY Facts
  <2> HIDE DEF IInv
  <2> QED
    BY <1>2, <2>1 DEF Battlegrounds
<1>4. /\ pl' \in [Players -> PlayerStates] /\ \A r \in Players \ {p} : pl'[r] = pl[r]
      /\ pl'[p].bg = b /\ ~pl'[p].transit /\ pl'[p].queueId = b /\ pl'[p].online
  BY <1>1, <1>2, Facts DEF PlayerStates
<1>5. QueueOk(queue', pl')
  <2>1. \A l \in Lists : \A i \in Positions(queue, l) : \A r \in queue[l][i].players :
          r \in Queued(queue)
    <3>1. \A l \in Lists : \A i \in Positions(queue, l) : queue[l][i] \in Groups
      BY Facts DEF Positions
    <3> QED
      BY <3>1 DEF Queued, Groups
  <2>2. \A r \in Queued(queue) : pl'[r] = pl[r]
    BY <1>2, <1>4 DEF Queued
  <2>3. queue' = queue
    BY <1>2
  <2> QED
    BY <2>1, <2>2, <2>3, Facts DEF QueueOk
<1>6. PlayersOk(Queued(queue'), bgs', pl')
  <2>1. ASSUME NEW r \in Players PROVE PlayerOk(Queued(queue'), bgs', pl', r)
    <3>1. CASE r = p
      <4>1. \A c \in Bgs \ {b} : p \notin bgs[c].players
        BY <1>1, <1>2, Facts DEF PlayerOk
      <4>2. b # NoBg
        BY <1>2, Facts
      <4> HIDE DEF IInv
      <4> QED
        BY <1>2, <1>3, <1>4, <3>1, <4>1, <4>2 DEF PlayerOk
    <3>2. CASE r # p
      <4>1. /\ PlayerOk(Queued(queue), bgs, pl, r) /\ pl'[r] = pl[r] /\ queue' = queue
            /\ pl[r].bg # NoBg => pl[r].bg \in Bgs
            /\ \A c \in Bgs : r \in bgs'[c].players <=> r \in bgs[c].players
        BY <1>2, <1>3, <1>4, <3>2, Facts
      <4> HIDE DEF IInv
      <4> QED
        BY <4>1 DEF PlayerOk
    <3> QED
      BY <3>1, <3>2
  <2> QED
    BY <2>1 DEF PlayersOk
<1>7. bgs[b].status # "none"
  BY <1>2, Facts, ClaimedExists DEF Claims
<1>8. PlacesOk(bgs', pl')
  <2>1. \A c \in Bgs : Claims(bgs', pl', c) = Claims(bgs, pl, c)
    BY <1>2, <1>3, <1>4 DEF Claims
  <2>2. \A c \in Bgs : bgs'[c].invited = bgs[c].invited /\ bgs'[c].status = bgs[c].status
                       /\ (bgs[c].status = "none" => bgs'[c] = bgs[c])
    BY <1>3, <1>7
  <2> QED
    BY <2>1, <2>2, Facts DEF PlacesOk
<1>9. OfflineOk(bgs', pl')
  <2>1. \A r \in Players : pl'[r].online = pl[r].online
    BY <1>2, <1>4
  <2>2. \A c \in Bgs : /\ bgs'[c].offline = bgs[c].offline /\ bgs'[c].status = bgs[c].status
                       /\ bgs[c].players \subseteq bgs'[c].players
    BY <1>3
  <2>3. \A c \in Bgs : bgs[c].players \subseteq Players
    BY Facts
  <2>4. OfflineOk(bgs, pl)
    BY Facts
  <2> HIDE DEF IInv
  <2>5. ASSUME NEW c \in Bgs, bgs'[c].status # "leave", NEW i \in 1..Len(bgs'[c].offline)
        PROVE  bgs'[c].offline[i] \in bgs'[c].players /\ ~pl'[bgs'[c].offline[i]].online
    <3>1. bgs[c].offline[i] \in bgs[c].players /\ ~pl[bgs[c].offline[i]].online
      BY <2>2, <2>4, <2>5 DEF OfflineOk, AwayOk
    <3> QED
      BY <2>1, <2>2, <2>3, <3>1
  <2> QED
    BY <2>2, <2>4, <2>5 DEF OfflineOk, AwayOk
<1>10. RoomOk(bgs', config.max) /\ SlotsOk(bgs', slots', config.max)
  <2>1. \A c \in Bgs : bgs'[c].invited = bgs[c].invited /\ bgs'[c].status = bgs[c].status
    BY <1>3
  <2>2. ASSUME NEW c \in Bgs, Cardinality(bgs'[c].players) < 2 * config.max
        PROVE  Cardinality(bgs[c].players) < 2 * config.max
    <3>1. IsFiniteSet(bgs'[c].players) /\ bgs[c].players \subseteq bgs'[c].players
      BY <1>3, Facts, ConstantsAssumption, FS_Subset DEF Battlegrounds
    <3>2. /\ Cardinality(bgs'[c].players) \in Nat /\ Cardinality(bgs[c].players) \in Nat
          /\ Cardinality(bgs[c].players) <= Cardinality(bgs'[c].players)
      BY <3>1, FS_Subset, FS_CardinalityType
    <3>3. config.max \in Nat
      BY ConstantsAssumption DEF IInv
    <3> QED
      BY <2>2, <3>2, <3>3
  <2> QED
    BY <1>2, <2>1, <2>2, Facts DEF RoomOk, SlotsOk
<1> QED
  BY <1>2, <1>3, <1>4, <1>5, <1>6, <1>8, <1>9, <1>10, Facts DEF IInv, Good, Typed

(* A step that changes no player who is queued. *)
LEMMA QueueSame ==
  ASSUME IInv, \A r \in Queued(queue) : pl'[r] = pl[r]
  PROVE  QueueOk(queue, pl')
<1>1. \A l \in Lists : \A i \in Positions(queue, l) : queue[l][i] \in Groups
  BY Facts DEF Positions
<1>2. \A l \in Lists : \A i \in Positions(queue, l) : \A r \in queue[l][i].players :
          r \in Queued(queue)
  BY <1>1 DEF Queued, Groups
<1> QED
  BY <1>2, Facts DEF QueueOk

(* A step that changes players in ps only, and takes only players in ps out of a
   battleground. *)
LEMMA OthersOk ==
  ASSUME IInv, NEW ps, NEW r \in Players, r \notin ps, pl'[r] = pl[r],
         \A b \in Bgs : r \in bgs'[b].players <=> r \in bgs[b].players
  PROVE  PlayerOk(Queued(queue), bgs', pl', r)
<1>1. PlayerOk(Queued(queue), bgs, pl, r) /\ (pl[r].bg # NoBg => pl[r].bg \in Bgs)
  BY Facts
<1> HIDE DEF IInv
<1> QED
  BY <1>1 DEF PlayerOk

(* A battleground that more players are in wants no more slots. *)
LEMMA SlotsGrow ==
  ASSUME IInv, bgs' \in [Bgs -> Battlegrounds],
         \A b \in Bgs : /\ bgs'[b].status = bgs[b].status /\ bgs'[b].invited = bgs[b].invited
                        /\ bgs[b].players \subseteq bgs'[b].players
  PROVE  RoomOk(bgs', config.max) /\ SlotsOk(bgs', slots, config.max)
<1>1. ASSUME NEW b \in Bgs, Cardinality(bgs'[b].players) < 2 * config.max
      PROVE  Cardinality(bgs[b].players) < 2 * config.max
  <2>1. IsFiniteSet(bgs'[b].players)
    BY ConstantsAssumption, FS_Subset DEF Battlegrounds
  <2>2. /\ Cardinality(bgs'[b].players) \in Nat /\ Cardinality(bgs[b].players) \in Nat
        /\ Cardinality(bgs[b].players) <= Cardinality(bgs'[b].players)
    BY <2>1, FS_Subset, FS_CardinalityType
  <2>3. config.max \in Nat
    BY ConstantsAssumption DEF IInv
  <2> QED
    BY <1>1, <2>2, <2>3
<1> QED
  BY <1>1, Facts DEF RoomOk, SlotsOk

(* Players who are in a battleground lose their place, and what is known of them
   says so. *)
LEMMA WithoutIInv ==
  ASSUME IInv, NEW b \in Bgs, NEW gone \in SUBSET bgs[b].players,
         bgs[b].status # "none",
         bgs' \in [Bgs -> Battlegrounds], \A c \in Bgs \ {b} : bgs'[c] = bgs[c],
         bgs'[b].status = bgs[b].status, bgs'[b].players = bgs[b].players \ gone,
         \A t \in Teams : bgs'[b].invited[t] = bgs[b].invited[t] - Cardinality(Of(gone, t)),
         pl' \in [Players -> PlayerStates], \A r \in Players \ gone : pl'[r] = pl[r],
         \A r \in gone : /\ pl'[r].queueId = NoQueue /\ ~pl'[r].transit
                         /\ pl'[r].online => pl'[r].bg = NoBg,
         OfflineOk(bgs', pl'), SlotsOk(bgs', slots', config.max),
         UNCHANGED <<config, queue, events, updates>>
  PROVE  IInv'
<1>1. \A r \in gone : r \in Players /\ pl[r].bg = b /\ r \notin Queued(queue)
  BY Facts DEF PlayerOk
<1>2. QueueOk(queue', pl')
  <2>1. \A r \in Queued(queue) : pl'[r] = pl[r]
    BY <1>1, Facts
  <2> QED
    BY <2>1, QueueSame
<1>3. PlayersOk(Queued(queue'), bgs', pl')
  <2>1. ASSUME NEW r \in Players PROVE PlayerOk(Queued(queue), bgs', pl', r)
    <3>1. CASE r \in gone
      <4>1. \A c \in Bgs : r \notin bgs'[c].players
        <5>1. \A c \in Bgs \ {b} : r \notin bgs[c].players
          BY <1>1, <3>1, Facts DEF PlayerOk
        <5> QED
          BY <3>1, <5>1
      <4> QED
        BY <3>1, <4>1 DEF PlayerOk
    <3>2. CASE r \notin gone
      BY <3>2, OthersOk
    <3> QED
      BY <3>1, <3>2
  <2> QED
    BY <2>1 DEF PlayersOk
<1>4. PlacesOk(bgs', pl')
  <2>1. ASSUME NEW c \in Bgs, NEW t \in Teams
        PROVE  bgs'[c].invited[t] = Cardinality(Of(Claims(bgs', pl', c), t))
    <3>1. CASE c = b
      <4>1. /\ Claims(bgs, pl, b) \in SUBSET Players /\ gone \in SUBSET Players
            /\ gone \subseteq Claims(bgs, pl, b)
        BY <1>1, Facts DEF Claims
      <4>2. Claims(bgs', pl', b) = Claims(bgs, pl, b) \ gone
        BY <1>1, Facts DEF Claims
      <4>3. Cardinality(Of(Claims(bgs, pl, b) \ gone, t)) =
              Cardinality(Of(Claims(bgs, pl, b), t)) - Cardinality(Of(gone, t))
        BY <4>1, OfCounts
      <4>4. bgs[b].invited[t] = Cardinality(Of(Claims(bgs, pl, b), t))
        BY Facts DEF PlacesOk
      <4> QED
        BY <3>1, <4>2, <4>3, <4>4
    <3>2. CASE c # b
      <4>1. \A r \in gone : pl[r].queueId # c
        <5>1. \A r \in gone : pl[r].queueId # NoQueue => pl[r].queueId = b
          BY <1>1, Facts DEF PlayerOk
        <5> QED
          BY <3>2, <5>1, Facts
      <4>2. Claims(bgs', pl', c) = Claims(bgs, pl, c)
        BY <1>1, <3>2, <4>1, Facts DEF Claims
      <4> QED
        BY <3>2, <4>2, Facts DEF PlacesOk
    <3> QED
      BY <3>1, <3>2
  <2> QED
    BY <2>1, Facts DEF PlacesOk
<1>5. RoomOk(bgs', config.max)
  <2>1. ASSUME NEW c \in Bgs, NEW t \in Teams PROVE bgs'[c].invited[t] <= config.max
    <3>1. /\ bgs[c].invited[t] <= config.max /\ bgs[c].invited[t] \in Int
          /\ config.max \in Int /\ Cardinality(Of(gone, t)) \in Nat
      <4>1. gone \in SUBSET Players
        BY <1>1
      <4>2. config.max \in Int
        BY ConstantsAssumption DEF IInv
      <4>3. Cardinality(Of(gone, t)) \in Nat
        BY <4>1, OfCounts
      <4>4. bgs[c].invited[t] <= config.max /\ bgs[c].invited[t] \in Int
        BY Facts DEF RoomOk, Battlegrounds
      <4> QED
        BY <4>2, <4>3, <4>4
    <3>2. bgs'[c].invited[t] = bgs[c].invited[t] \/ bgs'[c].invited[t] = bgs[c].invited[t] - Cardinality(Of(gone, t))
      OBVIOUS
    <3> QED
      BY <3>1, <3>2
  <2> QED
    BY <2>1 DEF RoomOk
<1>6. Typed(queue', bgs', pl') /\ config' = config /\ events' = events /\ updates' = updates
  BY Facts DEF Typed
<1> QED
  BY <1>2, <1>3, <1>4, <1>5, <1>6 DEF IInv, Good

(* What Without does to the battlegrounds. *)
LEMMA WithoutIs ==
  ASSUME IInv, NEW b \in Bgs, NEW gone \in SUBSET bgs[b].players
  PROVE  /\ Without(b, gone) \in [Bgs -> Battlegrounds]
         /\ \A c \in Bgs \ {b} : Without(b, gone)[c] = bgs[c]
         /\ Without(b, gone)[b].status = bgs[b].status
         /\ Without(b, gone)[b].players = bgs[b].players \ gone
         /\ Without(b, gone)[b].offline = bgs[b].offline
         /\ \A t \in Teams : Without(b, gone)[b].invited[t] =
                bgs[b].invited[t] - Cardinality(Of(gone, t))
<1> DEFINE inv == [t \in Teams |-> bgs[b].invited[t] - Cardinality(Of(gone, t))]
<1>1. gone \cap bgs[b].players = gone /\ gone \in SUBSET Players
  BY Facts
<1>2. Without(b, gone) = [bgs EXCEPT ![b].players = @ \ gone, ![b].invited = inv]
  BY <1>1 DEF Without
<1>3. inv \in [Teams -> Int]
  <2>1. \A t \in Teams : Cardinality(Of(gone, t)) \in Nat
    BY <1>1, OfCounts
  <2> QED
    BY <2>1, Facts DEF Battlegrounds
<1>4. \A t \in Teams : inv[t] = bgs[b].invited[t] - Cardinality(Of(gone, t))
  OBVIOUS
<1> HIDE DEF inv
<1>5. bgs \in [Bgs -> Battlegrounds]
  BY Facts
<1> HIDE DEF IInv
<1>6. PICK w : w = Without(b, gone)
  OBVIOUS
<1>7. w = [bgs EXCEPT ![b] = [bgs[b] EXCEPT !.players = @ \ gone, !.invited = inv]]
  BY <1>2, <1>5, <1>6 DEF Battlegrounds
<1> DEFINE r == [bgs[b] EXCEPT !.players = @ \ gone, !.invited = inv]
<1>8. /\ r \in Battlegrounds /\ r.status = bgs[b].status /\ r.offline = bgs[b].offline
      /\ r.players = bgs[b].players \ gone /\ r.invited = inv
  BY <1>3, <1>5 DEF Battlegrounds
<1> HIDE DEF r
<1>9. w \in [Bgs -> Battlegrounds] /\ w[b] = r /\ \A c \in Bgs \ {b} : w[c] = bgs[c]
  BY <1>5, <1>7, <1>8 DEF r
<1> QED
  BY <1>4, <1>6, <1>8, <1>9

(* The end of RemovePlayerAtLeave. *)
LEMMA PlacesFreedSlots ==
  ASSUME IInv, NEW b \in Bgs, PlacesFreed(b), \A c \in Bgs \ {b} : bgs'[c] = bgs[c],
         bgs'[b].status = bgs[b].status
  PROVE  SlotsOk(bgs', slots', config.max)
<1>1. slots \in Seq(Bgs)
  BY Facts DEF SlotsOk
<1>2. CASE Running(b)
  <2>1. slots' = AddToFreeSlots(b)
    BY <1>2 DEF PlacesFreed
  <2>2. slots' \in Seq(Bgs) /\ b \in Range(slots') /\ Range(slots) \subseteq Range(slots')
    <3>1. CASE b \in Range(slots)
      BY <1>1, <2>1, <3>1 DEF AddToFreeSlots
    <3>2. CASE b \notin Range(slots)
      <4>1. slots' = <<b>> \o slots
        BY <2>1, <3>2 DEF AddToFreeSlots
      <4>2. <<b>> \in Seq(Bgs) /\ Len(<<b>>) = 1 /\ <<b>>[1] = b
        OBVIOUS
      <4>3. /\ slots' \in Seq(Bgs) /\ Len(slots) \in Nat /\ Len(slots') = Len(slots) + 1
            /\ slots'[1] = b /\ \A i \in 1..Len(slots) : slots'[i + 1] = slots[i]
        <5>1. PICK one \in Seq(Bgs) : one = <<b>>
          BY <4>2
        <5>2. Len(one) = 1 /\ one[1] = b /\ slots' = one \o slots
          BY <4>1, <4>2, <5>1
        <5>3. PICK old \in Seq(Bgs) : old = slots
          BY <1>1
        <5>4. /\ one \o old \in Seq(Bgs) /\ Len(one \o old) = Len(one) + Len(old)
              /\ Len(old) \in Nat
              /\ \A i \in 1..(Len(one) + Len(old)) :
                    (one \o old)[i] = IF i <= Len(one) THEN one[i] ELSE old[i - Len(one)]
          BY ConcatProperties, LenProperties
        <5>5. \A i \in 1..Len(old) : /\ i + 1 \in 1..(1 + Len(old)) /\ ~(i + 1 <= 1)
                                     /\ (i + 1) - 1 = i
          BY <5>4
        <5>6. 1 \in 1..(1 + Len(old)) /\ 1 + Len(old) = Len(old) + 1
          BY <5>4
        <5> QED
          BY <5>2, <5>3, <5>4, <5>5, <5>6
      <4>4. 1 \in 1..Len(slots') /\ \A i \in 1..Len(slots) : i + 1 \in 1..Len(slots')
        BY <4>3
      <4> QED
        BY <1>1, <4>3, <4>4, RangeOfList
    <3> QED
      BY <3>1, <3>2
  <2>3. \A c \in Bgs \ {b} :
          (bgs[c].status \in {"join", "progress"} /\ Cardinality(bgs[c].players) < 2 * config.max)
            => c \in Range(slots')
    BY <2>2, Facts DEF SlotsOk
  <2> QED
    BY <2>2, <2>3 DEF SlotsOk
<1>3. CASE ~Running(b)
  <2>1. slots' = slots
    BY <1>3 DEF PlacesFreed
  <2> QED
    BY <1>3, <2>1, Facts DEF SlotsOk, Running
<1> QED
  BY <1>2, <1>3

(* Nobody gains or loses a place. *)
LEMMA PlacesSame ==
  ASSUME IInv, \A b \in Bgs : /\ Claims(bgs', pl', b) = Claims(bgs, pl, b)
                              /\ bgs'[b].invited = bgs[b].invited
                              /\ bgs'[b].status = "none" => bgs'[b] = bgs[b]
  PROVE  PlacesOk(bgs', pl')
<1>1. PlacesOk(bgs, pl)
  BY Facts
<1> HIDE DEF IInv
<1>2. ASSUME NEW b \in Bgs, NEW t \in Teams
      PROVE  bgs'[b].invited[t] = Cardinality(Of(Claims(bgs', pl', b), t))
  <2>1. bgs[b].invited[t] = Cardinality(Of(Claims(bgs, pl, b), t))
    BY <1>1 DEF PlacesOk
  <2> QED
    BY <2>1
<1>3. \A b \in Bgs : bgs'[b].status = "none" => bgs'[b] = NoBattleground
  BY <1>1 DEF PlacesOk
<1> QED
  BY <1>2, <1>3 DEF PlacesOk

(* LeaveBattleground: the player who goes gives his place back. *)
LEMMA LeaveBattlegroundIInv ==
  ASSUME IInv, NEW p \in Players, LeaveBattleground(p)
  PROVE  IInv'
<1>1. PICK b : b = pl[p].bg
  OBVIOUS
<1>2. /\ pl[p].online /\ Exists(b) /\ p \in bgs[b].players /\ b \in Bgs /\ bgs[b].status # "none"
      /\ bgs' = Without(b, {p}) /\ pl' = Freed({p}) /\ PlacesFreed(b)
      /\ UNCHANGED <<config, queue, events, updates>>
  BY <1>1, Facts DEF LeaveBattleground, InWorld, Exists
<1> DEFINE gone == {p}
<1>3. /\ bgs' \in [Bgs -> Battlegrounds] /\ \A c \in Bgs \ {b} : bgs'[c] = bgs[c]
      /\ bgs'[b].status = bgs[b].status /\ bgs'[b].players = bgs[b].players \ gone
      /\ bgs'[b].offline = bgs[b].offline
      /\ \A t \in Teams : bgs'[b].invited[t] = bgs[b].invited[t] - Cardinality(Of(gone, t))
  <2>1. PICK w : w = Without(b, gone)
    OBVIOUS
  <2>2. gone \in SUBSET bgs[b].players /\ bgs' = w
    BY <1>2, <2>1
  <2> HIDE DEF gone, IInv
  <2>3. /\ w \in [Bgs -> Battlegrounds] /\ \A c \in Bgs \ {b} : w[c] = bgs[c]
        /\ w[b].status = bgs[b].status /\ w[b].players = bgs[b].players \ gone
        /\ w[b].offline = bgs[b].offline
        /\ \A t \in Teams : w[b].invited[t] = bgs[b].invited[t] - Cardinality(Of(gone, t))
    BY <1>2, <2>1, <2>2, WithoutIs
  <2> QED
    BY <2>2, <2>3
<1>4. /\ pl' \in [Players -> PlayerStates] /\ \A r \in Players \ gone : pl'[r] = pl[r]
      /\ \A r \in gone : /\ pl'[r].queueId = NoQueue /\ pl'[r].bg = NoBg
                         /\ pl'[r].transit = pl[r].transit /\ pl'[r].online
  <2>0. pl \in [Players -> PlayerStates]
    BY Facts
  <2> QED
    BY <1>2, <2>0 DEF Freed, PlayerStates
<1>5. \A r \in gone : ~pl'[r].transit
  BY <1>2, <1>4, Facts DEF PlayerOk
<1>6. OfflineOk(bgs', pl')
  <2>1. OfflineOk(bgs, pl)
    BY Facts
  <2>2. ASSUME NEW c \in Bgs, bgs'[c].status # "leave", NEW i \in 1..Len(bgs'[c].offline)
        PROVE  bgs'[c].offline[i] \in bgs'[c].players /\ ~pl'[bgs'[c].offline[i]].online
    <3>1. bgs'[c].offline = bgs[c].offline /\ bgs'[c].status = bgs[c].status
      BY <1>3
    <3>2. bgs[c].offline[i] \in bgs[c].players /\ ~pl[bgs[c].offline[i]].online
      BY <2>1, <2>2, <3>1 DEF OfflineOk, AwayOk
    <3>3. bgs[c].offline[i] \in Players \ gone
      BY <1>2, <3>2, Facts
    <3> QED
      BY <1>3, <1>4, <3>1, <3>2, <3>3
  <2>3. \A c \in Bgs : bgs'[c].offline = bgs[c].offline /\ bgs'[c].status = bgs[c].status
    BY <1>3
  <2> QED
    BY <2>1, <2>2, <2>3 DEF OfflineOk, AwayOk
<1>7. SlotsOk(bgs', slots', config.max)
  BY <1>2, <1>3, PlacesFreedSlots
<1>8. gone \in SUBSET bgs[b].players
  BY <1>2
<1> HIDE DEF gone, IInv
<1> QED
  BY <1>2, <1>3, <1>4, <1>5, <1>6, <1>7, <1>8, WithoutIInv

(* ProcessLeave: everybody is removed, and every place is given back. *)
LEMMA ProcessLeaveIInv ==
  ASSUME IInv, NEW b \in Bgs, ProcessLeave(b)
  PROVE  IInv'
<1>1. PICK gone : gone = bgs[b].players
  OBVIOUS
<1>2. /\ bgs[b].status = "leave" /\ bgs' = Without(b, gone) /\ pl' = Freed(gone)
      /\ UNCHANGED <<config, queue, slots, events, updates>>
  BY <1>1 DEF ProcessLeave
<1>3. gone \in SUBSET bgs[b].players /\ gone \subseteq Players
  BY <1>1, Facts
<1>4. /\ bgs' \in [Bgs -> Battlegrounds] /\ \A c \in Bgs \ {b} : bgs'[c] = bgs[c]
      /\ bgs'[b].status = bgs[b].status /\ bgs'[b].players = bgs[b].players \ gone
      /\ \A t \in Teams : bgs'[b].invited[t] = bgs[b].invited[t] - Cardinality(Of(gone, t))
  BY <1>2, <1>3, WithoutIs
<1>5. /\ pl' \in [Players -> PlayerStates] /\ \A r \in Players \ gone : pl'[r] = pl[r]
      /\ \A r \in gone : IF pl[r].online
                         THEN /\ pl'[r].queueId = NoQueue /\ pl'[r].bg = NoBg
                              /\ pl'[r].transit = pl[r].transit
                         ELSE pl'[r] = pl[r]
  <2>0. pl \in [Players -> PlayerStates]
    BY Facts
  <2> QED
    BY <1>2, <1>3, <2>0 DEF Freed, PlayerStates
<1>6. \A r \in gone : /\ pl'[r].queueId = NoQueue /\ ~pl'[r].transit
                      /\ pl'[r].online => pl'[r].bg = NoBg
  BY <1>3, <1>5, Facts DEF PlayerOk
<1>7. OfflineOk(bgs', pl')
  <2>1. OfflineOk(bgs, pl)
    BY Facts
  <2>2. ASSUME NEW c \in Bgs, bgs'[c].status # "leave", NEW i \in 1..Len(bgs'[c].offline)
        PROVE  bgs'[c].offline[i] \in bgs'[c].players /\ ~pl'[bgs'[c].offline[i]].online
    <3>1. c # b /\ bgs'[c] = bgs[c]
      BY <1>2, <1>4, <2>2
    <3>2. bgs[c].offline[i] \in bgs[c].players /\ ~pl[bgs[c].offline[i]].online
      BY <2>1, <2>2, <3>1 DEF OfflineOk, AwayOk
    <3>3. bgs[c].offline[i] \in Players
      BY <3>2, Facts
    <3>4. pl'[bgs[c].offline[i]] = pl[bgs[c].offline[i]]
      BY <1>5, <3>2, <3>3
    <3> QED
      BY <3>1, <3>2, <3>4
  <2>3. \A c \in Bgs : bgs'[c].status # "leave" => bgs'[c] = bgs[c]
    BY <1>2, <1>4
  <2> QED
    BY <2>1, <2>2, <2>3 DEF OfflineOk, AwayOk
<1>8. SlotsOk(bgs', slots', config.max)
  <2>1. \A c \in Bgs : bgs'[c].status \in {"join", "progress"} => bgs'[c] = bgs[c]
    BY <1>2, <1>4
  <2> QED
    BY <1>2, <2>1, Facts DEF SlotsOk
<1> HIDE DEF IInv
<1> QED
  BY <1>2, <1>3, <1>4, <1>5, <1>6, <1>7, <1>8, WithoutIInv

(* ProcessOfflineQueue: the player who was away for too long loses his place. *)
LEMMA ProcessOfflineQueueIInv ==
  ASSUME IInv, NEW b \in Bgs, ProcessOfflineQueue(b)
  PROVE  IInv'
<1>1. PICK p : p = Head(bgs[b].offline)
  OBVIOUS
<1>2. /\ bgs[b].status = "progress" /\ bgs[b].offline # <<>> /\ p \in bgs[b].players
      /\ bgs' = [Without(b, {p}) EXCEPT ![b].offline = Tail(@)]
      /\ PlacesFreed(b)
      /\ UNCHANGED <<config, queue, pl, events, updates>>
  BY <1>1 DEF ProcessOfflineQueue
<1>3. PICK off \in Seq(Players) : off = bgs[b].offline
  BY Facts DEF Battlegrounds
<1>4. /\ Len(off) \in Nat /\ Len(off) > 0 /\ off[1] = p
      /\ Tail(off) \in Seq(Players) /\ Len(Tail(off)) = Len(off) - 1
      /\ \A i \in 1..Len(Tail(off)) : Tail(off)[i] = off[i + 1]
  <2>1. off # <<>> /\ Head(off) = p
    BY <1>1, <1>2, <1>3
  <2> QED
    BY <2>1, HeadTailProperties, LenProperties
<1>5. \A i \in 1..Len(Tail(off)) : i + 1 \in 1..Len(off) /\ i + 1 # 1
  BY <1>4
<1> DEFINE gone == {p}
<1>6. PICK w : w = Without(b, gone)
  OBVIOUS
<1>7. /\ w \in [Bgs -> Battlegrounds] /\ \A c \in Bgs \ {b} : w[c] = bgs[c]
      /\ w[b].status = bgs[b].status /\ w[b].players = bgs[b].players \ gone
      /\ w[b].offline = off
      /\ \A t \in Teams : w[b].invited[t] = bgs[b].invited[t] - Cardinality(Of(gone, t))
  <2>1. gone \in SUBSET bgs[b].players
    BY <1>2
  <2> HIDE DEF gone, IInv
  <2> QED
    BY <1>3, <1>6, <2>1, WithoutIs
<1>8. /\ bgs' \in [Bgs -> Battlegrounds] /\ \A c \in Bgs \ {b} : bgs'[c] = bgs[c]
      /\ bgs'[b].status = bgs[b].status /\ bgs'[b].players = bgs[b].players \ gone
      /\ bgs'[b].offline = Tail(off)
      /\ \A t \in Teams : bgs'[b].invited[t] = bgs[b].invited[t] - Cardinality(Of(gone, t))
  <2>1. bgs' = [w EXCEPT ![b].offline = Tail(off)]
    BY <1>2, <1>6, <1>7
  <2> HIDE DEF gone
  <2>2. bgs'[b] = [w[b] EXCEPT !.offline = Tail(off)] /\ \A c \in Bgs \ {b} : bgs'[c] = w[c]
    BY <1>7, <2>1
  <2>3. w[b] \in Battlegrounds
    BY <1>7
  <2>4. bgs'[b] \in Battlegrounds /\ bgs'[b].status = w[b].status
        /\ bgs'[b].players = w[b].players /\ bgs'[b].invited = w[b].invited
        /\ bgs'[b].offline = Tail(off)
    BY <1>4, <2>2, <2>3 DEF Battlegrounds
  <2>5. bgs' \in [Bgs -> Battlegrounds]
    BY <1>7, <2>1, <2>2, <2>4
  <2> QED
    BY <1>7, <2>2, <2>4, <2>5
<1>9. /\ \A i \in 1..Len(off) : off[i] \in bgs[b].players /\ ~pl[off[i]].online
      /\ \A i \in 1..Len(off), j \in 1..Len(off) : off[i] = off[j] => i = j
  BY <1>2, <1>3, Facts DEF OfflineOk, AwayOk
<1>10. p \in Players /\ ~pl[p].online
  <2>1. 1 \in 1..Len(off)
    BY <1>4
  <2> QED
    BY <1>2, <1>4, <1>9, <2>1, Facts
<1>11. /\ pl' \in [Players -> PlayerStates] /\ \A r \in Players \ gone : pl'[r] = pl[r]
       /\ \A r \in gone : /\ pl'[r].queueId = NoQueue /\ ~pl'[r].transit
                          /\ pl'[r].online => pl'[r].bg = NoBg
  BY <1>2, <1>10, Facts DEF PlayerOk
<1>12. OfflineOk(bgs', pl')
  <2> DEFINE new == Tail(off)
  <2>1. \A i \in 1..Len(new) : new[i] \in bgs[b].players \ gone /\ ~pl[new[i]].online
    <3>1. 1 \in 1..Len(off)
      BY <1>4
    <3> QED
      BY <1>4, <1>5, <1>9, <3>1
  <2>2. \A i \in 1..Len(new), j \in 1..Len(new) : new[i] = new[j] => i = j
    <3>1. Len(new) \in Nat
      BY <1>4
    <3>2. SUFFICES ASSUME NEW i \in 1..Len(new), NEW j \in 1..Len(new), new[i] = new[j]
                   PROVE  i = j
      OBVIOUS
    <3>3. off[i + 1] = off[j + 1] /\ i + 1 \in 1..Len(off) /\ j + 1 \in 1..Len(off)
      BY <1>4, <1>5, <3>2
    <3>4. i + 1 = j + 1
      BY <1>9, <3>3
    <3> QED
      BY <3>1, <3>4
  <2> HIDE DEF new
  <2>3. bgs'[b].offline = new /\ pl' = pl
    BY <1>2, <1>8 DEF new
  <2>4. OfflineOk(bgs, pl)
    BY Facts
  <2> HIDE DEF gone, IInv
  <2> QED
    BY <1>8, <2>1, <2>2, <2>3, <2>4 DEF OfflineOk, AwayOk
<1>13. SlotsOk(bgs', slots', config.max)
  BY <1>2, <1>8, PlacesFreedSlots
<1>14. gone \in SUBSET bgs[b].players /\ bgs[b].status # "none"
  BY <1>2
<1> HIDE DEF gone, IInv
<1> QED
  BY <1>2, <1>8, <1>11, <1>12, <1>13, <1>14, WithoutIInv

(* RemoveFromFreeSlots takes out that battleground only. *)
LEMMA RemoveSlots ==
  ASSUME IInv, NEW b \in Bgs
  PROVE  /\ RemoveFromFreeSlots(b) \in Seq(Bgs)
         /\ \A c \in Bgs \ {b} : c \in Range(slots) => c \in Range(RemoveFromFreeSlots(b))
<1>1. slots \in Seq(Bgs)
  BY Facts DEF SlotsOk
<1> QED
  BY <1>1, KeepHas DEF RemoveFromFreeSlots

(* UpdateDelete: nobody has a place in the battleground that is deleted. *)
LEMMA UpdateDeleteIInv ==
  ASSUME IInv, NEW b \in Bgs, UpdateDelete(b)
  PROVE  IInv'
<1>1. /\ bgs[b].players = {} /\ \A t \in Teams : bgs[b].invited[t] = 0
      /\ bgs' = [bgs EXCEPT ![b] = NoBattleground] /\ slots' = RemoveFromFreeSlots(b)
      /\ UNCHANGED <<config, queue, pl, events, updates>>
  BY DEF UpdateDelete
<1>2. Claims(bgs, pl, b) = {}
  <2>1. SUFFICES ASSUME NEW p \in Claims(bgs, pl, b) PROVE FALSE
    OBVIOUS
  <2>2. Claims(bgs, pl, b) \in SUBSET Players /\ p \in Players
    BY <2>1, Facts DEF Claims
  <2>3. Team[p] \in Teams /\ p \in Of(Claims(bgs, pl, b), Team[p])
    BY <2>1, <2>2, ConstantsAssumption DEF Of
  <2>4. Cardinality(Of(Claims(bgs, pl, b), Team[p])) = 0
    BY <1>1, <2>3, Facts DEF PlacesOk
  <2>5. IsFiniteSet(Of(Claims(bgs, pl, b), Team[p]))
    BY <2>2, <2>3, OfCounts
  <2> QED
    BY <2>3, <2>4, <2>5, FS_EmptySet
<1>3. NoBattleground \in Battlegrounds /\ NoBattleground.players = {}
      /\ NoBattleground.offline = <<>> /\ NoBattleground.status = "none"
      /\ \A t \in Teams : NoBattleground.invited[t] = 0
  BY DEF NoBattleground, Battlegrounds
<1>4. /\ bgs' \in [Bgs -> Battlegrounds] /\ bgs'[b] = NoBattleground
      /\ \A c \in Bgs \ {b} : bgs'[c] = bgs[c]
  BY <1>1, <1>3, Facts
<1>5. \A p \in Players : \A c \in Bgs : p \in bgs'[c].players <=> p \in bgs[c].players
  BY <1>1, <1>3, <1>4
<1>6. PlayersOk(Queued(queue'), bgs', pl')
  <2>1. \A p \in Players : PlayerOk(Queued(queue), bgs', pl', p)
    <3> DEFINE ps == {}
    <3>1. \A p \in Players : p \notin ps /\ pl'[p] = pl[p]
      BY <1>1
    <3> HIDE DEF ps, IInv
    <3> QED
      BY <1>5, <3>1, OthersOk
  <2> QED
    BY <1>1, <2>1 DEF PlayersOk
<1>7. PlacesOk(bgs', pl')
  <2>1. \A c \in Bgs : Claims(bgs', pl', c) = Claims(bgs, pl, c)
    BY <1>1, <1>3, <1>4 DEF Claims
  <2>2. \A t \in Teams : Cardinality(Of(Claims(bgs', pl', b), t)) = 0
    <3>1. \A t \in Teams : Of(Claims(bgs', pl', b), t) = {}
      BY <1>2, <2>1 DEF Of
    <3> QED
      BY <3>1, FS_EmptySet
  <2> QED
    BY <1>3, <1>4, <2>1, <2>2, Facts DEF PlacesOk
<1>8. RoomOk(bgs', config.max)
  <2>1. config.max \in Nat
    BY ConstantsAssumption DEF IInv
  <2> QED
    <3>1. RoomOk(bgs, config.max)
      BY Facts
    <3> QED
      BY <1>3, <1>4, <2>1, <3>1 DEF RoomOk
<1>9. OfflineOk(bgs', pl')
  <2>1. Len(bgs'[b].offline) = 0 /\ 1..0 = {}
    BY <1>3, <1>4
  <2>2. OfflineOk(bgs, pl) /\ pl' = pl
    BY <1>1, Facts
  <2> HIDE DEF IInv
  <2>3. ASSUME NEW c \in Bgs, bgs'[c].status # "leave"
        PROVE  LET off == bgs'[c].offline
               IN  /\ \A i \in 1..Len(off) : off[i] \in bgs'[c].players /\ ~pl'[off[i]].online
                   /\ \A i \in 1..Len(off), j \in 1..Len(off) : off[i] = off[j] => i = j
    <3>1. CASE c = b
      BY <2>1, <3>1
    <3>2. CASE c # b
      BY <1>4, <2>2, <2>3, <3>2 DEF OfflineOk, AwayOk
    <3> QED
      BY <3>1, <3>2
  <2> QED
    BY <2>3 DEF OfflineOk, AwayOk
<1>10. SlotsOk(bgs', slots', config.max)
  BY <1>1, <1>3, <1>4, Facts, RemoveSlots DEF SlotsOk
<1> QED
  BY <1>1, <1>4, <1>6, <1>7, <1>8, <1>9, <1>10, Facts DEF IInv, Good, Typed

(* A battleground only goes on to its next status. *)
LEMMA StatusIInv ==
  ASSUME IInv, NEW b \in Bgs, NEW st \in {"progress", "leave"},
         bgs[b].status \in {"join", "progress"},
         bgs' = [bgs EXCEPT ![b].status = st],
         UNCHANGED <<config, queue, pl, events, updates>>,
         slots' = slots \/ (st = "leave" /\ slots' = RemoveFromFreeSlots(b))
  PROVE  IInv'
<1>1. /\ bgs' \in [Bgs -> Battlegrounds] /\ \A c \in Bgs \ {b} : bgs'[c] = bgs[c]
      /\ bgs'[b].status = st /\ bgs'[b].players = bgs[b].players
      /\ bgs'[b].invited = bgs[b].invited /\ bgs'[b].offline = bgs[b].offline
  BY Facts DEF Battlegrounds
<1>2. PlayersOk(Queued(queue'), bgs', pl')
  <2>1. \A p \in Players : PlayerOk(Queued(queue), bgs', pl', p)
    <3> DEFINE ps == {}
    <3>1. \A p \in Players : /\ p \notin ps /\ pl'[p] = pl[p]
                             /\ \A c \in Bgs : p \in bgs'[c].players <=> p \in bgs[c].players
      BY <1>1
    <3> HIDE DEF ps, IInv
    <3> QED
      BY <3>1, OthersOk
  <2> QED
    BY <2>1 DEF PlayersOk
<1>3. PlacesOk(bgs', pl')
  <2>1. \A c \in Bgs : Claims(bgs', pl', c) = Claims(bgs, pl, c)
    BY <1>1 DEF Claims
  <2>2. \A c \in Bgs : /\ bgs'[c].invited = bgs[c].invited
                       /\ bgs'[c].status = "none" => bgs'[c] = bgs[c]
    BY <1>1
  <2>3. PlacesOk(bgs, pl)
    BY Facts
  <2> HIDE DEF IInv
  <2>4. ASSUME NEW c \in Bgs, NEW t \in Teams
        PROVE  bgs'[c].invited[t] = Cardinality(Of(Claims(bgs', pl', c), t))
    <3>1. bgs[c].invited[t] = Cardinality(Of(Claims(bgs, pl, c), t))
      BY <2>3 DEF PlacesOk
    <3>2. Claims(bgs', pl', c) = Claims(bgs, pl, c)
      BY <2>1
    <3>3. bgs'[c].invited = bgs[c].invited
      BY <2>2
    <3> QED
      BY ONLY <3>1, <3>2, <3>3
  <2>5. \A c \in Bgs : bgs'[c].status = "none" => bgs'[c] = NoBattleground
    <3>1. \A c \in Bgs : bgs'[c].status = "none" => bgs[c].status = "none"
      BY <2>2
    <3> QED
      BY <2>2, <2>3, <3>1 DEF PlacesOk
  <2> QED
    BY <2>4, <2>5 DEF PlacesOk
<1>4. RoomOk(bgs', config.max)
  <2>1. \A c \in Bgs : bgs'[c].invited = bgs[c].invited
    BY <1>1
  <2> QED
    BY <2>1, Facts DEF RoomOk
<1>5. OfflineOk(bgs', pl')
  <2>1. \A c \in Bgs : /\ bgs'[c].offline = bgs[c].offline /\ bgs'[c].players = bgs[c].players
                       /\ bgs'[c].status # "leave" => bgs[c].status # "leave"
    BY <1>1
  <2> QED
    BY <2>1, Facts DEF OfflineOk, AwayOk
<1>6. SlotsOk(bgs', slots', config.max)
  BY <1>1, Facts, RemoveSlots DEF SlotsOk
<1> QED
  BY <1>1, <1>2, <1>3, <1>4, <1>5, <1>6, Facts DEF IInv, Good, Typed

(* ProcessJoin: only the status changes. *)
LEMMA ProcessJoinIInv ==
  ASSUME IInv, NEW b \in Bgs, ProcessJoin(b)
  PROVE  IInv'
<1>1. /\ bgs[b].status \in {"join", "progress"} /\ bgs' = [bgs EXCEPT ![b].status = "progress"]
      /\ UNCHANGED <<config, queue, pl, events, updates>> /\ slots' = slots
  BY DEF ProcessJoin
<1>2. PICK st \in {"progress", "leave"} : st = "progress"
  OBVIOUS
<1>3. bgs' = [bgs EXCEPT ![b].status = st]
  BY <1>1, <1>2
<1> HIDE DEF IInv
<1> QED
  BY <1>1, <1>3, StatusIInv

(* EndBattleground: the status changes, and the free slot is given up. *)
LEMMA EndBattlegroundIInv ==
  ASSUME IInv, NEW b \in Bgs, EndBattleground(b)
  PROVE  IInv'
<1>1. /\ bgs[b].status \in {"join", "progress"} /\ bgs' = [bgs EXCEPT ![b].status = "leave"]
      /\ UNCHANGED <<config, queue, pl, events, updates>> /\ slots' = RemoveFromFreeSlots(b)
  BY DEF EndBattleground, Running
<1>2. PICK st \in {"progress", "leave"} : st = "leave"
  OBVIOUS
<1>3. bgs' = [bgs EXCEPT ![b].status = st]
  BY <1>1, <1>2
<1> HIDE DEF IInv
<1> QED
  BY <1>1, <1>2, <1>3, StatusIInv

(* He is then the last on the list of those who are away. *)
LEMMA LogoutAway ==
  ASSUME IInv, NEW p \in Players, NEW b \in Bgs, pl[p].online,
         \A c \in Bgs \ {b} : bgs'[c] = bgs[c], bgs'[b].status = bgs[b].status,
         bgs'[b].players = bgs[b].players \cup {p},
         bgs'[b].offline = Append(bgs[b].offline, p),
         \A r \in Players \ {p} : pl'[r] = pl[r], ~pl'[p].online
  PROVE  OfflineOk(bgs', pl')
<1>1. PICK off \in Seq(Players) : off = bgs[b].offline
  BY Facts DEF Battlegrounds
<1>2. /\ Append(off, p) \in Seq(Players) /\ Len(off) \in Nat
      /\ Len(Append(off, p)) = Len(off) + 1 /\ Append(off, p)[Len(off) + 1] = p
      /\ \A i \in 1..Len(off) : Append(off, p)[i] = off[i]
  BY AppendProperties, LenProperties
<1>3. PICK new \in Seq(Players) : new = Append(off, p)
  BY <1>2
<1>4. bgs'[b].offline = new
  BY <1>1, <1>3
<1>5. OfflineOk(bgs, pl) /\ \A c \in Bgs : bgs[c].players \subseteq Players
  BY Facts
<1> HIDE DEF IInv
<1>6. ASSUME NEW c \in Bgs, bgs'[c].status # "leave", c # b PROVE AwayOk(bgs', pl', c)
  <2>1. bgs'[c] = bgs[c]
    BY <1>6
  <2>2. \A r \in Players : ~pl[r].online => ~pl'[r].online
    OBVIOUS
  <2>3. AwayOk(bgs, pl, c) /\ bgs[c].players \subseteq Players
    BY <1>5, <1>6, <2>1 DEF OfflineOk
  <2>4. PICK o : o = bgs[c].offline
    OBVIOUS
  <2>5. \A i \in 1..Len(o) : o[i] \in bgs'[c].players /\ ~pl'[o[i]].online
    <3>1. \A i \in 1..Len(o) : o[i] \in bgs[c].players /\ ~pl[o[i]].online
      BY <2>3, <2>4 DEF AwayOk
    <3> QED
      BY <2>1, <2>2, <2>3, <3>1
  <2>6. \A i \in 1..Len(o), j \in 1..Len(o) : o[i] = o[j] => i = j
    BY <2>3, <2>4 DEF AwayOk
  <2> QED
    BY <2>1, <2>4, <2>5, <2>6 DEF AwayOk
<1>7. ASSUME bgs'[b].status # "leave"
      PROVE  AwayOk(bgs', pl', b)
  <2>1. /\ \A i \in 1..Len(off) : off[i] \in bgs[b].players /\ ~pl[off[i]].online
        /\ \A i \in 1..Len(off), j \in 1..Len(off) : off[i] = off[j] => i = j
    BY <1>1, <1>5, <1>7 DEF OfflineOk, AwayOk
  <2>2. \A i \in 1..Len(new) : \/ i \in 1..Len(off) /\ new[i] = off[i]
                               \/ i = Len(off) + 1 /\ new[i] = p
    BY <1>2, <1>3
  <2>3. \A i \in 1..Len(off) : off[i] # p /\ off[i] \in Players
    BY <1>5, <2>1
  <2>4. \A i \in 1..Len(new) : new[i] \in bgs'[b].players /\ ~pl'[new[i]].online
    BY <2>1, <2>2, <2>3
  <2>5. \A i \in 1..Len(new), j \in 1..Len(new) : new[i] = new[j] => i = j
    BY <2>1, <2>2, <2>3
  <2> QED
    BY <1>4, <2>4, <2>5 DEF AwayOk
<1> QED
  BY <1>6, <1>7 DEF OfflineOk

(* A player who is inside, or arrives, and logs out keeps his place. *)
LEMMA LogoutInsideIInv ==
  ASSUME IInv, NEW p \in Players, NEW b \in Bgs, pl[p].online, pl[p].bg = b,
         bgs[b].status # "none", p \in Arrived(p)[b].players,
         pl' = [pl EXCEPT ![p].online = FALSE, ![p].transit = FALSE, ![p].queueId = NoQueue],
         bgs' = [Arrived(p) EXCEPT ![b].offline = Append(@, p)],
         UNCHANGED <<config, queue, slots, events, updates>>
  PROVE  IInv'
<1>1. /\ pl[p].queueId = b /\ b # NoBg /\ b # NoQueue /\ p \notin Queued(queue)
      /\ p \in Claims(bgs, pl, b)
  BY Facts DEF PlayerOk, Claims
<1>2. PICK off \in Seq(Players) : off = bgs[b].offline
  BY Facts DEF Battlegrounds
<1>3. PICK w : w = Arrived(p)
  OBVIOUS
<1>4. /\ w \in [Bgs -> Battlegrounds] /\ \A c \in Bgs \ {b} : w[c] = bgs[c]
      /\ w[b].status = bgs[b].status /\ w[b].invited = bgs[b].invited /\ w[b].offline = off
      /\ w[b].players = bgs[b].players \cup {p}
  <2>1. w = [bgs EXCEPT ![b].players = @ \cup {p}]
    BY <1>1, <1>3 DEF Arrived
  <2>2. bgs \in [Bgs -> Battlegrounds]
    BY Facts
  <2>3. PICK bg \in Battlegrounds : bg = bgs[b]
    BY <2>2
  <2>4. PICK more : more = [bg EXCEPT !.players = @ \cup {p}]
    OBVIOUS
  <2>5. /\ more \in Battlegrounds /\ more.status = bg.status /\ more.invited = bg.invited
        /\ more.offline = bg.offline /\ more.players = bg.players \cup {p}
    BY ONLY <2>4, p \in Players, bg \in Battlegrounds DEF Battlegrounds
  <2>6. w = [bgs EXCEPT ![b] = more]
    BY <2>1, <2>3, <2>4
  <2>7. w[b] = more /\ (\A c \in Bgs \ {b} : w[c] = bgs[c]) /\ w \in [Bgs -> Battlegrounds]
    BY ONLY <2>2, <2>5, <2>6, b \in Bgs
  <2> QED
    BY ONLY <1>2, <2>3, <2>5, <2>7
<1>5. /\ Append(off, p) \in Seq(Players) /\ Len(off) \in Nat
      /\ Len(Append(off, p)) = Len(off) + 1 /\ Append(off, p)[Len(off) + 1] = p
      /\ \A i \in 1..Len(off) : Append(off, p)[i] = off[i]
  BY AppendProperties, LenProperties
<1>6. PICK new \in Seq(Players) : new = Append(off, p)
  BY <1>5
<1>7. /\ bgs' \in [Bgs -> Battlegrounds] /\ \A c \in Bgs \ {b} : bgs'[c] = bgs[c]
      /\ bgs'[b].status = bgs[b].status /\ bgs'[b].invited = bgs[b].invited
      /\ bgs'[b].offline = new /\ bgs'[b].players = bgs[b].players \cup {p}
  <2>1. bgs' = [w EXCEPT ![b].offline = new]
    BY <1>3, <1>4, <1>6
  <2>2. w[b] \in Battlegrounds
    BY <1>4
  <2>3. bgs'[b] = [w[b] EXCEPT !.offline = new] /\ \A c \in Bgs \ {b} : bgs'[c] = w[c]
    BY <1>4, <2>1
  <2>4. bgs'[b] \in Battlegrounds /\ bgs'[b].status = w[b].status
        /\ bgs'[b].players = w[b].players /\ bgs'[b].invited = w[b].invited
        /\ bgs'[b].offline = new
    BY <2>2, <2>3 DEF Battlegrounds
  <2>5. bgs' \in [Bgs -> Battlegrounds]
    BY <1>4, <2>1, <2>3, <2>4
  <2> QED
    BY <1>4, <2>3, <2>4, <2>5
<1>8. /\ pl' \in [Players -> PlayerStates] /\ \A r \in Players \ {p} : pl'[r] = pl[r]
      /\ pl'[p].bg = b /\ ~pl'[p].transit /\ pl'[p].queueId = NoQueue /\ ~pl'[p].online
  <2>0. pl \in [Players -> PlayerStates]
    BY Facts
  <2> QED
    BY <2>0 DEF PlayerStates
<1>9. QueueOk(queue', pl')
  <2>1. \A r \in Queued(queue) : pl'[r] = pl[r]
    BY <1>1, <1>8, Facts
  <2> QED
    BY <2>1, QueueSame
<1>10. PlayersOk(Queued(queue'), bgs', pl')
  <2>1. ASSUME NEW r \in Players PROVE PlayerOk(Queued(queue), bgs', pl', r)
    <3>1. CASE r = p
      <4>1. \A c \in Bgs \ {b} : p \notin bgs'[c].players
        BY <1>7, Facts DEF PlayerOk
      <4> HIDE DEF IInv
      <4> QED
        BY <1>8, <3>1, <4>1 DEF PlayerOk
    <3>2. CASE r # p
      <4> DEFINE ps == {p}
      <4>1. /\ r \notin ps /\ pl'[r] = pl[r]
            /\ \A c \in Bgs : r \in bgs'[c].players <=> r \in bgs[c].players
        BY <1>7, <1>8, <3>2
      <4> HIDE DEF ps, IInv
      <4> QED
        BY <4>1, OthersOk
    <3> QED
      BY <3>1, <3>2
  <2> QED
    BY <2>1 DEF PlayersOk
<1>11. PlacesOk(bgs', pl')
  <2>1. \A c \in Bgs : Claims(bgs', pl', c) = Claims(bgs, pl, c)
    <3>1. ASSUME NEW c \in Bgs PROVE Claims(bgs', pl', c) = Claims(bgs, pl, c)
      <4>1. CASE c = b
        BY <1>1, <1>7, <1>8, <4>1, Facts DEF Claims
      <4>2. CASE c # b
        BY <1>1, <1>7, <1>8, <4>2, Facts DEF Claims
      <4> QED
        BY <4>1, <4>2
    <3> QED
      BY <3>1
  <2>2. \A c \in Bgs : /\ bgs'[c].invited = bgs[c].invited
                       /\ bgs'[c].status = "none" => bgs'[c] = bgs[c]
    BY <1>7
  <2> HIDE DEF IInv
  <2> QED
    BY <2>1, <2>2, PlacesSame
<1>12. OfflineOk(bgs', pl')
  <2>1. bgs'[b].offline = Append(bgs[b].offline, p)
    BY <1>2, <1>6, <1>7
  <2> HIDE DEF IInv
  <2> QED
    BY <1>7, <1>8, <2>1, LogoutAway
<1>13. RoomOk(bgs', config.max) /\ SlotsOk(bgs', slots, config.max)
  <2>1. \A c \in Bgs : /\ bgs'[c].status = bgs[c].status /\ bgs'[c].invited = bgs[c].invited
                       /\ bgs[c].players \subseteq bgs'[c].players
    BY <1>7
  <2> QED
    BY <1>7, <2>1, SlotsGrow
<1> QED
  BY <1>7, <1>8, <1>9, <1>10, <1>11, <1>12, <1>13, Facts DEF IInv, Good, Typed

(* Logout: a player inside keeps his place, one who waits loses it. *)
LEMMA LogoutIInv ==
  ASSUME IInv, NEW p \in Players, Logout(p)
  PROVE  IInv'
<1>1. PICK b : b = pl[p].bg
  OBVIOUS
<1>2. /\ pl[p].online
      /\ pl' = [pl EXCEPT ![p].online = FALSE, ![p].transit = FALSE, ![p].queueId = NoQueue]
      /\ IF Exists(b) /\ p \in Arrived(p)[b].players
         THEN /\ bgs' = [Arrived(p) EXCEPT ![b].offline = Append(@, p)]
              /\ UNCHANGED queue
         ELSE RemovePlayer({p}) /\ bgs' = DecreaseInvitedCount({p})
      /\ UNCHANGED <<config, slots, events, updates>>
  BY <1>1 DEF Logout
<1>3. CASE Exists(b) /\ p \in Arrived(p)[b].players
  <2>1. b \in Bgs /\ bgs[b].status # "none"
    BY <1>1, <1>3, Facts DEF Exists
  <2> QED
    BY <1>1, <1>2, <1>3, <2>1, LogoutInsideIInv
<1>4. CASE ~(Exists(b) /\ p \in Arrived(p)[b].players)
  <2>1. b = NoBg
    <3>1. SUFFICES ASSUME b # NoBg PROVE FALSE
      OBVIOUS
    <3>2. /\ b \in Bgs /\ pl[p].queueId = b /\ b # NoQueue /\ p \in Players
          /\ p \notin Queued(queue) /\ p \in Claims(bgs, pl, b)
      BY <1>1, <1>2, <3>1, Facts DEF PlayerOk, Claims
    <3>3. bgs[b].status # "none"
      BY <3>2, Facts, ClaimedExists
    <3>4. Arrived(p) = [bgs EXCEPT ![b].players = @ \cup {p}]
      BY <1>1, <3>2 DEF Arrived
    <3>5. p \in Arrived(p)[b].players
      BY <3>2, <3>4, Facts DEF Battlegrounds
    <3> QED
      BY <1>4, <3>1, <3>3, <3>5 DEF Exists
  <2>2. p \in Queued(queue) \/ pl[p].queueId = NoQueue
    BY <1>1, <2>1, Facts DEF PlayerOk
  <2>3. /\ pl' \in [Players -> PlayerStates] /\ \A r \in Players \ {p} : pl'[r] = pl[r]
        /\ pl'[p].bg = NoBg /\ ~pl'[p].transit /\ pl'[p].queueId = NoQueue
    <3>1. pl \in [Players -> PlayerStates]
      BY Facts
    <3> QED
      BY <1>1, <1>2, <2>1, <3>1 DEF PlayerStates
  <2> DEFINE ps == {p}
  <2>4. /\ ps \in SUBSET Players /\ RemovePlayer(ps) /\ bgs' = DecreaseInvitedCount(ps)
        /\ UNCHANGED <<config, slots, updates>> /\ events' \subseteq events
        /\ \A r \in ps : /\ pl[r].bg = NoBg
                         /\ r \in Queued(queue) \/ pl[r].queueId = NoQueue
        /\ \A r \in Players \ ps : pl'[r] = pl[r]
        /\ \A r \in ps : pl'[r].bg = NoBg /\ ~pl'[r].transit /\ pl'[r].queueId = NoQueue
    BY <1>1, <1>2, <1>4, <2>1, <2>2, <2>3
  <2> HIDE DEF ps, IInv
  <2> QED
    BY <2>3, <2>4, LeaveQueueIInv
<1> QED
  BY <1>3, <1>4

(* Who is away from a battleground belongs to that one. *)
LEMMA AwayFrom ==
  ASSUME IInv, NEW b \in Bgs, bgs[b].status # "leave"
  PROVE  /\ \A i \in 1..Len(bgs[b].offline) :
              /\ bgs[b].offline[i] \in Players /\ bgs[b].offline[i] \in bgs[b].players
              /\ ~pl[bgs[b].offline[i]].online /\ pl[bgs[b].offline[i]].bg = b
         /\ \A i \in 1..Len(bgs[b].offline), j \in 1..Len(bgs[b].offline) :
              bgs[b].offline[i] = bgs[b].offline[j] => i = j
<1>1. PICK off : off = bgs[b].offline
  OBVIOUS
<1>2. /\ \A i \in 1..Len(off) : off[i] \in bgs[b].players /\ ~pl[off[i]].online
      /\ \A i \in 1..Len(off), j \in 1..Len(off) : off[i] = off[j] => i = j
  BY <1>1, Facts DEF OfflineOk, AwayOk
<1>3. \A r \in bgs[b].players : r \in Players /\ pl[r].bg = b
  BY Facts DEF PlayerOk
<1> QED
  BY <1>1, <1>2, <1>3

(* Somebody comes online who is on none of the lists. *)
LEMMA LoginAway ==
  ASSUME IInv, NEW p \in Players, \A r \in Players \ {p} : pl'[r] = pl[r],
         NEW c \in Bgs, bgs'[c] = bgs[c], bgs[c].status # "leave", pl[p].bg # c
  PROVE  AwayOk(bgs', pl', c)
<1>1. PICK off : off = bgs[c].offline
  OBVIOUS
<1>2. /\ \A i \in 1..Len(off) : off[i] \in bgs[c].players /\ off[i] \in Players \ {p}
                                /\ ~pl[off[i]].online
      /\ \A i \in 1..Len(off), j \in 1..Len(off) : off[i] = off[j] => i = j
  BY <1>1, AwayFrom
<1>3. \A i \in 1..Len(off) : off[i] \in bgs'[c].players /\ ~pl'[off[i]].online
  BY <1>2
<1> QED
  BY <1>1, <1>2, <1>3 DEF AwayOk

(* Who comes back is taken off the list. *)
LEMMA LoginBack ==
  ASSUME IInv, NEW p \in Players, \A r \in Players \ {p} : pl'[r] = pl[r],
         NEW b \in Bgs, bgs[b].status # "leave", bgs'[b].players = bgs[b].players,
         bgs'[b].offline = Keep(bgs[b].offline, Players \ {p})
  PROVE  AwayOk(bgs', pl', b)
<1>1. PICK off \in Seq(Players) : off = bgs[b].offline
  BY Facts DEF Battlegrounds
<1>2. PICK new \in Seq(Players) : new = Keep(off, Players \ {p})
  BY KeepAt
<1>3. PICK at : Kept(new, off, Players \ {p}, at)
  BY <1>2, KeepAt
<1>4. /\ \A i \in 1..Len(off) : off[i] \in Players /\ off[i] \in bgs[b].players
                                /\ ~pl[off[i]].online
      /\ \A i \in 1..Len(off), j \in 1..Len(off) : off[i] = off[j] => i = j
  BY <1>1, AwayFrom
<1>5. \A i \in 1..Len(new) : at[i] \in 1..Len(off) /\ new[i] = off[at[i]] /\ new[i] # p
  BY <1>3 DEF Kept
<1>6. \A i \in 1..Len(new) : new[i] \in bgs'[b].players /\ ~pl'[new[i]].online
  BY <1>4, <1>5
<1>7. \A i \in 1..Len(new), j \in 1..Len(new) : new[i] = new[j] => i = j
  BY <1>3, <1>4, <1>5 DEF Kept
<1>8. bgs'[b].offline = new
  BY <1>1, <1>2
<1> QED
  BY <1>6, <1>7, <1>8 DEF AwayOk

(* A player who comes back in time takes his place again. *)
LEMMA LoginInsideIInv ==
  ASSUME IInv, NEW p \in Players, NEW b \in Bgs, ~pl[p].online, pl[p].bg = b,
         bgs[b].status # "none", bgs[b].status # "leave", p \in bgs[b].players,
         pl' = [pl EXCEPT ![p].online = TRUE, ![p].queueId = b],
         bgs' = [bgs EXCEPT ![b].offline = Keep(@, Players \ {p})],
         UNCHANGED <<config, queue, slots, events, updates>>
  PROVE  IInv'
<1>1. b # NoBg /\ b # NoQueue /\ p \notin Queued(queue) /\ ~pl[p].transit
  BY Facts DEF PlayerOk
<1>2. PICK off \in Seq(Players) : off = bgs[b].offline
  BY Facts DEF Battlegrounds
<1>3. PICK new \in Seq(Players) : new = Keep(off, Players \ {p})
  BY KeepAt
<1>5. /\ bgs' \in [Bgs -> Battlegrounds] /\ \A c \in Bgs \ {b} : bgs'[c] = bgs[c]
      /\ bgs'[b].status = bgs[b].status /\ bgs'[b].invited = bgs[b].invited
      /\ bgs'[b].offline = new /\ bgs'[b].players = bgs[b].players
  <2>1. PICK w : w = [bgs EXCEPT ![b].offline = new]
    OBVIOUS
  <2>2. /\ w \in [Bgs -> Battlegrounds] /\ \A c \in Bgs \ {b} : w[c] = bgs[c]
        /\ w[b].status = bgs[b].status /\ w[b].invited = bgs[b].invited
        /\ w[b].offline = new /\ w[b].players = bgs[b].players
    <3>1. bgs \in [Bgs -> Battlegrounds]
      BY Facts
    <3> QED
      BY <2>1, <3>1 DEF Battlegrounds
  <2>3. bgs' = w
    BY <1>2, <1>3, <2>1
  <2> QED
    BY <2>2, <2>3
<1>6. /\ pl' \in [Players -> PlayerStates] /\ \A r \in Players \ {p} : pl'[r] = pl[r]
      /\ pl'[p].bg = b /\ ~pl'[p].transit /\ pl'[p].queueId = b /\ pl'[p].online
  BY <1>1, Facts DEF PlayerStates
<1>7. QueueOk(queue', pl')
  <2>1. \A r \in Queued(queue) : pl'[r] = pl[r]
    BY <1>1, <1>6, Facts
  <2> QED
    BY <2>1, QueueSame
<1>8. PlayersOk(Queued(queue'), bgs', pl')
  <2>1. ASSUME NEW r \in Players PROVE PlayerOk(Queued(queue), bgs', pl', r)
    <3>1. CASE r = p
      <4>1. \A c \in Bgs \ {b} : p \notin bgs'[c].players
        BY <1>5, Facts DEF PlayerOk
      <4> HIDE DEF IInv
      <4> QED
        BY <1>1, <1>5, <1>6, <3>1, <4>1 DEF PlayerOk
    <3>2. CASE r # p
      <4> DEFINE ps == {p}
      <4>1. /\ r \notin ps /\ pl'[r] = pl[r]
            /\ \A c \in Bgs : r \in bgs'[c].players <=> r \in bgs[c].players
        BY <1>5, <1>6, <3>2
      <4> HIDE DEF ps, IInv
      <4> QED
        BY <4>1, OthersOk
    <3> QED
      BY <3>1, <3>2
  <2> QED
    BY <2>1 DEF PlayersOk
<1>9. PlacesOk(bgs', pl')
  <2>1. pl[p].queueId = NoQueue
    BY Facts DEF PlayerOk
  <2>2. \A c \in Bgs : Claims(bgs', pl', c) = Claims(bgs, pl, c)
    BY <1>5, <1>6, <2>1, Facts DEF Claims
  <2>3. \A c \in Bgs : /\ bgs'[c].invited = bgs[c].invited
                       /\ bgs'[c].status = "none" => bgs'[c] = bgs[c]
    BY <1>5
  <2> HIDE DEF IInv
  <2> QED
    BY <2>2, <2>3, PlacesSame
<1>10. AwayOk(bgs', pl', b)
  <2>1. bgs'[b].offline = Keep(bgs[b].offline, Players \ {p})
    BY <1>2, <1>3, <1>5
  <2>2. bgs'[b].players = bgs[b].players /\ \A r \in Players \ {p} : pl'[r] = pl[r]
    BY <1>5, <1>6
  <2> HIDE DEF IInv
  <2> QED
    BY <2>1, <2>2, LoginBack
<1>11. OfflineOk(bgs', pl')
  <2>1. \A c \in Bgs \ {b} : bgs'[c].status # "leave" => AwayOk(bgs', pl', c)
    BY <1>5, <1>6, LoginAway
  <2> QED
    BY <1>10, <2>1 DEF OfflineOk
<1>12. RoomOk(bgs', config.max) /\ SlotsOk(bgs', slots, config.max)
  <2>1. \A c \in Bgs : /\ bgs'[c].status = bgs[c].status /\ bgs'[c].invited = bgs[c].invited
                       /\ bgs[c].players \subseteq bgs'[c].players
    BY <1>5
  <2> QED
    BY <1>5, <2>1, SlotsGrow
<1> QED
  BY <1>5, <1>6, <1>7, <1>8, <1>9, <1>11, <1>12, Facts DEF IInv, Good, Typed

(* One who comes back too late has lost it. *)
LEMMA LoginLateIInv ==
  ASSUME IInv, NEW p \in Players, NEW b \in Bgs, ~pl[p].online, pl[p].bg = b,
         bgs[b].status = "leave", p \in bgs[b].players,
         pl' = [pl EXCEPT ![p].online = TRUE, ![p].bg = NoBg],
         bgs' = Without(b, {p}),
         UNCHANGED <<config, queue, slots, events, updates>>
  PROVE  IInv'
<1> DEFINE gone == {p}
<1>1. PICK w : w = Without(b, gone)
  OBVIOUS
<1>2. /\ w \in [Bgs -> Battlegrounds] /\ \A c \in Bgs \ {b} : w[c] = bgs[c]
      /\ w[b].status = bgs[b].status /\ w[b].players = bgs[b].players \ gone
      /\ \A t \in Teams : w[b].invited[t] = bgs[b].invited[t] - Cardinality(Of(gone, t))
  <2>1. gone \in SUBSET bgs[b].players
    OBVIOUS
  <2> HIDE DEF gone, IInv
  <2> QED
    BY <1>1, <2>1, WithoutIs
<1>3. bgs' = w
  BY <1>1
<1>4. /\ pl' \in [Players -> PlayerStates] /\ \A r \in Players \ gone : pl'[r] = pl[r]
      /\ \A r \in gone : /\ pl'[r].queueId = NoQueue /\ ~pl'[r].transit
                         /\ pl'[r].online => pl'[r].bg = NoBg
  <2>1. pl[p].queueId = NoQueue /\ ~pl[p].transit
    BY Facts DEF PlayerOk
  <2> QED
    BY <2>1, Facts DEF PlayerStates
<1>5. OfflineOk(bgs', pl')
  <2>1. ASSUME NEW c \in Bgs \ {b}, bgs'[c].status # "leave" PROVE AwayOk(bgs', pl', c)
    <3>1. bgs'[c] = bgs[c] /\ bgs[c].status # "leave" /\ pl[p].bg # c
          /\ \A r \in Players \ {p} : pl'[r] = pl[r]
      BY <1>2, <1>3, <1>4, <2>1
    <3> HIDE DEF gone, IInv
    <3> QED
      BY <3>1, LoginAway
  <2> QED
    BY <1>2, <1>3, <2>1 DEF OfflineOk
<1>6. SlotsOk(bgs', slots', config.max)
  <2>1. \A c \in Bgs : bgs'[c].status \in {"join", "progress"} => bgs'[c] = bgs[c]
    BY <1>2, <1>3
  <2> QED
    BY <2>1, Facts DEF SlotsOk
<1>7. /\ bgs' \in [Bgs -> Battlegrounds] /\ \A c \in Bgs \ {b} : bgs'[c] = bgs[c]
      /\ bgs'[b].status = bgs[b].status /\ bgs'[b].players = bgs[b].players \ gone
      /\ \A t \in Teams : bgs'[b].invited[t] = bgs[b].invited[t] - Cardinality(Of(gone, t))
      /\ gone \in SUBSET bgs[b].players /\ bgs[b].status # "none"
  BY <1>2, <1>3
<1> HIDE DEF gone, IInv
<1> QED
  BY <1>4, <1>5, <1>6, <1>7, WithoutIInv

(* One who had no place is free. *)
LEMMA LoginOutsideIInv ==
  ASSUME IInv, NEW p \in Players, ~pl[p].online, \A b \in Bgs : p \notin bgs[b].players,
         pl' = [pl EXCEPT ![p].online = TRUE, ![p].bg = NoBg],
         UNCHANGED <<config, queue, bgs, slots, events, updates>>
  PROVE  IInv'
<1>1. pl[p].queueId = NoQueue /\ ~pl[p].transit /\ p \notin Queued(queue)
  BY Facts DEF PlayerOk
<1>2. /\ pl' \in [Players -> PlayerStates] /\ \A r \in Players \ {p} : pl'[r] = pl[r]
      /\ pl'[p].bg = NoBg /\ ~pl'[p].transit /\ pl'[p].queueId = NoQueue /\ pl'[p].online
  <2>0. pl \in [Players -> PlayerStates]
    BY Facts
  <2> QED
    BY <1>1, <2>0 DEF PlayerStates
<1>3. QueueOk(queue', pl')
  <2>1. \A r \in Queued(queue) : pl'[r] = pl[r]
    BY <1>1, <1>2, Facts
  <2> QED
    BY <2>1, QueueSame
<1>4. PlayersOk(Queued(queue'), bgs', pl')
  <2>1. ASSUME NEW r \in Players PROVE PlayerOk(Queued(queue), bgs', pl', r)
    <3>1. CASE r = p
      BY <1>2, <3>1 DEF PlayerOk
    <3>2. CASE r # p
      <4> DEFINE ps == {p}
      <4>1. /\ r \notin ps /\ pl'[r] = pl[r]
            /\ \A c \in Bgs : r \in bgs'[c].players <=> r \in bgs[c].players
        BY <1>2, <3>2
      <4> HIDE DEF ps, IInv
      <4> QED
        BY <4>1, OthersOk
    <3> QED
      BY <3>1, <3>2
  <2> QED
    BY <2>1 DEF PlayersOk
<1>5. PlacesOk(bgs', pl')
  <2>1. \A c \in Bgs : Claims(bgs', pl', c) = Claims(bgs, pl, c)
    BY <1>1, <1>2, Facts DEF Claims
  <2> HIDE DEF IInv
  <2> QED
    BY <2>1, PlacesSame
<1>6. OfflineOk(bgs', pl')
  <2>1. ASSUME NEW c \in Bgs, bgs[c].status # "leave" PROVE AwayOk(bgs', pl', c)
    <3>1. PICK off : off = bgs[c].offline
      OBVIOUS
    <3>2. /\ \A i \in 1..Len(off) : off[i] \in bgs[c].players /\ off[i] \in Players \ {p}
                                    /\ ~pl[off[i]].online
          /\ \A i \in 1..Len(off), j \in 1..Len(off) : off[i] = off[j] => i = j
      BY <2>1, <3>1, AwayFrom
    <3>3. \A i \in 1..Len(off) : off[i] \in bgs[c].players /\ ~pl'[off[i]].online
      BY <1>2, <3>2
    <3> QED
      BY <3>1, <3>2, <3>3 DEF AwayOk
  <2> QED
    BY <2>1 DEF OfflineOk
<1>7. bgs' = bgs /\ slots' = slots /\ queue' = queue
  OBVIOUS
<1> QED
  BY <1>2, <1>3, <1>4, <1>5, <1>6, <1>7, Facts DEF IInv, Good, Typed

(* Login: the player is inside again, or has lost his place. *)
LEMMA LoginIInv ==
  ASSUME IInv, NEW p \in Players, Login(p)
  PROVE  IInv'
<1>1. PICK b : b = pl[p].bg
  OBVIOUS
<1> DEFINE atBg == Exists(b) /\ p \in bgs[b].players
<1>2. /\ ~pl[p].online
      /\ IF atBg /\ bgs[b].status # "leave"
         THEN /\ bgs' = [bgs EXCEPT ![b].offline = Keep(@, Players \ {p})]
              /\ pl' = [pl EXCEPT ![p].online = TRUE, ![p].queueId = b]
         ELSE /\ bgs' = IF atBg THEN Without(b, {p}) ELSE bgs
              /\ pl' = [pl EXCEPT ![p].online = TRUE, ![p].bg = NoBg]
      /\ UNCHANGED <<config, queue, slots, events, updates>>
  BY <1>1 DEF Login
<1>3. CASE atBg
  <2>1. b \in Bgs /\ bgs[b].status # "none" /\ p \in bgs[b].players
    BY <1>1, <1>3, Facts DEF Exists
  <2>2. CASE bgs[b].status # "leave"
    BY <1>1, <1>2, <1>3, <2>1, <2>2, LoginInsideIInv
  <2>3. CASE bgs[b].status = "leave"
    BY <1>1, <1>2, <1>3, <2>1, <2>3, LoginLateIInv
  <2> QED
    BY <2>2, <2>3
<1>4. CASE ~atBg
  <2>1. ASSUME NEW c \in Bgs, p \in bgs[c].players PROVE FALSE
    <3>1. pl[p].bg = c /\ c # NoBg /\ p \in Claims(bgs, pl, c)
      BY <2>1, Facts DEF PlayerOk, Claims
    <3>2. bgs[c].status # "none"
      BY <3>1, Facts, ClaimedExists
    <3> QED
      BY <1>1, <1>4, <2>1, <3>1, <3>2 DEF Exists
  <2> QED
    BY <1>2, <1>4, <2>1, LoginOutsideIInv
<1> QED
  BY <1>3, <1>4

(* t is what the community modules fold with; of its steps only those from V are
   known. *)
FoldedFrom(t, n, V, base, step) ==
    /\ t[{}] = base
    /\ \A Z \in SUBSET (1..n) : Z # {} /\ t[Z \ {Max(Z)}] \in V =>
            t[Z] = step[Max(Z)][t[Z \ {Max(Z)}]]

(* A fold whose steps stay in V ends in V. *)
LEMMA FoldStays ==
  ASSUME NEW n \in Nat, NEW V, NEW base \in V, NEW step, Steps(step, 1..n, V), NEW t,
         FoldedFrom(t, n, V, base, step)
  PROVE  t[1..n] \in V
<1> DEFINE T == {k \in Nat : k <= n => t[1..k] \in V}
<1>1. 0 \in T
  <2>1. 1..0 = {}
    OBVIOUS
  <2> QED
    BY <2>1 DEF FoldedFrom
<1>2. ASSUME NEW k \in T, k < n PROVE k + 1 \in T
  <2>1. k \in Nat /\ k + 1 \in Nat /\ t[1..k] \in V /\ k + 1 \in 1..n
    BY <1>2
  <2>2. PICK Z \in SUBSET (1..n) : Z = 1..(k + 1)
    BY <1>2
  <2>3. Z # {} /\ Max(Z) = k + 1 /\ Z \ {k + 1} = 1..k
    <3>1. k + 1 \in Z
      BY <2>1, <2>2
    <3> QED
      BY <2>1, <2>2, <3>1, GreatestOfPrefix
  <2>4. t[Z] = step[k + 1][t[1..k]]
    BY <2>1, <2>3 DEF FoldedFrom
  <2>5. t[Z] \in V
    BY <2>1, <2>4 DEF Steps
  <2> QED
    BY <2>1, <2>2, <2>5
<1>3. T \in SUBSET Nat
  OBVIOUS
<1> HIDE DEF T
<1>4. n \in T
  BY <1>1, <1>2, <1>3, PrefixInduction
<1> QED
  BY <1>4 DEF T

(* Groups in G, with at most m players together. *)
Pools(G, m) == {pool \in Seq(Groups) : Range(pool) \subseteq G /\ Count(pool) <= m}

(* What Count says of a pool that a group is added to. *)
LEMMA GroupsCounted ==
  ASSUME NEW pool \in Seq(Groups)
  PROVE  /\ Count(pool) \in Nat /\ Count(<<>>) = 0
         /\ UNION {g.players : g \in Range(pool)} \subseteq Players
         /\ \A g \in Groups : /\ Cardinality(g.players) \in Nat
                              /\ Append(pool, g) \in Seq(Groups)
                              /\ Range(Append(pool, g)) = Range(pool) \cup {g}
                              /\ Count(Append(pool, g)) <= Count(pool) + Cardinality(g.players)
<1>1. Range(pool) \subseteq Groups
  BY RangeOfList
<1>2. UNION {g.players : g \in Range(pool)} \subseteq Players
  BY <1>1 DEF Groups
<1>3. \A S \in SUBSET Players : IsFiniteSet(S) /\ Cardinality(S) \in Nat
  BY ConstantsAssumption, FS_Subset, FS_CardinalityType
<1>4. Count(pool) \in Nat
  BY <1>2, <1>3 DEF Count
<1>5. Count(<<>>) = 0
  <2>1. UNION {g.players : g \in Range(<<>>)} = {}
    BY DEF Range
  <2> QED
    BY <2>1, FS_EmptySet DEF Count
<1>6. ASSUME NEW g \in Groups
      PROVE  /\ Cardinality(g.players) \in Nat
             /\ Append(pool, g) \in Seq(Groups)
             /\ Range(Append(pool, g)) = Range(pool) \cup {g}
             /\ Count(Append(pool, g)) <= Count(pool) + Cardinality(g.players)
  <2>1. g.players \in SUBSET Players
    BY DEF Groups
  <2>2. PICK more \in Seq(Groups) : more = Append(pool, g)
    BY AppendProperties
  <2>3. Range(more) = Range(pool) \cup {g}
    <3>1. Len(more) = Len(pool) + 1 /\ Len(pool) \in Nat
      BY <2>2, LenProperties, AppendProperties
    <3>2. more[Len(pool) + 1] = g /\ \A i \in 1..Len(pool) : more[i] = pool[i]
      BY <2>2, AppendProperties
    <3>3. \A i \in 1..(Len(pool) + 1) : i \in 1..Len(pool) \/ i = Len(pool) + 1
      BY <3>1
    <3>4. \A i \in 1..Len(pool) : i \in 1..(Len(pool) + 1)
      BY <3>1
    <3>5. Len(pool) + 1 \in 1..(Len(pool) + 1)
      BY <3>1
    <3>6. \A x : x \in Range(more) <=> \E i \in 1..(Len(pool) + 1) : more[i] = x
      BY <3>1, RangeOfList
    <3>7. \A x : x \in Range(pool) <=> \E i \in 1..Len(pool) : pool[i] = x
      BY RangeOfList
    <3>8. \A x : x \in Range(more) <=> x \in Range(pool) \/ x = g
      BY <3>2, <3>3, <3>4, <3>5, <3>6, <3>7
    <3> QED
      BY <3>8
  <2> DEFINE all == UNION {h.players : h \in Range(pool)}
  <2>4. UNION {h.players : h \in Range(more)} = all \cup g.players
    BY <2>3
  <2>5. all \in SUBSET Players
    BY <1>2
  <2> HIDE DEF all
  <2>6. Cardinality(all \cup g.players) <= Cardinality(all) + Cardinality(g.players)
    <3>1. /\ IsFiniteSet(all) /\ IsFiniteSet(g.players) /\ Cardinality(all) \in Nat
          /\ Cardinality(g.players) \in Nat /\ Cardinality(all \cap g.players) \in Nat
      BY <1>3, <2>1, <2>5
    <3>2. Cardinality(all \cup g.players) =
            Cardinality(all) + Cardinality(g.players) - Cardinality(all \cap g.players)
      BY <3>1, FS_Union
    <3> QED
      BY <3>1, <3>2
  <2>7. Count(more) <= Count(pool) + Cardinality(g.players)
    BY <2>4, <2>6 DEF Count, all
  <2> QED
    BY <1>3, <2>1, <2>2, <2>3, <2>7
<1> QED
  BY <1>2, <1>4, <1>5, <1>6

(* AddGroup adds a group only if it fits, and only if it is not invited. *)
LEMMA AddStays ==
  ASSUME NEW G, NEW m \in Int, NEW pool \in Pools(G, m), NEW g \in Groups,
         g.bg = NoBg => g \in G, NEW desired \in Int, desired <= m
  PROVE  Add(pool, g, desired) \in Pools(G, m)
<1>1. CASE ~Fits(pool, g, desired)
  BY <1>1 DEF Add
<1>2. CASE Fits(pool, g, desired)
  <2>1. pool \in Seq(Groups) /\ Range(pool) \subseteq G
    BY DEF Pools
  <2>2. PICK more : more = Append(pool, g)
    OBVIOUS
  <2>3. /\ more \in Seq(Groups) /\ Range(more) = Range(pool) \cup {g}
        /\ Count(more) <= Count(pool) + Cardinality(g.players)
        /\ Count(pool) \in Nat /\ Cardinality(g.players) \in Nat /\ Count(more) \in Nat
    BY <2>1, <2>2, GroupsCounted
  <2>4. g \in G /\ Count(pool) + Cardinality(g.players) <= desired
    BY <1>2, <2>3 DEF Fits
  <2>5. Count(more) <= m
    BY <2>3, <2>4
  <2> QED
    BY <1>2, <2>1, <2>2, <2>3, <2>4, <2>5 DEF Add, Pools
<1> QED
  BY <1>1, <1>2

(* Scan: however the loop ends, the pool has no more players than desired. *)
LEMMA ScanStays ==
  ASSUME NEW G, NEW m \in Int, NEW pool \in Pools(G, m), NEW groups \in Seq(Groups),
         \A g \in Range(groups) : g.bg = NoBg => g \in G,
         NEW desired \in Int, desired <= m, NEW skip
  PROVE  Scan(pool, groups, desired, skip) \in Pools(G, m)
<1> DEFINE n == Len(groups)
           V == [pool : Pools(G, m), stop : BOOLEAN]
           base == [pool |-> pool, stop |-> FALSE]
           next(s, g) == IF s.stop \/ (skip /\ g.bg # NoBg) THEN s
                         ELSE [pool |-> Add(s.pool, g, desired),
                               stop |-> ~GoOn(s.pool, g, desired)]
           t == CHOOSE t : t = [Z \in SUBSET DOMAIN groups |->
                   IF Z = {} THEN base ELSE next(t[Z \ {Max(Z)}], groups[Max(Z)])]
           step == [k \in 1..n |-> [s \in V |-> next(s, groups[k])]]
<1>1. Scan(pool, groups, desired, skip) = t[DOMAIN groups].pool
  BY DEF Scan, FoldLeft, MapThenFoldSet
<1>2. n \in Nat /\ DOMAIN groups = 1..n
  BY LenProperties
<1>3. \A k \in 1..n : groups[k] \in Groups /\ (groups[k].bg = NoBg => groups[k] \in G)
  BY RangeOfList
<1>4. ASSUME NEW k \in 1..n, NEW s \in V PROVE next(s, groups[k]) \in V
  <2>1. PICK more : more = Add(s.pool, groups[k], desired)
    OBVIOUS
  <2>2. more \in Pools(G, m)
    <3>1. s.pool \in Pools(G, m)
      OBVIOUS
    <3> QED
      BY <1>3, <2>1, <3>1, AddStays
  <2> QED
    BY <2>1, <2>2
<1>5. base \in V
  OBVIOUS
<1> HIDE DEF V, next, n, base
<1>6. Steps(step, 1..n, V)
  BY <1>4 DEF Steps
<1>7. \A k \in 1..n, s \in V : step[k][s] = next(s, groups[k])
  OBVIOUS
<1> HIDE DEF step
<1>8. PICK u \in [SUBSET (1..n) -> V] : ListFolded(u, n, base, step)
  BY <1>2, <1>5, <1>6, ListFoldExists
<1>9. \A Z \in SUBSET (1..n) : Z # {} =>
          u[Z] = next(u[Z \ {Max(Z)}], groups[Max(Z)])
  <2>1. ASSUME NEW Z \in SUBSET (1..n), Z # {}
        PROVE  u[Z] = next(u[Z \ {Max(Z)}], groups[Max(Z)])
    <3>1. Max(Z) \in 1..n /\ u[Z \ {Max(Z)}] \in V
      BY <1>2, <2>1, Greatest
    <3>2. u[Z] = step[Max(Z)][u[Z \ {Max(Z)}]]
      BY <1>8, <2>1 DEF ListFolded
    <3> QED
      BY <1>7, <3>1, <3>2
  <2> QED
    BY <2>1
<1>10. u = [Z \in SUBSET DOMAIN groups |->
              IF Z = {} THEN base ELSE next(u[Z \ {Max(Z)}], groups[Max(Z)])]
  <2>1. u[{}] = base
    BY <1>8 DEF ListFolded
  <2> QED
    BY <1>2, <1>8, <1>9, <2>1
<1>11. t = [Z \in SUBSET DOMAIN groups |->
              IF Z = {} THEN base ELSE next(t[Z \ {Max(Z)}], groups[Max(Z)])]
  BY <1>10
<1> HIDE DEF t
<1>12. t[{}] = base
  BY <1>11
<1>13. \A Z \in SUBSET (1..n) : Z # {} /\ t[Z \ {Max(Z)}] \in V =>
          t[Z] = step[Max(Z)][t[Z \ {Max(Z)}]]
  <2>1. ASSUME NEW Z \in SUBSET (1..n), Z # {}, t[Z \ {Max(Z)}] \in V
        PROVE  t[Z] = step[Max(Z)][t[Z \ {Max(Z)}]]
    <3>1. Max(Z) \in 1..n
      BY <1>2, <2>1, Greatest
    <3>2. t[Z] = next(t[Z \ {Max(Z)}], groups[Max(Z)])
      BY <1>2, <1>11, <2>1
    <3> QED
      BY <1>7, <2>1, <3>1, <3>2
  <2> QED
    BY <2>1
<1>14. t[1..n] \in V
  <2>1. FoldedFrom(t, n, V, base, step)
    BY <1>12, <1>13 DEF FoldedFrom
  <2> QED
    BY <1>2, <1>5, <1>6, <2>1, FoldStays
<1> QED
  BY <1>1, <1>2, <1>14 DEF V

(* Enough: the pool has no more than MaxPlayers, the rest is from the list. *)
LEMMA EnoughStays ==
  ASSUME NEW G, MaxPlayers \in Nat, NEW groups \in Seq(Groups),
         \A g \in Range(groups) : g.bg = NoBg => g \in G
  PROVE  /\ Enough(groups).pool \in Pools(G, MaxPlayers)
         /\ Enough(groups).rest \in Seq(Groups)
         /\ Range(Enough(groups).rest) \subseteq Range(groups)
<1> DEFINE n == Len(groups)
           m == MaxPlayers
           Rests == {rest \in Seq(Groups) : Range(rest) \subseteq Range(groups)}
           V == [pool : Pools(G, m), rest : Rests]
           base == [pool |-> <<>>, rest |-> <<>>]
           next(r, g) == IF Count(r.pool) >= MinPlayers THEN [r EXCEPT !.rest = Append(@, g)]
                         ELSE IF g.bg # NoBg THEN r
                         ELSE [r EXCEPT !.pool = Add(@, g, m)]
           t == CHOOSE t : t = [Z \in SUBSET DOMAIN groups |->
                   IF Z = {} THEN base ELSE next(t[Z \ {Max(Z)}], groups[Max(Z)])]
           step == [k \in 1..n |-> [r \in V |-> next(r, groups[k])]]
<1>1. Enough(groups) = t[DOMAIN groups]
  BY DEF Enough, FoldLeft, MapThenFoldSet
<1>2. n \in Nat /\ DOMAIN groups = 1..n
  BY LenProperties
<1>3. \A k \in 1..n : /\ groups[k] \in Groups /\ groups[k] \in Range(groups)
                      /\ groups[k].bg = NoBg => groups[k] \in G
  BY RangeOfList
<1>4. ASSUME NEW k \in 1..n, NEW r \in V PROVE next(r, groups[k]) \in V
  <2>1. PICK pool, rest : pool \in Pools(G, m) /\ rest \in Rests
                          /\ r = [pool |-> pool, rest |-> rest]
    OBVIOUS
  <2>2. PICK more : more = Add(pool, groups[k], m)
    OBVIOUS
  <2>3. more \in Pools(G, m)
    <3>1. m \in Int /\ m <= m
      OBVIOUS
    <3> QED
      BY <1>3, <2>1, <2>2, <3>1, AddStays
  <2>4. PICK longer : longer = Append(rest, groups[k])
    OBVIOUS
  <2>5. longer \in Rests
    <3>1. /\ longer \in Seq(Groups)
          /\ Range(longer) = Range(rest) \cup {groups[k]}
      BY <1>3, <2>1, <2>4, GroupsCounted
    <3> QED
      BY <1>3, <2>1, <3>1
  <2> HIDE DEF Rests
  <2>6. [r EXCEPT !.rest = Append(@, groups[k])] = [pool |-> pool, rest |-> longer]
    <3>1. r.rest = rest /\ r.pool = pool
      BY <2>1
    <3>2. Append(r.rest, groups[k]) = longer
      BY <2>4, <3>1
    <3>3. [r EXCEPT !.rest = longer] = [pool |-> pool, rest |-> longer]
      BY <2>1
    <3> QED
      BY ONLY <3>2, <3>3, Zenon
  <2>7. [r EXCEPT !.pool = Add(@, groups[k], m)] = [pool |-> more, rest |-> rest]
    BY <2>1, <2>2
  <2> QED
    BY <2>1, <2>3, <2>5, <2>6, <2>7
<1>5. base \in V
  <2>1. <<>> \in Seq(Groups) /\ Range(<<>>) = {}
    BY DEF Range
  <2>2. Count(<<>>) = 0
    BY <2>1, GroupsCounted
  <2> QED
    BY <2>1, <2>2 DEF Pools
<1> HIDE DEF V, next, n, base
<1>6. Steps(step, 1..n, V)
  BY <1>4 DEF Steps
<1>7. \A k \in 1..n, s \in V : step[k][s] = next(s, groups[k])
  OBVIOUS
<1> HIDE DEF step
<1>8. PICK u \in [SUBSET (1..n) -> V] : ListFolded(u, n, base, step)
  BY <1>2, <1>5, <1>6, ListFoldExists
<1>9. \A Z \in SUBSET (1..n) : Z # {} =>
          u[Z] = next(u[Z \ {Max(Z)}], groups[Max(Z)])
  <2>1. ASSUME NEW Z \in SUBSET (1..n), Z # {}
        PROVE  u[Z] = next(u[Z \ {Max(Z)}], groups[Max(Z)])
    <3>1. Max(Z) \in 1..n /\ u[Z \ {Max(Z)}] \in V
      BY <1>2, <2>1, Greatest
    <3>2. u[Z] = step[Max(Z)][u[Z \ {Max(Z)}]]
      BY <1>8, <2>1 DEF ListFolded
    <3> QED
      BY <1>7, <3>1, <3>2
  <2> QED
    BY <2>1
<1>10. u = [Z \in SUBSET DOMAIN groups |->
              IF Z = {} THEN base ELSE next(u[Z \ {Max(Z)}], groups[Max(Z)])]
  <2>1. u[{}] = base
    BY <1>8 DEF ListFolded
  <2> QED
    BY <1>2, <1>8, <1>9, <2>1
<1>11. t = [Z \in SUBSET DOMAIN groups |->
              IF Z = {} THEN base ELSE next(t[Z \ {Max(Z)}], groups[Max(Z)])]
  BY <1>10
<1> HIDE DEF t
<1>12. t[{}] = base
  BY <1>11
<1>13. \A Z \in SUBSET (1..n) : Z # {} /\ t[Z \ {Max(Z)}] \in V =>
          t[Z] = step[Max(Z)][t[Z \ {Max(Z)}]]
  <2>1. ASSUME NEW Z \in SUBSET (1..n), Z # {}, t[Z \ {Max(Z)}] \in V
        PROVE  t[Z] = step[Max(Z)][t[Z \ {Max(Z)}]]
    <3>1. Max(Z) \in 1..n
      BY <1>2, <2>1, Greatest
    <3>2. t[Z] = next(t[Z \ {Max(Z)}], groups[Max(Z)])
      BY <1>2, <1>11, <2>1
    <3> QED
      BY <1>7, <2>1, <3>1, <3>2
  <2> QED
    BY <2>1
<1>14. t[1..n] \in V
  <2>1. FoldedFrom(t, n, V, base, step)
    BY <1>12, <1>13 DEF FoldedFrom
  <2> QED
    BY <1>2, <1>5, <1>6, <2>1, FoldStays
<1> QED
  BY <1>1, <1>2, <1>14 DEF V

(* The groups of a team that are not invited. *)
Uninvited(q, t) == {g \in Groups : /\ g.bg = NoBg
                                   /\ \E l \in Lists : l[2] = t /\ g \in Range(q[l])}

(* One list of a team. *)
LEMMA UninvitedList ==
  ASSUME NEW q \in [Lists -> Seq(Groups)], NEW kind \in {"premade", "normal"}, NEW t \in Teams
  PROVE  /\ <<kind, t>> \in Lists /\ <<kind, t>>[2] = t
         /\ q[<<kind, t>>] \in Seq(Groups)
         /\ Range(q[<<kind, t>>]) \subseteq Groups
         /\ \A g \in Range(q[<<kind, t>>]) : g.bg = NoBg => g \in Uninvited(q, t)
<1>1. <<kind, t>> \in Lists /\ <<kind, t>>[2] = t
  BY DEF Lists
<1>2. q[<<kind, t>>] \in Seq(Groups)
  BY <1>1
<1>3. Range(q[<<kind, t>>]) \subseteq Groups
  BY <1>2, RangeOfList
<1>4. ASSUME NEW g \in Range(q[<<kind, t>>]), g.bg = NoBg PROVE g \in Uninvited(q, t)
  BY <1>1, <1>3, <1>4 DEF Uninvited
<1> QED
  BY <1>1, <1>2, <1>3, <1>4

(* The pools of a new battleground. *)
LEMMA NormalPoolsOk ==
  ASSUME NEW s, s.queue \in [Lists -> Seq(Groups)], MaxPlayers \in Nat
  PROVE  NormalPools(s) \in [Teams -> Seq(Groups)]
         /\ \A t \in Teams : NormalPools(s)[t] \in Pools(Uninvited(s.queue, t), MaxPlayers)
<1> DEFINE first == [t \in Teams |-> Enough(s.queue[<<"normal", t>>])]
           few == IF Count(first["horde"].pool) < Count(first["alliance"].pool)
                  THEN "horde" ELSE "alliance"
           top == Scan(first[few].pool, first[few].rest,
                       Count(first[Other(few)].pool), TRUE)
           both == \A t \in Teams : Count(first[t].pool) >= MinPlayers
<1>1. NormalPools(s) = [t \in Teams |-> IF both /\ config.balance # NoBalance /\ t = few
                                        THEN top ELSE first[t].pool]
  BY DEF NormalPools
<1> HIDE DEF both
<1>2. ASSUME NEW t \in Teams
      PROVE  /\ first[t].pool \in Pools(Uninvited(s.queue, t), MaxPlayers)
             /\ first[t].rest \in Seq(Groups)
             /\ \A g \in Range(first[t].rest) : g.bg = NoBg => g \in Uninvited(s.queue, t)
  <2>1. PICK list : list = s.queue[<<"normal", t>>]
    OBVIOUS
  <2>2. /\ list \in Seq(Groups)
        /\ \A g \in Range(list) : g.bg = NoBg => g \in Uninvited(s.queue, t)
    BY <2>1, UninvitedList
  <2>3. first[t] = Enough(list)
    BY <2>1
  <2> QED
    BY <2>2, <2>3, EnoughStays
<1> HIDE DEF first
<1>3. few \in Teams
  BY DEF Teams
<1> HIDE DEF few
<1>5. top \in Pools(Uninvited(s.queue, few), MaxPlayers)
  <2>1. Other(few) \in Teams
    BY DEF Other, Teams
  <2>2. PICK d : d = Count(first[Other(few)].pool)
    OBVIOUS
  <2>3. d \in Int /\ d <= MaxPlayers
    BY <1>2, <2>1, <2>2, GroupsCounted DEF Pools
  <2>4. MaxPlayers \in Int
    OBVIOUS
  <2> HIDE DEF MaxPlayers
  <2> QED
    BY <1>2, <1>3, <2>2, <2>3, <2>4, ScanStays
<1> HIDE DEF top
<1>8. ASSUME NEW t \in Teams
      PROVE  NormalPools(s)[t] \in Pools(Uninvited(s.queue, t), MaxPlayers)
  BY <1>1, <1>2, <1>5
<1> QED
  BY <1>1, <1>8 DEF Pools

(* CheckPremadeMatch fills no pool beyond the size of a team. *)
LEMMA PremadePoolsOk ==
  ASSUME NEW s, s.queue \in [Lists -> Seq(Groups)], MaxPlayers \in Nat, PremadeMatch(s)
  PROVE  PremadePools(s) \in [Teams -> Seq(Groups)]
         /\ \A t \in Teams : PremadePools(s)[t] \in Pools(Uninvited(s.queue, t), MaxPlayers)
<1>1. PICK first : first = [t \in Teams |->
                              Add(<<>>, Head(Waiting(s.queue[<<"premade", t>>])), MaxPlayers)]
  OBVIOUS
<1>2. ASSUME NEW t \in Teams
      PROVE  first[t] \in Pools(Uninvited(s.queue, t), MaxPlayers)
  <2>1. PICK list : list = s.queue[<<"premade", t>>]
    OBVIOUS
  <2>2. /\ list \in Seq(Groups) /\ Range(list) \subseteq Groups
        /\ \A g \in Range(list) : g.bg = NoBg => g \in Uninvited(s.queue, t)
    BY <2>1, UninvitedList
  <2>3. PICK wait : wait = Waiting(list)
    OBVIOUS
  <2>4. /\ wait \in Seq(Groups)
        /\ \A g \in Range(wait) : g \in Range(list) /\ g.bg = NoBg
    BY <2>2, <2>3, KeepHas DEF Waiting
  <2>5. wait # <<>>
    BY <2>1, <2>3 DEF PremadeMatch
  <2>6. PICK g : g = Head(wait)
    OBVIOUS
  <2>7. g \in Range(wait)
    <3>1. Len(wait) >= 1 /\ Len(wait) \in Nat
      BY <2>4, <2>5, LenProperties, EmptySeq
    <3>2. g = wait[1] /\ 1 \in 1..Len(wait)
      BY <2>4, <2>5, <2>6, <3>1
    <3> QED
      BY <2>4, <3>2, RangeOfList
  <2>8. g \in Groups /\ g \in Uninvited(s.queue, t)
    BY <2>2, <2>4, <2>7
  <2>9. <<>> \in Pools(Uninvited(s.queue, t), MaxPlayers)
    <3>1. <<>> \in Seq(Groups) /\ Range(<<>>) = {}
      BY DEF Range
    <3>2. Count(<<>>) = 0
      BY <3>1, GroupsCounted
    <3> QED
      BY <3>1, <3>2 DEF Pools
  <2>10. Add(<<>>, g, MaxPlayers) \in Pools(Uninvited(s.queue, t), MaxPlayers)
    <3>1. MaxPlayers \in Int /\ MaxPlayers <= MaxPlayers
      OBVIOUS
    <3> HIDE DEF MaxPlayers
    <3> QED
      BY <2>8, <2>9, <3>1, AddStays
  <2> QED
    BY <1>1, <2>1, <2>3, <2>6, <2>10
<1>3. PICK size : size = Least(Count(first["alliance"]), Count(first["horde"]))
  OBVIOUS
<1>4. size \in Int /\ size <= MaxPlayers
  <2>1. \A t \in Teams : Count(first[t]) \in Nat /\ Count(first[t]) <= MaxPlayers
    BY <1>2, GroupsCounted DEF Pools
  <2> QED
    BY <1>3, <2>1 DEF Least, Teams
<1>5. PremadePools(s) = [t \in Teams |-> Scan(first[t], s.queue[<<"normal", t>>], size, TRUE)]
  BY <1>1, <1>3 DEF PremadePools
<1>6. ASSUME NEW t \in Teams
      PROVE  PremadePools(s)[t] \in Pools(Uninvited(s.queue, t), MaxPlayers)
  <2>1. PICK list : list = s.queue[<<"normal", t>>]
    OBVIOUS
  <2>2. /\ list \in Seq(Groups)
        /\ \A g \in Range(list) : g.bg = NoBg => g \in Uninvited(s.queue, t)
    BY <2>1, UninvitedList
  <2>3. MaxPlayers \in Int
    OBVIOUS
  <2> HIDE DEF MaxPlayers
  <2>4. Scan(first[t], list, size, TRUE) \in Pools(Uninvited(s.queue, t), MaxPlayers)
    BY <1>2, <1>4, <2>2, <2>3, ScanStays
  <2> QED
    BY <1>5, <2>1, <2>4
<1> QED
  BY <1>5, <1>6 DEF Pools

(* The pools of a battleground that has free places: no more than it has. *)
LEMMA FillPlayersOk ==
  ASSUME NEW s, s.queue \in [Lists -> Seq(Groups)], config \in Settings,
         NEW b \in Bgs, s.bgs[b] \in Battlegrounds,
         \A t \in Teams : 0 <= s.bgs[b].invited[t] /\ s.bgs[b].invited[t] <= MaxPlayers
  PROVE  FillPlayersToBG(s, b) \in [Teams -> Seq(Groups)]
         /\ \A t \in Teams : FillPlayersToBG(s, b)[t] \in
                Pools(Uninvited(s.queue, t), MaxPlayers - s.bgs[b].invited[t])
<1>1. config.max \in Nat /\ config.min \in Nat /\ config.balance \in 0..2
  BY ConstantsAssumption
<1>2. PICK bg \in Battlegrounds : bg = s.bgs[b]
  OBVIOUS
<1>3. ASSUME NEW t \in Teams
      PROVE  /\ GetFreeSlotsForTeam(bg, t) \in Int
             /\ GetFreeSlotsForTeam(bg, t) <= MaxPlayers - bg.invited[t]
  <2>1. Other(t) \in Teams
    BY DEF Other, Teams
  <2>2. /\ bg.invited[t] \in Int /\ bg.invited[Other(t)] \in Int
        /\ 0 <= bg.invited[t] /\ bg.invited[t] <= config.max
    BY <1>2, <2>1 DEF Battlegrounds, MaxPlayers
  <2>3. \A x \in Teams : Cardinality(Of(bg.players, x)) \in Nat
    BY OfCounts DEF Battlegrounds
  <2>4. PICK room : room = Diff(bg.invited[t], MaxPlayers)
    OBVIOUS
  <2>5. room \in Int /\ room = config.max - bg.invited[t]
    BY <1>1, <2>2, <2>4 DEF Diff, MaxPlayers
  <2>6. PICK diff : diff = IF bg.invited[Other(t)] = bg.invited[t] THEN 1
                           ELSE Diff(bg.invited[t], bg.invited[Other(t)])
    OBVIOUS
  <2>7. diff \in Int
    BY <2>2, <2>6 DEF Diff
  <2>8. PICK ins \in [Teams -> Nat] : \A x \in Teams : ins[x] = Cardinality(Of(bg.players, x))
    <3>1. [x \in Teams |-> Cardinality(Of(bg.players, x))] \in [Teams -> Nat]
      BY <2>3
    <3> QED
      BY <3>1
  <2>9. PICK diff3 : diff3 = IF ins[Other(t)] = ins[t] THEN 1
                             ELSE IF ins[Other(t)] > ins[t] THEN ins[Other(t)] - ins[t]
                             ELSE IF bg.invited[t] <= MinPlayers
                                  THEN MinPlayers - bg.invited[t] + 1 ELSE 0
    OBVIOUS
  <2>10. diff3 \in Int
    <3>1. ins[Other(t)] \in Nat /\ ins[t] \in Nat
      BY <2>1, <2>8
    <3> QED
      BY <1>1, <2>2, <2>9, <3>1 DEF MinPlayers
  <2>11. GetFreeSlotsForTeam(bg, t) =
           IF bg.status = "join" /\ config.balance = NoBalance THEN room
           ELSE Least(diff, Least(room, diff3))
    BY <2>1, <2>4, <2>6, <2>8, <2>9 DEF GetFreeSlotsForTeam
  <2>12. Least(diff, Least(room, diff3)) \in Int /\ Least(diff, Least(room, diff3)) <= room
    BY <2>5, <2>7, <2>10 DEF Least
  <2> QED
    BY <2>5, <2>11, <2>12 DEF MaxPlayers
<1>4. PICK lists : lists = [t \in Teams |-> s.queue[<<"normal", t>>]]
  OBVIOUS
<1>5. \A t \in Teams : /\ lists[t] \in Seq(Groups) /\ Len(lists[t]) \in Nat
                       /\ \A g \in Range(lists[t]) : g.bg = NoBg => g \in Uninvited(s.queue, t)
  BY <1>4, UninvitedList, LenProperties
<1>6. PICK free : free = [t \in Teams |-> GetFreeSlotsForTeam(bg, t)]
  OBVIOUS
<1>7. PICK even : even = (config.balance = Even /\ \A t \in Teams : free[t] = 1)
  OBVIOUS
<1>8. PICK places : places = [t \in Teams |->
                       IF even THEN Diff(Diff(Len(lists[Other(t)]), Len(lists[t])), 1)
                               ELSE free[t]]
  OBVIOUS
<1>9. FillPlayersToBG(s, b) = [t \in Teams |-> Scan(<<>>, lists[t], places[t], FALSE)]
  <2>1. \A t \in Teams : Other(t) \in Teams
    BY DEF Other, Teams
  <2> QED
    BY <1>2, <1>4, <1>6, <1>7, <1>8, <2>1 DEF FillPlayersToBG
<1>10. ASSUME NEW t \in Teams
       PROVE  places[t] \in Int /\ places[t] <= MaxPlayers - bg.invited[t]
  <2>1. Other(t) \in Teams
    BY DEF Other, Teams
  <2>2. free[t] \in Int /\ free[t] <= MaxPlayers - bg.invited[t]
    BY <1>3, <1>6
  <2>3. CASE even
    <3>1. free[t] = 1
      BY <1>7, <2>3
    <3>2. PICK x, y : x = Len(lists[Other(t)]) /\ y = Len(lists[t])
      OBVIOUS
    <3>3. x \in Nat /\ y \in Nat
      BY <1>5, <2>1, <3>2
    <3>4. Diff(Diff(x, y), 1) \in Int /\ Diff(Diff(x, y), 1) <= 1
      BY <3>3 DEF Diff
    <3>5. places[t] = Diff(Diff(x, y), 1)
      BY <1>8, <2>3, <3>2
    <3>6. bg.invited[t] \in Int /\ MaxPlayers \in Int
      BY <1>1 DEF Battlegrounds, MaxPlayers
    <3> QED
      BY <2>2, <3>1, <3>4, <3>5, <3>6
  <2>4. CASE ~even
    BY <1>8, <2>2, <2>4
  <2> QED
    BY <2>3, <2>4
<1>11. ASSUME NEW t \in Teams
       PROVE  FillPlayersToBG(s, b)[t] \in Pools(Uninvited(s.queue, t), MaxPlayers - bg.invited[t])
  <2>1. PICK m \in Int : m = MaxPlayers - bg.invited[t]
    BY <1>1 DEF Battlegrounds, MaxPlayers
  <2>2. 0 <= m
    BY <1>1, <1>2, <2>1 DEF Battlegrounds, MaxPlayers
  <2>3. <<>> \in Pools(Uninvited(s.queue, t), m)
    <3>1. <<>> \in Seq(Groups) /\ Range(<<>>) = {}
      BY DEF Range
    <3>2. Count(<<>>) = 0
      BY <3>1, GroupsCounted
    <3> QED
      BY <2>2, <3>1, <3>2 DEF Pools
  <2>4. Scan(<<>>, lists[t], places[t], FALSE) \in Pools(Uninvited(s.queue, t), m)
    <3>1. places[t] \in Int /\ places[t] <= m
      BY <1>10, <2>1
    <3> QED
      BY <1>5, <2>3, <3>1, ScanStays
  <2> QED
    BY <1>9, <2>1, <2>4
<1> QED
  BY <1>2, <1>9, <1>11 DEF Pools

(* The groups of both pools. *)
Chosen(pools) == Range(pools["alliance"]) \cup Range(pools["horde"])

ChosenPlayers(pools) == UNION {g.players : g \in Chosen(pools)}

(* Who is in the pools: players who are queued, not invited and online; a group
   is chosen as a whole; and a pool counts its team's players among them. *)
LEMMA ChosenAre ==
  ASSUME NEW q \in [Lists -> Seq(Groups)], NEW P, QueueOk(q, P),
         NEW pools \in [Teams -> Seq(Groups)],
         \A t \in Teams : Range(pools[t]) \subseteq Uninvited(q, t)
  PROVE  /\ ChosenPlayers(pools) \subseteq Queued(q)
         /\ \A g \in Chosen(pools) : \E l \in Lists : \E i \in Positions(q, l) : q[l][i] = g
         /\ \A p \in ChosenPlayers(pools) : /\ P[p].queueId = NoBg /\ P[p].bg = NoBg
                                            /\ P[p].online /\ ~P[p].transit
         /\ \A l \in Lists : \A i \in Positions(q, l) : \A p \in q[l][i].players :
                p \in ChosenPlayers(pools) <=> q[l][i] \in Chosen(pools)
         /\ \A t \in Teams : Cardinality(Of(ChosenPlayers(pools), t)) = Count(pools[t])
<1> DEFINE ps == ChosenPlayers(pools)
<1>1. \A g \in Chosen(pools) : \E t \in Teams : g \in Range(pools[t]) /\ g \in Uninvited(q, t)
  BY DEF Chosen, Teams
<1>2. ASSUME NEW t \in Teams, NEW g \in Uninvited(q, t)
      PROVE  /\ g \in Groups /\ g.bg = NoBg
             /\ \E l \in Lists : \E i \in Positions(q, l) : l[2] = t /\ q[l][i] = g
  <2>1. PICK l \in Lists : l[2] = t /\ g \in Range(q[l])
    BY DEF Uninvited
  <2>2. q[l] \in Seq(Groups)
    OBVIOUS
  <2>3. PICK i \in 1..Len(q[l]) : q[l][i] = g
    BY <2>1, <2>2, RangeOfList
  <2> QED
    BY <2>1, <2>3 DEF Uninvited, Positions
<1>3. \A g \in Chosen(pools) : g \in Groups /\ g.bg = NoBg
                               /\ \E l \in Lists : \E i \in Positions(q, l) : q[l][i] = g
  BY <1>1, <1>2
<1>4. \A p \in ps : \E g \in Chosen(pools) : p \in g.players
  BY DEF ChosenPlayers
<1>5. \A g \in Chosen(pools) : \A p \in g.players : p \in ps
  BY DEF ChosenPlayers
<1> HIDE DEF ps
<1>6. ps \subseteq Queued(q)
  <2> SUFFICES ASSUME NEW p \in ps PROVE p \in Queued(q)
    OBVIOUS
  <2>1. PICK g \in Chosen(pools) : p \in g.players
    BY <1>4
  <2>2. PICK l \in Lists : \E i \in Positions(q, l) : q[l][i] = g
    BY <1>3
  <2>3. p \in Players
    BY <1>3, <2>1 DEF Groups
  <2> QED
    BY <2>1, <2>2, <2>3 DEF Queued
<1>7. \A p \in ps : /\ P[p].queueId = NoBg /\ P[p].bg = NoBg
                    /\ P[p].online /\ ~P[p].transit
  <2> SUFFICES ASSUME NEW p \in ps
               PROVE  /\ P[p].queueId = NoBg /\ P[p].bg = NoBg
                      /\ P[p].online /\ ~P[p].transit
    OBVIOUS
  <2>1. PICK g \in Chosen(pools) : p \in g.players
    BY <1>4
  <2>2. PICK l \in Lists : \E i \in Positions(q, l) : q[l][i] = g /\ g.bg = NoBg
    BY <1>3
  <2> QED
    BY <2>1, <2>2 DEF QueueOk
<1>8. \A l \in Lists : \A i \in Positions(q, l) : \A p \in q[l][i].players :
         p \in ps <=> q[l][i] \in Chosen(pools)
  <2> SUFFICES ASSUME NEW l \in Lists, NEW i \in Positions(q, l), NEW p \in q[l][i].players,
                      p \in ps
               PROVE  q[l][i] \in Chosen(pools)
    BY <1>5
  <2>1. PICK g \in Chosen(pools) : p \in g.players
    BY <1>4
  <2>2. PICK m \in Lists : \E j \in Positions(q, m) : q[m][j] = g
    BY <1>3
  <2>3. PICK j \in Positions(q, m) : q[m][j] = g
    BY <2>2
  <2>4. m = l /\ j = i
    BY <2>1, <2>3 DEF QueueOk, OneGroup
  <2> QED
    BY <2>3, <2>4
<1>9. ASSUME NEW t \in Teams
      PROVE  Cardinality(Of(ps, t)) = Count(pools[t])
  <2>1. ASSUME NEW r \in Teams, NEW g \in Range(pools[r]), NEW p \in g.players
        PROVE  Team[p] = r
    <3>1. g \in Uninvited(q, r)
      OBVIOUS
    <3>2. PICK l \in Lists : \E i \in Positions(q, l) : l[2] = r /\ q[l][i] = g
      BY <1>2, <3>1
    <3> QED
      BY <3>2 DEF QueueOk
  <2>2. \A p : p \in Of(ps, t) <=> p \in UNION {g.players : g \in Range(pools[t])}
    <3>1. ASSUME NEW p \in Of(ps, t) PROVE p \in UNION {g.players : g \in Range(pools[t])}
      <4>1. PICK g \in Chosen(pools) : p \in g.players
        BY <1>4 DEF Of
      <4>2. PICK r \in Teams : g \in Range(pools[r])
        BY <1>1
      <4>3. r = t
        BY <2>1, <4>1, <4>2 DEF Of
      <4> QED
        BY <4>1, <4>2, <4>3
    <3>2. ASSUME NEW g \in Range(pools[t]), NEW p \in g.players PROVE p \in Of(ps, t)
      <4>1. g \in Chosen(pools)
        BY DEF Chosen, Teams
      <4> QED
        BY <1>5, <2>1, <4>1 DEF Of
    <3> QED
      BY <3>1, <3>2
  <2>3. Of(ps, t) = UNION {g.players : g \in Range(pools[t])}
    BY <2>2
  <2> QED
    BY <2>3 DEF Count
<1> QED
  BY <1>3, <1>6, <1>7, <1>8, <1>9 DEF ps

(* The queue, the battlegrounds and the players after the groups in the pools are
   invited to b. *)
Invited(q, B, P, q2, B2, P2, b, pools, ps) ==
    /\ ps = ChosenPlayers(pools) /\ q2 \in [Lists -> Seq(Groups)]
    /\ \A l \in Lists : Len(q2[l]) = Len(q[l])
    /\ \A l \in Lists : \A i \in Positions(q, l) :
        /\ q2[l][i].players = q[l][i].players
        /\ q2[l][i].bg = IF q[l][i] \in Chosen(pools) THEN b ELSE q[l][i].bg
    /\ B2 \in [Bgs -> Battlegrounds] /\ \A c \in Bgs \ {b} : B2[c] = B[c]
    /\ B2[b].status = B[b].status /\ B2[b].players = B[b].players
    /\ B2[b].offline = B[b].offline
    /\ \A t \in Teams : B2[b].invited[t] = B[b].invited[t] + Cardinality(Of(ps, t))
    /\ P2 \in [Players -> PlayerStates] /\ \A p \in Players \ ps : P2[p] = P[p]
    /\ \A p \in ps : /\ P2[p].queueId = b /\ P2[p].online = P[p].online
                     /\ P2[p].transit = P[p].transit /\ P2[p].bg = P[p].bg

(* Groups who wait are invited to a battleground that has places for them. *)
LEMMA InvitedGood ==
  ASSUME NEW q, NEW B, NEW P, NEW S, NEW max, Good(q, B, P, S, max),
         NEW b \in Bgs, B[b].status # "none",
         NEW pools \in [Teams -> Seq(Groups)],
         \A t \in Teams : Range(pools[t]) \subseteq Uninvited(q, t),
         \A t \in Teams : B[b].invited[t] + Count(pools[t]) <= max,
         NEW ps, NEW q2, NEW B2, NEW P2, Invited(q, B, P, q2, B2, P2, b, pools, ps)
  PROVE  Good(q2, B2, P2, S, max)
<1>1. /\ q \in [Lists -> Seq(Groups)] /\ B \in [Bgs -> Battlegrounds]
      /\ P \in [Players -> PlayerStates] /\ QueueOk(q, P) /\ PlayersOk(Queued(q), B, P)
      /\ PlacesOk(B, P) /\ RoomOk(B, max) /\ OfflineOk(B, P) /\ SlotsOk(B, S, max)
  BY DEF Good, Typed
<1>0. /\ ps = ChosenPlayers(pools) /\ q2 \in [Lists -> Seq(Groups)]
      /\ \A l \in Lists : Len(q2[l]) = Len(q[l])
      /\ \A l \in Lists : \A i \in Positions(q, l) :
         /\ q2[l][i].players = q[l][i].players
         /\ q2[l][i].bg = IF q[l][i] \in Chosen(pools) THEN b ELSE q[l][i].bg
      /\ B2 \in [Bgs -> Battlegrounds] /\ \A c \in Bgs \ {b} : B2[c] = B[c]
      /\ B2[b].status = B[b].status /\ B2[b].players = B[b].players
      /\ B2[b].offline = B[b].offline
      /\ \A t \in Teams : B2[b].invited[t] = B[b].invited[t] + Cardinality(Of(ps, t))
      /\ P2 \in [Players -> PlayerStates] /\ \A p \in Players \ ps : P2[p] = P[p]
      /\ \A p \in ps : /\ P2[p].queueId = b /\ P2[p].online = P[p].online
                       /\ P2[p].transit = P[p].transit /\ P2[p].bg = P[p].bg
  BY DEF Invited
<1> USE <1>0
<1>2. /\ ps \subseteq Queued(q)
      /\ \A p \in ps : P[p].queueId = NoBg /\ P[p].bg = NoBg /\ P[p].online /\ ~P[p].transit
      /\ \A l \in Lists : \A i \in Positions(q, l) : \A p \in q[l][i].players :
             p \in ps <=> q[l][i] \in Chosen(pools)
      /\ \A t \in Teams : Cardinality(Of(ps, t)) = Count(pools[t])
  <2>1. /\ q \in [Lists -> Seq(Groups)] /\ QueueOk(q, P) /\ pools \in [Teams -> Seq(Groups)]
        /\ \A t \in Teams : Range(pools[t]) \subseteq Uninvited(q, t)
    BY <1>1
  <2>2. /\ ChosenPlayers(pools) \subseteq Queued(q)
        /\ \A p \in ChosenPlayers(pools) : /\ P[p].queueId = NoBg /\ P[p].bg = NoBg
                                            /\ P[p].online /\ ~P[p].transit
        /\ \A l \in Lists : \A i \in Positions(q, l) : \A p \in q[l][i].players :
                p \in ChosenPlayers(pools) <=> q[l][i] \in Chosen(pools)
        /\ \A t \in Teams : Cardinality(Of(ChosenPlayers(pools), t)) = Count(pools[t])
    BY ONLY <2>1, ChosenAre
  <2> QED
    BY <2>2
<1>3. ps \subseteq Players /\ Queued(q) \subseteq Players
  BY <1>2 DEF Queued
<1>4. \A c \in Bgs : c # NoBg /\ c # NoQueue
  BY ConstantsAssumption DEF Bgs, NoBg, NoQueue
<1>5. \A l \in Lists : Positions(q2, l) = Positions(q, l)
  BY DEF Positions
<1>6. \A l \in Lists : \A i \in Positions(q2, l) : q2[l][i].players = q[l][i].players
  BY <1>5
<1>7. Queued(q2) = Queued(q)
  <2>1. ASSUME NEW l \in Lists, NEW p
        PROVE  (\E i \in Positions(q2, l) : p \in q2[l][i].players) <=>
                  \E i \in Positions(q, l) : p \in q[l][i].players
    <3>1. /\ Positions(q2, l) = Positions(q, l)
          /\ \A i \in Positions(q2, l) : q2[l][i].players = q[l][i].players
      BY ONLY <1>5, <1>6, l \in Lists
    <3> QED
      BY ONLY <3>1
  <2> QED
    BY ONLY <2>1 DEF Queued
<1>8. QueueOk(q2, P2)
  <2>1. OneGroup(q2)
    <3>1. OneGroup(q)
      BY <1>1 DEF QueueOk
    <3> SUFFICES ASSUME NEW l \in Lists, NEW m \in Lists,
                        NEW i \in Positions(q2, l), NEW j \in Positions(q2, m),
                        NEW p \in q2[l][i].players, p \in q2[m][j].players
                 PROVE  l = m /\ i = j
      BY DEF OneGroup
    <3>2. i \in Positions(q, l) /\ j \in Positions(q, m)
      BY <1>5
    <3>3. p \in q[l][i].players /\ p \in q[m][j].players
      BY <1>6
    <3> QED
      BY <3>1, <3>2, <3>3 DEF OneGroup
  <2>2. ASSUME NEW l \in Lists, NEW i \in Positions(q2, l)
        PROVE  /\ q2[l][i].players # {}
               /\ \A p \in q2[l][i].players :
                    /\ Team[p] = l[2]
                    /\ P2[p].online /\ ~P2[p].transit /\ P2[p].bg = NoBg
                    /\ P2[p].queueId = q2[l][i].bg
    <3>1. i \in Positions(q, l) /\ q2[l][i].players = q[l][i].players /\ q[l][i].players # {}
      BY <1>1, <1>5, <1>6 DEF QueueOk
    <3>2. ASSUME NEW p \in q[l][i].players
          PROVE  /\ Team[p] = l[2]
                 /\ P2[p].online /\ ~P2[p].transit /\ P2[p].bg = NoBg
                 /\ P2[p].queueId = q2[l][i].bg
      <4>1. /\ Team[p] = l[2] /\ P[p].online /\ ~P[p].transit /\ P[p].bg = NoBg
            /\ P[p].queueId = q[l][i].bg
        BY <1>1, <3>1 DEF QueueOk
      <4>2. p \in Players
        <5>1. q[l][i] \in Groups
          BY <1>1, <3>1 DEF Positions
        <5> QED
          BY <5>1 DEF Groups
      <4>3. CASE p \in ps
        BY <1>2, <3>1, <4>1, <4>3
      <4>4. CASE p \notin ps
        BY <1>2, <3>1, <4>1, <4>2, <4>4
      <4> QED
        BY <4>3, <4>4
    <3> QED
      BY <3>1, <3>2
  <2> QED
    BY <2>1, <2>2 DEF QueueOk
<1>9. \A c \in Bgs : /\ B2[c].status = B[c].status /\ B2[c].players = B[c].players
                     /\ B2[c].offline = B[c].offline
  OBVIOUS
<1>10. \A p \in ps : \A c \in Bgs : p \notin B[c].players
  <2> SUFFICES ASSUME NEW p \in ps, NEW c \in Bgs, p \in B[c].players PROVE FALSE
    OBVIOUS
  <2>1. PlayerOk(Queued(q), B, P, p)
    BY <1>1, <1>3 DEF PlayersOk
  <2>2. P[p].bg = c
    BY <2>1 DEF PlayerOk
  <2> QED
    BY <1>2, <1>4, <2>2
<1>11. PlayersOk(Queued(q2), B2, P2)
  <2> SUFFICES ASSUME NEW p \in Players PROVE PlayerOk(Queued(q), B2, P2, p)
    BY <1>7 DEF PlayersOk
  <2>1. PlayerOk(Queued(q), B, P, p)
    BY <1>1 DEF PlayersOk
  <2>2. CASE p \in ps
    BY <1>2, <1>9, <1>10, <2>2 DEF PlayerOk
  <2>3. CASE p \notin ps
    <3>1. P2[p] = P[p] /\ (P[p].bg # NoBg => P[p].bg \in Bgs)
      BY <1>1, <2>3 DEF PlayerStates
    <3> QED
      BY <1>9, <2>1, <3>1 DEF PlayerOk
  <2> QED
    BY <2>2, <2>3
<1>12. Claims(B2, P2, b) = Claims(B, P, b) \cup ps /\ Claims(B, P, b) \cap ps = {}
  <2>1. \A p \in ps : p \in Players /\ P[p].queueId # b /\ p \notin B[b].players
    BY <1>2, <1>3, <1>4, <1>10
  <2>2. \A p \in Players : P2[p].queueId = b <=> p \in ps \/ P[p].queueId = b
    OBVIOUS
  <2> QED
    BY <1>9, <2>1, <2>2 DEF Claims
<1>13. \A c \in Bgs \ {b} : Claims(B2, P2, c) = Claims(B, P, c)
  <2> SUFFICES ASSUME NEW c \in Bgs \ {b} PROVE Claims(B2, P2, c) = Claims(B, P, c)
    OBVIOUS
  <2>1. \A p \in Players : P2[p].queueId = c <=> P[p].queueId = c
    BY <1>2, <1>4
  <2> QED
    BY <1>9, <2>1 DEF Claims
<1>14. PlacesOk(B2, P2)
  <2>1. ASSUME NEW c \in Bgs, NEW t \in Teams
        PROVE  B2[c].invited[t] = Cardinality(Of(Claims(B2, P2, c), t))
    <3>1. CASE c = b
      <4>1. Claims(B, P, b) \in SUBSET Players /\ ps \in SUBSET Players
        BY <1>1, <1>3 DEF Claims, Battlegrounds
      <4>2. Cardinality(Of(Claims(B, P, b) \cup ps, t)) =
              Cardinality(Of(Claims(B, P, b), t)) + Cardinality(Of(ps, t))
        BY ONLY <1>12, <2>1, <4>1, OfCounts
      <4>3. B[b].invited[t] = Cardinality(Of(Claims(B, P, b), t))
        BY <1>1 DEF PlacesOk
      <4> QED
        BY <1>12, <3>1, <4>2, <4>3
    <3>2. CASE c # b
      BY <1>1, <1>13, <3>2 DEF PlacesOk
    <3> QED
      BY <3>1, <3>2
  <2>2. \A c \in Bgs : B2[c].status = "none" => B2[c] = NoBattleground
    BY <1>1 DEF PlacesOk
  <2> QED
    BY <2>1, <2>2 DEF PlacesOk
<1>15. RoomOk(B2, max)
  <2>1. \A t \in Teams : B2[b].invited[t] <= max
    <3>1. \A t \in Teams : Cardinality(Of(ps, t)) = Count(pools[t])
      BY <1>2
    <3>2. \A t \in Teams : B[b].invited[t] + Cardinality(Of(ps, t)) <= max
      BY ONLY <3>1, \A t \in Teams : B[b].invited[t] + Count(pools[t]) <= max
    <3>3. \A t \in Teams : B2[b].invited[t] = B[b].invited[t] + Cardinality(Of(ps, t))
      OBVIOUS
    <3> QED
      BY ONLY <3>2, <3>3
  <2> QED
    BY <1>1, <2>1 DEF RoomOk
<1>16. OfflineOk(B2, P2)
  <2> SUFFICES ASSUME NEW c \in Bgs, B2[c].status # "leave" PROVE AwayOk(B2, P2, c)
    BY DEF OfflineOk
  <2>1. AwayOk(B, P, c)
    BY <1>1, <1>9 DEF OfflineOk
  <2>2. PICK off : off = B[c].offline
    OBVIOUS
  <2>3. /\ \A i \in 1..Len(off) : off[i] \in B[c].players /\ ~P[off[i]].online
        /\ \A i \in 1..Len(off), j \in 1..Len(off) : off[i] = off[j] => i = j
    BY <2>1, <2>2 DEF AwayOk
  <2>4. B[c].players \subseteq Players
    BY <1>1 DEF Battlegrounds
  <2>5. \A p \in Players : P2[p].online = P[p].online
    OBVIOUS
  <2>6. \A i \in 1..Len(off) : off[i] \in B2[c].players /\ ~P2[off[i]].online
    BY <1>9, <2>3, <2>4, <2>5
  <2>7. B2[c].offline = off
    BY <1>9, <2>2
  <2> QED
    BY <2>3, <2>6, <2>7 DEF AwayOk
<1>17. SlotsOk(B2, S, max)
  BY <1>1, <1>9 DEF SlotsOk
<1>18. Typed(q2, B2, P2)
  BY DEF Typed
<1> QED
  BY <1>8, <1>11, <1>14, <1>15, <1>16, <1>17, <1>18 DEF Good

(* What QueueUpdate changes. *)
Records == [queue : [Lists -> Seq(Groups)], bgs : [Bgs -> Battlegrounds], slots : Seq(Bgs),
            pl : [Players -> PlayerStates], events : SUBSET Invitations, full : BOOLEAN]

Online0(s) == \A p \in Players : s.pl[p].online = pl[p].online

Copies == {s \in Records : /\ Good(s.queue, s.bgs, s.pl, s.slots, config.max)
                           /\ Online0(s)}

(* What InviteGroupsToBG does, field by field. *)
LEMMA InviteEffects ==
  ASSUME updates \in Nat, NEW s \in Records, Online0(s), NEW b \in Bgs,
         NEW pools \in [Teams -> Seq(Groups)],
         NEW ps \in SUBSET Players, ps = ChosenPlayers(pools),
         \A p \in ps : s.pl[p].online,
         NEW r, r = InviteGroupsToBG(s, pools, b)
  PROVE  /\ r \in Records /\ r.slots = s.slots /\ r.full = s.full
         /\ \A l \in Lists : Len(r.queue[l]) = Len(s.queue[l])
         /\ \A l \in Lists : \A i \in Positions(s.queue, l) :
               /\ r.queue[l][i].players = s.queue[l][i].players
               /\ r.queue[l][i].bg = IF s.queue[l][i] \in Chosen(pools) THEN b
                                     ELSE s.queue[l][i].bg
         /\ \A c \in Bgs \ {b} : r.bgs[c] = s.bgs[c]
         /\ r.bgs[b].status = s.bgs[b].status /\ r.bgs[b].players = s.bgs[b].players
         /\ r.bgs[b].offline = s.bgs[b].offline
         /\ \A t \in Teams : r.bgs[b].invited[t] =
                s.bgs[b].invited[t] + Cardinality(Of(ps, t))
         /\ \A p \in Players \ ps : r.pl[p] = s.pl[p]
         /\ \A p \in ps : /\ r.pl[p].queueId = b /\ r.pl[p].online = s.pl[p].online
                          /\ r.pl[p].transit = s.pl[p].transit /\ r.pl[p].bg = s.pl[p].bg
<1> DEFINE chosen == Chosen(pools)
           invited(g) == IF g \in chosen THEN [g EXCEPT !.bg = b, !.time = updates + 1]
                                         ELSE g
           q2 == [l \in Lists |-> [i \in 1..Len(s.queue[l]) |-> invited(s.queue[l][i])]]
           counts == [t \in Teams |-> s.bgs[b].invited[t] + Cardinality(Of(Online(ps), t))]
           pl2 == [p \in Players |-> IF p \in ps THEN [s.pl[p] EXCEPT !.queueId = b]
                                                 ELSE s.pl[p]]
           events2 == s.events \cup {[player |-> p, bg |-> b, time |-> updates + 1] : p \in ps}
<1>1. r = [s EXCEPT !.queue = q2, !.bgs[b].invited = counts, !.pl = pl2, !.events = events2]
  <2>1. chosen = Range(pools["alliance"]) \cup Range(pools["horde"])
    BY DEF Chosen
  <2>2. ps = UNION {g.players : g \in Range(pools["alliance"]) \cup Range(pools["horde"])}
    BY DEF ChosenPlayers, Chosen
  <2> QED
    BY <2>1, <2>2 DEF InviteGroupsToBG
<1> HIDE DEF q2, counts, pl2, events2, chosen
<1>2. /\ s.queue \in [Lists -> Seq(Groups)] /\ s.bgs \in [Bgs -> Battlegrounds]
      /\ s.pl \in [Players -> PlayerStates] /\ s.events \subseteq Invitations
      /\ s.slots \in Seq(Bgs) /\ s.full \in BOOLEAN
  BY DEF Records
<1>3. /\ r.queue = q2 /\ r.pl = pl2 /\ r.events = events2
      /\ r.slots = s.slots /\ r.full = s.full
      /\ r.bgs = [s.bgs EXCEPT ![b].invited = counts]
      /\ r = [queue |-> q2, bgs |-> [s.bgs EXCEPT ![b].invited = counts], slots |-> s.slots,
              pl |-> pl2, events |-> events2, full |-> s.full]
  <2>1. PICK q, B, S, P, E, f : s = [queue |-> q, bgs |-> B, slots |-> S, pl |-> P,
                                     events |-> E, full |-> f]
    BY DEF Records
  <2>2. r = [queue |-> q2, bgs |-> [B EXCEPT ![b].invited = counts], slots |-> S,
             pl |-> pl2, events |-> events2, full |-> f]
    BY <1>1, <2>1
  <2>3. s.bgs = B /\ s.slots = S /\ s.full = f
    BY <2>1
  <2>4. r = [queue |-> q2, bgs |-> [s.bgs EXCEPT ![b].invited = counts], slots |-> s.slots,
              pl |-> pl2, events |-> events2, full |-> s.full]
    BY <2>2, <2>3
  <2>5. PICK B2 : B2 = [s.bgs EXCEPT ![b].invited = counts]
    OBVIOUS
  <2>6. r = [queue |-> q2, bgs |-> B2, slots |-> s.slots,
              pl |-> pl2, events |-> events2, full |-> s.full]
    BY <2>4, <2>5
  <2>7. /\ r.queue = q2 /\ r.pl = pl2 /\ r.events = events2
        /\ r.slots = s.slots /\ r.full = s.full /\ r.bgs = B2
    BY ONLY <2>6
  <2> QED
    BY <2>4, <2>5, <2>7
<1>4. ASSUME NEW l \in Lists
      PROVE  q2[l] \in Seq(Groups) /\ Len(q2[l]) = Len(s.queue[l])
             /\ \A i \in 1..Len(s.queue[l]) :
                  /\ q2[l][i].players = s.queue[l][i].players
                  /\ q2[l][i].bg = IF s.queue[l][i] \in Chosen(pools) THEN b
                                   ELSE s.queue[l][i].bg
  <2>1. PICK list \in Seq(Groups) : list = s.queue[l]
    BY <1>2
  <2>2. Len(list) \in Nat /\ \A i \in 1..Len(list) : list[i] \in Groups
    BY <2>1, LenProperties
  <2>3. ASSUME NEW g \in Groups
        PROVE  /\ invited(g) \in Groups /\ invited(g).players = g.players
               /\ invited(g).bg = IF g \in chosen THEN b ELSE g.bg
    <3>1. PICK h : h = [g EXCEPT !.bg = b, !.time = updates + 1]
      OBVIOUS
    <3>2. PICK x \in Nat : x = updates + 1
      OBVIOUS
    <3>3. h = [g EXCEPT !.bg = b, !.time = x]
      BY <3>1, <3>2
    <3>4. h \in Groups /\ h.players = g.players /\ h.bg = b
      BY ONLY <3>3 DEF Groups
    <3> QED
      BY <3>1, <3>4
  <2>4. q2[l] = [i \in 1..Len(list) |-> invited(list[i])]
    BY <2>1 DEF q2
  <2> HIDE DEF invited
  <2>5. q2[l] \in [1..Len(list) -> Groups]
    BY <2>2, <2>3, <2>4
  <2>6. q2[l] \in Seq(Groups) /\ Len(q2[l]) = Len(list)
    <3>1. q2[l] \in Seq(Groups)
      <4>1. PICK n \in Nat : n = Len(list)
        BY <2>2
      <4>2. PICK u \in [1..n -> Groups] : u = q2[l]
        BY <2>5, <4>1
      <4> QED
        BY <4>2, SeqDef
    <3>2. DOMAIN q2[l] = 1..Len(list)
      BY <2>5
    <3> QED
      BY <2>2, <3>1, <3>2, LenProperties
  <2>7. \A i \in 1..Len(list) :
           /\ q2[l][i].players = list[i].players
           /\ q2[l][i].bg = IF list[i] \in chosen THEN b ELSE list[i].bg
    BY <2>2, <2>3, <2>4
  <2> QED
    BY <2>1, <2>6, <2>7 DEF chosen
<1>5. q2 \in [Lists -> Seq(Groups)]
  <2>1. \A l \in Lists : q2[l] \in Seq(Groups)
    BY <1>4
  <2> QED
    BY <2>1 DEF q2
<1>6. \A t \in Teams : Cardinality(Of(ps, t)) \in Nat
  BY OfCounts
<1>7. counts = [t \in Teams |-> s.bgs[b].invited[t] + Cardinality(Of(ps, t))]
  <2>1. Online(ps) = ps
    BY DEF Online, Online0
  <2> QED
    BY <2>1 DEF counts
<1>8. counts \in [Teams -> Int]
  BY <1>2, <1>6, <1>7 DEF Battlegrounds
<1>9. PICK B2 : B2 = [s.bgs EXCEPT ![b].invited = counts]
  OBVIOUS
<1>10. /\ B2 \in [Bgs -> Battlegrounds] /\ \A c \in Bgs \ {b} : B2[c] = s.bgs[c]
       /\ B2[b].status = s.bgs[b].status /\ B2[b].players = s.bgs[b].players
       /\ B2[b].offline = s.bgs[b].offline /\ B2[b].invited = counts
  <2>1. s.bgs[b] \in Battlegrounds
    BY <1>2
  <2> HIDE DEF counts
  <2>2. [s.bgs[b] EXCEPT !.invited = counts] \in Battlegrounds
    BY <1>8, <2>1 DEF Battlegrounds
  <2>3. B2[b] = [s.bgs[b] EXCEPT !.invited = counts] /\ \A c \in Bgs \ {b} : B2[c] = s.bgs[c]
    BY <1>2, <1>9
  <2>4. B2 \in [Bgs -> Battlegrounds]
    BY <1>2, <1>9, <2>2
  <2>5. /\ B2[b].status = s.bgs[b].status /\ B2[b].players = s.bgs[b].players
        /\ B2[b].offline = s.bgs[b].offline /\ B2[b].invited = counts
    BY <2>1, <2>3 DEF Battlegrounds
  <2> QED
    BY <2>3, <2>4, <2>5
<1>11. /\ pl2 \in [Players -> PlayerStates] /\ \A p \in Players \ ps : pl2[p] = s.pl[p]
       /\ \A p \in ps : /\ pl2[p].queueId = b /\ pl2[p].online = s.pl[p].online
                        /\ pl2[p].transit = s.pl[p].transit /\ pl2[p].bg = s.pl[p].bg
  <2>1. ASSUME NEW p \in Players
        PROVE  /\ s.pl[p] \in PlayerStates
               /\ [s.pl[p] EXCEPT !.queueId = b] \in PlayerStates
               /\ [s.pl[p] EXCEPT !.queueId = b].queueId = b
               /\ [s.pl[p] EXCEPT !.queueId = b].online = s.pl[p].online
               /\ [s.pl[p] EXCEPT !.queueId = b].transit = s.pl[p].transit
               /\ [s.pl[p] EXCEPT !.queueId = b].bg = s.pl[p].bg
    <3>1. s.pl[p] \in PlayerStates
      BY <1>2
    <3> QED
      BY <3>1 DEF PlayerStates
  <2>2. pl2 \in [Players -> PlayerStates]
    BY <2>1 DEF pl2
  <2>3. \A p \in Players \ ps : pl2[p] = s.pl[p]
    BY DEF pl2
  <2>4. \A p \in ps : pl2[p] = [s.pl[p] EXCEPT !.queueId = b]
    BY DEF pl2
  <2> HIDE DEF pl2
  <2>5. ASSUME NEW p \in ps
        PROVE  /\ pl2[p].queueId = b /\ pl2[p].online = s.pl[p].online
               /\ pl2[p].transit = s.pl[p].transit /\ pl2[p].bg = s.pl[p].bg
    <3>1. p \in Players /\ pl2[p] = [s.pl[p] EXCEPT !.queueId = b]
      BY <2>4
    <3> QED
      BY <2>1, <3>1
  <2> QED
    BY <2>2, <2>3, <2>5
<1>12. events2 \subseteq Invitations
  BY <1>2 DEF events2, Invitations
<1>13. r \in Records
  BY <1>2, <1>3, <1>5, <1>9, <1>10, <1>11, <1>12 DEF Records
<1>14. \A t \in Teams : B2[b].invited[t] = s.bgs[b].invited[t] + Cardinality(Of(ps, t))
  BY <1>7, <1>10
<1> QED
  BY <1>3, <1>4, <1>9, <1>10, <1>11, <1>13, <1>14 DEF Positions

(* The groups in the pools can be invited to b; S: the slots, which may be about
   to change. *)
MayInvite(s, S, b, pools) ==
    /\ s \in Records /\ Online0(s) /\ Good(s.queue, s.bgs, s.pl, S, config.max)
    /\ b \in Bgs /\ s.bgs[b].status # "none"
    /\ pools \in [Teams -> Seq(Groups)]
    /\ \A t \in Teams : pools[t] \in
            Pools(Uninvited(s.queue, t), MaxPlayers - s.bgs[b].invited[t])

HasInvited(r, s, S) ==
    /\ r \in Records /\ Online0(r) /\ r.slots = s.slots
    /\ Good(r.queue, r.bgs, r.pl, S, config.max)

(* InviteGroupToBG for groups who may be invited. *)
LEMMA InviteOk ==
  ASSUME config \in Settings, updates \in Nat,
         NEW s, NEW S, NEW b, NEW pools, MayInvite(s, S, b, pools),
         NEW r, r = InviteGroupsToBG(s, pools, b)
  PROVE  HasInvited(r, s, S)
<1> USE DEF MayInvite
<1>1. PICK ps : ps = ChosenPlayers(pools)
  OBVIOUS
<1>2. /\ s.queue \in [Lists -> Seq(Groups)] /\ s.bgs \in [Bgs -> Battlegrounds]
      /\ s.pl \in [Players -> PlayerStates]
  BY DEF Records
<1>3. \A t \in Teams : Range(pools[t]) \subseteq Uninvited(s.queue, t)
  BY DEF Pools
<1>4. QueueOk(s.queue, s.pl)
  BY DEF Good
<1>5. /\ ps \subseteq Queued(s.queue) /\ \A p \in ps : s.pl[p].online
  BY <1>1, <1>2, <1>3, <1>4, ChosenAre
<1>6. ps \in SUBSET Players
  BY <1>5 DEF Queued
<1>7. \A t \in Teams : s.bgs[b].invited[t] + Count(pools[t]) <= config.max
  <2> SUFFICES ASSUME NEW t \in Teams
               PROVE  s.bgs[b].invited[t] + Count(pools[t]) <= config.max
    OBVIOUS
  <2>1. s.bgs[b].invited[t] \in Int /\ config.max \in Int /\ Count(pools[t]) \in Int
    BY <1>2, ConstantsAssumption, GroupsCounted DEF Battlegrounds
  <2>2. Count(pools[t]) <= config.max - s.bgs[b].invited[t]
    BY DEF Pools, MaxPlayers
  <2> QED
    BY <2>1, <2>2
<1>8. /\ r \in Records /\ r.slots = s.slots /\ r.full = s.full
      /\ \A l \in Lists : Len(r.queue[l]) = Len(s.queue[l])
      /\ \A l \in Lists : \A i \in Positions(s.queue, l) :
            /\ r.queue[l][i].players = s.queue[l][i].players
            /\ r.queue[l][i].bg = IF s.queue[l][i] \in Chosen(pools) THEN b
                                  ELSE s.queue[l][i].bg
      /\ \A c \in Bgs \ {b} : r.bgs[c] = s.bgs[c]
      /\ r.bgs[b].status = s.bgs[b].status /\ r.bgs[b].players = s.bgs[b].players
      /\ r.bgs[b].offline = s.bgs[b].offline
      /\ \A t \in Teams : r.bgs[b].invited[t] =
             s.bgs[b].invited[t] + Cardinality(Of(ps, t))
      /\ \A p \in Players \ ps : r.pl[p] = s.pl[p]
      /\ \A p \in ps : /\ r.pl[p].queueId = b /\ r.pl[p].online = s.pl[p].online
                       /\ r.pl[p].transit = s.pl[p].transit /\ r.pl[p].bg = s.pl[p].bg
  BY <1>1, <1>5, <1>6, InviteEffects
<1>9. /\ r.queue \in [Lists -> Seq(Groups)] /\ r.bgs \in [Bgs -> Battlegrounds]
      /\ r.pl \in [Players -> PlayerStates]
  BY <1>8 DEF Records
<1>10. PICK q, B, P, q2, B2, P2 : /\ q = s.queue /\ B = s.bgs /\ P = s.pl
                                  /\ q2 = r.queue /\ B2 = r.bgs /\ P2 = r.pl
  OBVIOUS
<1>11. Good(q2, B2, P2, S, config.max)
  <2>1. Invited(q, B, P, q2, B2, P2, b, pools, ps)
    BY <1>1, <1>8, <1>9, <1>10 DEF Invited
  <2>2. PICK max : max = config.max
    OBVIOUS
  <2>3. /\ Good(q, B, P, S, max) /\ B[b].status # "none"
        /\ \A t \in Teams : Range(pools[t]) \subseteq Uninvited(q, t)
        /\ \A t \in Teams : B[b].invited[t] + Count(pools[t]) <= max
        /\ b \in Bgs /\ pools \in [Teams -> Seq(Groups)]
    BY <1>3, <1>7, <1>10, <2>2
  <2>4. Good(q2, B2, P2, S, max)
    BY ONLY <2>1, <2>3, InvitedGood
  <2> QED
    BY <2>2, <2>4
<1>12. Online0(r)
  BY <1>8 DEF Online0
<1> QED
  BY <1>8, <1>10, <1>11, <1>12 DEF HasInvited

(* Copies is about more than its members' types. *)
LEMMA CopyFacts ==
  ASSUME config \in Settings, NEW s \in Copies
  PROVE  /\ s \in Records /\ Online0(s) /\ Good(s.queue, s.bgs, s.pl, s.slots, config.max)
         /\ s.queue \in [Lists -> Seq(Groups)] /\ s.bgs \in [Bgs -> Battlegrounds]
         /\ s.pl \in [Players -> PlayerStates] /\ s.slots \in Seq(Bgs)
         /\ config.max \in Nat /\ MaxPlayers = config.max
         /\ \A b \in Bgs, t \in Teams : 0 <= s.bgs[b].invited[t] /\ s.bgs[b].invited[t] <= MaxPlayers
<1>1. s \in Records /\ Online0(s) /\ Good(s.queue, s.bgs, s.pl, s.slots, config.max)
  BY DEF Copies
<1>2. /\ s.queue \in [Lists -> Seq(Groups)] /\ s.bgs \in [Bgs -> Battlegrounds]
      /\ s.pl \in [Players -> PlayerStates] /\ s.slots \in Seq(Bgs)
  BY <1>1 DEF Records
<1>3. config.max \in Nat /\ MaxPlayers = config.max
  BY ConstantsAssumption DEF MaxPlayers
<1>4. ASSUME NEW b \in Bgs, NEW t \in Teams
      PROVE  0 <= s.bgs[b].invited[t] /\ s.bgs[b].invited[t] <= MaxPlayers
  <2>1. PICK set : set = Claims(s.bgs, s.pl, b)
    OBVIOUS
  <2>2. set \in SUBSET Players
    BY <1>2, <2>1 DEF Claims, Battlegrounds
  <2>3. Cardinality(Of(set, t)) \in Nat
    BY <2>2, OfCounts
  <2>4. s.bgs[b].invited[t] = Cardinality(Of(set, t))
    BY <1>1, <2>1 DEF Good, PlacesOk
  <2>5. s.bgs[b].invited[t] <= MaxPlayers
    BY <1>1, <1>3 DEF Good, RoomOk
  <2> QED
    BY <2>3, <2>4, <2>5
<1> QED
  BY <1>1, <1>2, <1>3, <1>4

(* A free slot is filled; a battleground that is full gives up its slot. *)
LEMMA FillBgOk ==
  ASSUME config \in Settings, updates \in Nat, NEW s \in Copies, NEW b \in Bgs
  PROVE  FillBg(s, b) \in Copies
<1>1. CASE s.bgs[b].status \notin {"join", "progress"}
  BY <1>1 DEF FillBg
<1>2. CASE s.bgs[b].status \in {"join", "progress"}
  <2>1. /\ s \in Records /\ Online0(s) /\ Good(s.queue, s.bgs, s.pl, s.slots, config.max)
        /\ s.queue \in [Lists -> Seq(Groups)] /\ s.bgs \in [Bgs -> Battlegrounds]
        /\ s.slots \in Seq(Bgs) /\ config.max \in Nat /\ MaxPlayers = config.max
        /\ \A t \in Teams : 0 <= s.bgs[b].invited[t] /\ s.bgs[b].invited[t] <= MaxPlayers
    BY CopyFacts
  <2>2. PICK pools : pools = FillPlayersToBG(s, b)
    OBVIOUS
  <2>3. /\ pools \in [Teams -> Seq(Groups)]
        /\ \A t \in Teams : pools[t] \in
              Pools(Uninvited(s.queue, t), MaxPlayers - s.bgs[b].invited[t])
    BY <2>1, <2>2, FillPlayersOk
  <2>4. s.bgs[b].status # "none"
    BY <1>2
  <2>5. PICK r : r = InviteGroupsToBG(s, pools, b)
    OBVIOUS
  <2>6. CASE Cardinality(s.bgs[b].players) < 2 * MaxPlayers
    <3>0. MayInvite(s, s.slots, b, pools)
      BY <2>1, <2>3, <2>4 DEF MayInvite
    <3>1. /\ r \in Records /\ Online0(r) /\ r.slots = s.slots
          /\ Good(r.queue, r.bgs, r.pl, s.slots, config.max)
      BY <2>1, <3>0, <2>5, InviteOk DEF HasInvited
    <3>2. r \in Copies
      BY <3>1 DEF Copies
    <3> QED
      BY <1>2, <2>2, <2>5, <2>6, <3>2 DEF FillBg
  <2>7. CASE ~(Cardinality(s.bgs[b].players) < 2 * MaxPlayers)
    <3>1. PICK S : S = Keep(s.slots, Bgs \ {b})
      OBVIOUS
    <3>2. S \in Seq(Bgs) /\ \A x : x \in Range(S) <=> x \in Range(s.slots) /\ x \in Bgs \ {b}
      BY <2>1, <3>1, KeepHas
    <3>3. SlotsOk(s.bgs, S, config.max)
      <4>1. SlotsOk(s.bgs, s.slots, config.max)
        BY <2>1 DEF Good
      <4> QED
        BY <2>1, <2>7, <3>2, <4>1 DEF SlotsOk
    <3>4. Good(s.queue, s.bgs, s.pl, S, config.max)
      BY <2>1, <3>3 DEF Good
    <3>0. MayInvite(s, S, b, pools)
      BY <2>1, <2>3, <2>4, <3>4 DEF MayInvite
    <3>5. /\ r \in Records /\ Online0(r) /\ r.slots = s.slots
          /\ Good(r.queue, r.bgs, r.pl, S, config.max)
      BY <2>1, <3>0, <2>5, InviteOk DEF HasInvited
    <3>6. PICK z : z = [r EXCEPT !.slots = S]
      OBVIOUS
    <3>7. /\ z \in Records /\ z.queue = r.queue /\ z.bgs = r.bgs /\ z.pl = r.pl /\ z.slots = S
      BY <3>2, <3>5, <3>6 DEF Records
    <3>8. z \in Copies
      BY <3>5, <3>7 DEF Copies, Online0
    <3>9. FillBg(s, b) = z
      BY <1>2, <2>2, <2>5, <2>7, <3>1, <3>5, <3>6 DEF FillBg
    <3> QED
      BY <3>8, <3>9
  <2> QED
    BY <2>6, <2>7
<1> QED
  BY <1>1, <1>2

(* A battleground is created. *)
Fresh(B, S, B2, S2, b) == B2 = [B EXCEPT ![b] = NewBattleground] /\ S2 = <<b>> \o S

(* Nobody has a place in it and it has a free slot. *)
LEMMA FreshGood ==
  ASSUME NEW q, NEW B, NEW P, NEW S, NEW max \in Nat, Good(q, B, P, S, max),
         NEW b \in Bgs, B[b].status = "none",
         NEW B2, NEW S2, Fresh(B, S, B2, S2, b)
  PROVE  /\ Good(q, B2, P, S2, max) /\ B2 \in [Bgs -> Battlegrounds] /\ S2 \in Seq(Bgs)
         /\ B2[b].status = "join" /\ \A t \in Teams : B2[b].invited[t] = 0
<1> USE DEF Fresh
<1>1. /\ q \in [Lists -> Seq(Groups)] /\ B \in [Bgs -> Battlegrounds]
      /\ P \in [Players -> PlayerStates] /\ QueueOk(q, P) /\ PlayersOk(Queued(q), B, P)
      /\ PlacesOk(B, P) /\ RoomOk(B, max) /\ OfflineOk(B, P) /\ SlotsOk(B, S, max)
  BY DEF Good, Typed
<1>2. B[b] = NoBattleground
  BY <1>1 DEF PlacesOk
<1>3. /\ NewBattleground \in Battlegrounds /\ NewBattleground.status = "join"
      /\ NewBattleground.players = {} /\ NewBattleground.offline = <<>>
      /\ \A t \in Teams : NewBattleground.invited[t] = 0
  <2>1. PICK zero : zero = [t \in Teams |-> 0]
    OBVIOUS
  <2>0. zero \in [Teams -> Int] /\ \A t \in Teams : zero[t] = 0
    BY <2>1
  <2>2. NewBattleground = [status |-> "join", invited |-> zero, players |-> {}, offline |-> <<>>]
    <3>1. NoBattleground = [status |-> "none", invited |-> zero, players |-> {},
                            offline |-> <<>>]
      BY <2>1, Zenon DEF NoBattleground
    <3>2. NewBattleground = [NoBattleground EXCEPT !.status = "join"]
      BY DEF NewBattleground
    <3> QED
      BY ONLY <3>1, <3>2
  <2> QED
    BY <2>0, <2>2 DEF Battlegrounds
<1>4. /\ B2 \in [Bgs -> Battlegrounds] /\ \A c \in Bgs \ {b} : B2[c] = B[c]
      /\ B2[b] = NewBattleground
  BY <1>1, <1>3
<1>5. ASSUME NEW c \in Bgs
      PROVE  B2[c].players = B[c].players /\ B2[c].offline = B[c].offline
             /\ \A t \in Teams : B2[c].invited[t] = B[c].invited[t]
  <2>1. /\ NoBattleground.players = {} /\ NoBattleground.offline = <<>>
        /\ \A t \in Teams : NoBattleground.invited[t] = 0
    BY DEF NoBattleground
  <2>2. CASE c = b
    BY <1>2, <1>3, <1>4, <2>1, <2>2
  <2>3. CASE c # b
    BY <1>4, <2>3
  <2> QED
    BY <2>2, <2>3
<1>6. PlayersOk(Queued(q), B2, P)
  <2> SUFFICES ASSUME NEW p \in Players PROVE PlayerOk(Queued(q), B2, P, p)
    BY DEF PlayersOk
  <2>1. PlayerOk(Queued(q), B, P, p)
    BY <1>1 DEF PlayersOk
  <2>2. P[p].bg # NoBg => P[p].bg \in Bgs
    BY <1>1 DEF PlayerStates
  <2> QED
    BY <1>5, <2>1, <2>2 DEF PlayerOk
<1>7. \A c \in Bgs : Claims(B2, P, c) = Claims(B, P, c)
  BY <1>5 DEF Claims
<1>8. PlacesOk(B2, P)
  <2>1. \A c \in Bgs, t \in Teams : B2[c].invited[t] = Cardinality(Of(Claims(B2, P, c), t))
    <3>1. \A c \in Bgs, t \in Teams : B[c].invited[t] = Cardinality(Of(Claims(B, P, c), t))
      BY <1>1 DEF PlacesOk
    <3> QED
      BY <1>5, <1>7, <3>1
  <2>2. \A c \in Bgs : B2[c].status = "none" => B2[c] = NoBattleground
    BY <1>1, <1>3, <1>4 DEF PlacesOk
  <2> QED
    BY <2>1, <2>2 DEF PlacesOk
<1>9. RoomOk(B2, max)
  BY <1>1, <1>5 DEF RoomOk
<1>10. OfflineOk(B2, P)
  <2> SUFFICES ASSUME NEW c \in Bgs, B2[c].status # "leave" PROVE AwayOk(B2, P, c)
    BY DEF OfflineOk
  <2>1. B[c].status # "leave"
    BY <1>2, <1>4 DEF NoBattleground
  <2>2. AwayOk(B, P, c)
    BY <1>1, <2>1 DEF OfflineOk
  <2>3. PICK off : off = B[c].offline
    OBVIOUS
  <2>4. /\ \A i \in 1..Len(off) : off[i] \in B[c].players /\ ~P[off[i]].online
        /\ \A i \in 1..Len(off), j \in 1..Len(off) : off[i] = off[j] => i = j
    BY <2>2, <2>3 DEF AwayOk
  <2>5. B2[c].offline = off /\ B2[c].players = B[c].players
    BY <1>5, <2>3
  <2> QED
    BY <2>4, <2>5 DEF AwayOk
<1>11. S2 \in Seq(Bgs) /\ b \in Range(S2) /\ \A x : x \in Range(S) => x \in Range(S2)
  <2>1. S \in Seq(Bgs)
    BY <1>1 DEF SlotsOk
  <2>2. PICK one : one = <<b>>
    OBVIOUS
  <2>3. one \in Seq(Bgs) /\ Len(one) = 1 /\ one[1] = b
    BY <2>2
  <2>4. /\ S2 \in Seq(Bgs) /\ Len(S2) = 1 + Len(S) /\ Len(S) \in Nat
        /\ \A i \in 1..(1 + Len(S)) : S2[i] = IF i <= 1 THEN one[i] ELSE S[i - 1]
    BY <2>1, <2>2, <2>3, ConcatProperties, LenProperties
  <2>5. S2[1] = b /\ 1 \in 1..Len(S2)
    BY <2>3, <2>4
  <2>6. ASSUME NEW i \in 1..Len(S) PROVE (i + 1) \in 1..Len(S2) /\ S2[i + 1] = S[i]
    <3>1. i + 1 \in 1..(1 + Len(S)) /\ ~(i + 1 <= 1) /\ (i + 1) - 1 = i
      BY <2>4
    <3> QED
      BY <2>4, <3>1
  <2>7. b \in Range(S2)
    BY <2>4, <2>5, RangeOfList
  <2>8. ASSUME NEW x \in Range(S) PROVE x \in Range(S2)
    <3>1. PICK i \in 1..Len(S) : S[i] = x
      BY <2>1, RangeOfList
    <3> QED
      BY <2>4, <2>6, <3>1, RangeOfList
  <2> QED
    BY <2>4, <2>7, <2>8
<1>12. SlotsOk(B2, S2, max)
  BY <1>1, <1>4, <1>11 DEF SlotsOk
<1>13. Typed(q, B2, P)
  BY <1>1, <1>4 DEF Typed
<1> QED
  BY <1>1, <1>3, <1>4, <1>6, <1>8, <1>9, <1>10, <1>11, <1>12, <1>13 DEF Good

(* StartBattleground with the pools of a match. *)
LEMMA StartBgOk ==
  ASSUME config \in Settings, updates \in Nat, NEW s \in Copies,
         NEW pools \in [Teams -> Seq(Groups)],
         \A t \in Teams : pools[t] \in Pools(Uninvited(s.queue, t), MaxPlayers)
  PROVE  StartBg(s, pools) \in Copies
<1>1. PICK unused : unused = {b \in Bgs : s.bgs[b].status = "none"}
  OBVIOUS
<1>2. /\ s \in Records /\ Online0(s) /\ Good(s.queue, s.bgs, s.pl, s.slots, config.max)
      /\ s.queue \in [Lists -> Seq(Groups)] /\ s.bgs \in [Bgs -> Battlegrounds]
      /\ s.slots \in Seq(Bgs) /\ config.max \in Nat /\ MaxPlayers = config.max
  BY CopyFacts
<1>3. CASE unused = {}
  <2>1. PICK z : z = [s EXCEPT !.full = TRUE]
    OBVIOUS
  <2>2. /\ z \in Records /\ z.queue = s.queue /\ z.bgs = s.bgs /\ z.pl = s.pl
        /\ z.slots = s.slots
    BY <1>2, <2>1 DEF Records
  <2>3. z \in Copies
    BY <1>2, <2>2 DEF Copies, Online0
  <2> QED
    BY <1>1, <1>3, <2>1, <2>3 DEF StartBg
<1>4. CASE unused # {}
  <2>1. PICK b : b = CHOOSE x \in unused : \A c \in unused : x <= c
    OBVIOUS
  <2>2. b \in unused
    <3>1. unused \in SUBSET Nat
      BY <1>1, ConstantsAssumption DEF Bgs
    <3> QED
      BY <1>4, <2>1, <3>1, LeastNumber
  <2>3. b \in Bgs /\ s.bgs[b].status = "none"
    BY <1>1, <2>2
  <2>4. PICK B2 : B2 = [s.bgs EXCEPT ![b] = NewBattleground]
    OBVIOUS
  <2>5. PICK S2 : S2 = <<b>> \o s.slots
    OBVIOUS
  <2>6. /\ Good(s.queue, B2, s.pl, S2, config.max) /\ B2 \in [Bgs -> Battlegrounds]
        /\ S2 \in Seq(Bgs) /\ B2[b].status = "join"
        /\ \A t \in Teams : B2[b].invited[t] = 0
    <3>1. PICK q, B, P, S, max : /\ q = s.queue /\ B = s.bgs /\ P = s.pl /\ S = s.slots
                                 /\ max = config.max
      OBVIOUS
    <3>2. /\ max \in Nat /\ Good(q, B, P, S, max) /\ B[b].status = "none"
          /\ Fresh(B, S, B2, S2, b)
      BY <1>2, <2>3, <2>4, <2>5, <3>1 DEF Fresh
    <3>3. /\ Good(q, B2, P, S2, max) /\ B2 \in [Bgs -> Battlegrounds]
          /\ S2 \in Seq(Bgs) /\ B2[b].status = "join"
          /\ \A t \in Teams : B2[b].invited[t] = 0
      BY ONLY <2>3, <3>2, FreshGood
    <3> QED
      BY <3>1, <3>3
  <2>7. PICK s1 : s1 = [s EXCEPT !.bgs[b] = NewBattleground]
    OBVIOUS
  <2>8. /\ s1 \in Records /\ s1.queue = s.queue /\ s1.bgs = B2 /\ s1.pl = s.pl
        /\ s1.slots = s.slots
    BY <1>2, <2>4, <2>6, <2>7 DEF Records
  <2>9. Online0(s1) /\ s1.bgs[b].status # "none"
    BY <1>2, <2>6, <2>8 DEF Online0
  <2>10. Good(s1.queue, s1.bgs, s1.pl, S2, config.max)
    BY <2>6, <2>8
  <2>11. \A t \in Teams : pools[t] \in
            Pools(Uninvited(s1.queue, t), MaxPlayers - s1.bgs[b].invited[t])
    <3>1. \A t \in Teams : MaxPlayers - s1.bgs[b].invited[t] = MaxPlayers
      BY <1>2, <2>6, <2>8
    <3> QED
      BY <2>8, <3>1
  <2>12. PICK r : r = InviteGroupsToBG(s1, pools, b)
    OBVIOUS
  <2>13. /\ r \in Records /\ Online0(r) /\ r.slots = s1.slots
         /\ Good(r.queue, r.bgs, r.pl, S2, config.max)
    <3>0. MayInvite(s1, S2, b, pools)
      BY <2>3, <2>8, <2>9, <2>10, <2>11 DEF MayInvite
    <3> QED
      BY <3>0, <2>12, InviteOk DEF HasInvited
  <2>14. PICK z : z = [r EXCEPT !.slots = S2]
    OBVIOUS
  <2>15. /\ z \in Records /\ z.queue = r.queue /\ z.bgs = r.bgs /\ z.pl = r.pl /\ z.slots = S2
    BY <2>6, <2>13, <2>14 DEF Records
  <2>16. z \in Copies
    BY <2>13, <2>15 DEF Copies, Online0
  <2>17. StartBg(s, pools) = z
    <3>1. StartBg(s, pools) = [r EXCEPT !.slots = <<b>> \o r.slots]
      BY <1>1, <1>4, <2>1, <2>7, <2>12 DEF StartBg
    <3> QED
      BY <2>5, <2>8, <2>13, <2>14, <3>1
  <2> QED
    BY <2>16, <2>17
<1> QED
  BY <1>3, <1>4

(* Where each group of q2 was in q: in a list of the same team. *)
Moved(q, q2, src) ==
    /\ \A m \in Lists : \A j \in Positions(q2, m) :
        /\ src[m][j].list \in Lists /\ src[m][j].list[2] = m[2]
        /\ src[m][j].pos \in Positions(q, src[m][j].list)
        /\ q2[m][j] = q[src[m][j].list][src[m][j].pos]
    /\ \A m \in Lists, k \in Lists : \A i \in Positions(q2, m), j \in Positions(q2, k) :
        src[m][i].list = src[k][j].list /\ src[m][i].pos = src[k][j].pos => m = k /\ i = j
    /\ \A l \in Lists : \A i \in Positions(q, l) :
        \E m \in Lists : \E j \in Positions(q2, m) : src[m][j].list = l /\ src[m][j].pos = i

(* Groups that change lists, but not teams. *)
LEMMA MovedOk ==
  ASSUME NEW q, NEW q2, NEW P, QueueOk(q, P), NEW src, Moved(q, q2, src)
  PROVE  QueueOk(q2, P) /\ Queued(q2) = Queued(q)
<1>1. OneGroup(q2)
  <2> SUFFICES ASSUME NEW m \in Lists, NEW k \in Lists,
                      NEW i \in Positions(q2, m), NEW j \in Positions(q2, k),
                      NEW p \in q2[m][i].players, p \in q2[k][j].players
               PROVE  m = k /\ i = j
    BY DEF OneGroup
  <2>1. PICK a, b : a = src[m][i] /\ b = src[k][j]
    OBVIOUS
  <2>2. /\ a.list \in Lists /\ a.pos \in Positions(q, a.list) /\ p \in q[a.list][a.pos].players
        /\ b.list \in Lists /\ b.pos \in Positions(q, b.list) /\ p \in q[b.list][b.pos].players
    BY <2>1 DEF Moved
  <2>3. a.list = b.list /\ a.pos = b.pos
    BY <2>2 DEF QueueOk, OneGroup
  <2> QED
    BY <2>1, <2>3 DEF Moved
<1>2. ASSUME NEW m \in Lists, NEW i \in Positions(q2, m)
      PROVE  /\ q2[m][i].players # {}
             /\ \A p \in q2[m][i].players :
                  /\ Team[p] = m[2]
                  /\ P[p].online /\ ~P[p].transit /\ P[p].bg = NoBg
                  /\ P[p].queueId = q2[m][i].bg
  <2>1. PICK a : a = src[m][i]
    OBVIOUS
  <2>2. /\ a.list \in Lists /\ a.pos \in Positions(q, a.list) /\ a.list[2] = m[2]
        /\ q2[m][i] = q[a.list][a.pos]
    BY <2>1 DEF Moved
  <2> QED
    BY <2>2 DEF QueueOk
<1>3. Queued(q2) = Queued(q)
  <2>1. ASSUME NEW p \in Queued(q2) PROVE p \in Queued(q)
    <3>1. PICK m \in Lists : \E i \in Positions(q2, m) : p \in q2[m][i].players
      BY DEF Queued
    <3>2. PICK i \in Positions(q2, m) : p \in q2[m][i].players
      BY <3>1
    <3>3. /\ src[m][i].list \in Lists /\ src[m][i].pos \in Positions(q, src[m][i].list)
          /\ p \in q[src[m][i].list][src[m][i].pos].players
      BY <3>2 DEF Moved
    <3> QED
      BY <3>3 DEF Queued
  <2>2. ASSUME NEW p \in Queued(q) PROVE p \in Queued(q2)
    <3>1. PICK l \in Lists : \E i \in Positions(q, l) : p \in q[l][i].players
      BY DEF Queued
    <3>2. PICK i \in Positions(q, l) : p \in q[l][i].players
      BY <3>1
    <3>3. PICK m \in Lists : \E j \in Positions(q2, m) : src[m][j].list = l /\ src[m][j].pos = i
      BY DEF Moved
    <3>4. PICK j \in Positions(q2, m) : src[m][j].list = l /\ src[m][j].pos = i
      BY <3>3
    <3>5. p \in q2[m][j].players
      BY <3>2, <3>4 DEF Moved
    <3> QED
      BY <3>5 DEF Queued
  <2> QED
    BY <2>1, <2>2
<1> QED
  BY <1>1, <1>2, <1>3 DEF QueueOk

(* The first premade groups of the teams in moving go to the front of the normal
   lists. *)
ToNormal(q, q2, moving) ==
    \A t \in Teams :
        IF t \in moving
        THEN /\ q[<<"premade", t>>] # <<>>
             /\ q2[<<"premade", t>>] = Tail(q[<<"premade", t>>])
             /\ q2[<<"normal", t>>] = <<Head(q[<<"premade", t>>])>> \o q[<<"normal", t>>]
        ELSE /\ q2[<<"premade", t>>] = q[<<"premade", t>>]
             /\ q2[<<"normal", t>>] = q[<<"normal", t>>]

(* One team's two lists, before and after. *)
FrontOk(pre, normal, pre2, normal2) ==
    /\ pre2 \in Seq(Groups) /\ normal2 \in Seq(Groups)
    /\ Len(pre) \in Nat /\ Len(pre) >= 1 /\ Len(normal) \in Nat
    /\ Len(pre2) = Len(pre) - 1 /\ Len(normal2) = Len(normal) + 1
    /\ \A j \in 1..Len(pre2) : pre2[j] = pre[j + 1]
    /\ normal2[1] = pre[1]
    /\ \A j \in 1..Len(normal2) : j # 1 => normal2[j] = normal[j - 1]

(* The first group of one list goes to the front of the other. *)
LEMMA FrontMoved ==
  ASSUME NEW pre \in Seq(Groups), pre # <<>>, NEW normal \in Seq(Groups),
         NEW pre2, pre2 = Tail(pre), NEW normal2, normal2 = <<Head(pre)>> \o normal
  PROVE  FrontOk(pre, normal, pre2, normal2)
<1>1. /\ Len(pre) \in Nat /\ Len(pre) >= 1 /\ Len(normal) \in Nat
  BY LenProperties, EmptySeq
<1>2. /\ pre2 \in Seq(Groups) /\ Len(pre2) = Len(pre) - 1
      /\ \A j \in 1..Len(pre2) : pre2[j] = pre[j + 1]
      /\ Head(pre) = pre[1] /\ pre[1] \in Groups
  BY <1>1, HeadTailProperties, LenProperties
<1>3. PICK one : one = <<Head(pre)>>
  OBVIOUS
<1>4. one \in Seq(Groups) /\ Len(one) = 1 /\ one[1] = pre[1]
  BY <1>2, <1>3
<1>5. /\ normal2 \in Seq(Groups) /\ Len(normal2) = 1 + Len(normal)
      /\ \A j \in 1..(1 + Len(normal)) : normal2[j] = IF j <= 1 THEN one[j] ELSE normal[j - 1]
  BY <1>3, <1>4, ConcatProperties
<1>6. normal2[1] = pre[1]
  BY <1>1, <1>4, <1>5
<1>7. \A j \in 1..Len(normal2) : j # 1 => normal2[j] = normal[j - 1]
  BY <1>1, <1>5
<1> QED
  BY <1>1, <1>2, <1>5, <1>6, <1>7 DEF FrontOk

(* The groups that PremadeToNormal moves stay in their team's lists. *)
LEMMA ToNormalMoved ==
  ASSUME NEW q \in [Lists -> Seq(Groups)], NEW q2, NEW moving \in SUBSET Teams,
         ToNormal(q, q2, moving)
  PROVE  /\ \A l \in Lists : q2[l] \in Seq(Groups)
         /\ \E src : Moved(q, q2, src)
<1>1. \A l \in Lists : l = <<l[1], l[2]>> /\ l[1] \in {"premade", "normal"} /\ l[2] \in Teams
  BY DEF Lists
<1>2. \A t \in Teams : /\ <<"premade", t>> \in Lists /\ <<"normal", t>> \in Lists
                       /\ <<"premade", t>>[1] = "premade" /\ <<"premade", t>>[2] = t
                       /\ <<"normal", t>>[1] = "normal" /\ <<"normal", t>>[2] = t
  BY DEF Lists
<1> DEFINE pre == [t \in Teams |-> <<"premade", t>>]
           nor == [t \in Teams |-> <<"normal", t>>]
<1>3. \A t \in Teams : /\ pre[t] \in Lists /\ nor[t] \in Lists /\ pre[t][2] = t /\ nor[t][2] = t
                       /\ pre[t] # nor[t]
  BY <1>2
<1>4. \A l \in Lists : l[2] \in Teams /\ (l = pre[l[2]] \/ l = nor[l[2]])
  BY <1>1
<1>5. ASSUME NEW t \in Teams, t \in moving
      PROVE  FrontOk(q[pre[t]], q[nor[t]], q2[pre[t]], q2[nor[t]])
  <2>1. PICK a, b, a2, b2 : a = q[pre[t]] /\ b = q[nor[t]] /\ a2 = q2[pre[t]] /\ b2 = q2[nor[t]]
    OBVIOUS
  <2>2. /\ a \in Seq(Groups) /\ a # <<>> /\ b \in Seq(Groups)
        /\ a2 = Tail(a) /\ b2 = <<Head(a)>> \o b
    BY <1>2, <1>5, <2>1 DEF ToNormal
  <2>3. FrontOk(a, b, a2, b2)
    BY <2>2, FrontMoved
  <2> HIDE DEF pre, nor
  <2> QED
    BY <2>1, <2>3
<1>6. \A t \in Teams : t \notin moving => q2[pre[t]] = q[pre[t]] /\ q2[nor[t]] = q[nor[t]]
  BY DEF ToNormal
<1>7. \A l \in Lists : q2[l] \in Seq(Groups)
  <2> SUFFICES ASSUME NEW l \in Lists PROVE q2[l] \in Seq(Groups)
    OBVIOUS
  <2> HIDE DEF pre, nor
  <2>1. PICK t \in Teams : t = l[2]
    BY <1>4
  <2>2. l = pre[t] \/ l = nor[t]
    BY <1>4, <2>1
  <2>3. CASE t \in moving
    BY <1>5, <2>2, <2>3 DEF FrontOk
  <2>4. CASE t \notin moving
    BY <1>6, <2>2, <2>4
  <2> QED
    BY <2>3, <2>4
<1> HIDE DEF pre, nor
<1> DEFINE src == [m \in Lists |-> [j \in Nat |->
                     IF m[2] \notin moving THEN [list |-> m, pos |-> j]
                     ELSE IF m = pre[m[2]] THEN [list |-> m, pos |-> j + 1]
                     ELSE IF j = 1 THEN [list |-> pre[m[2]], pos |-> 1]
                     ELSE [list |-> m, pos |-> j - 1]]]
<1>8. \A l \in Lists : /\ Positions(q, l) = 1..Len(q[l]) /\ Len(q[l]) \in Nat
                       /\ Positions(q2, l) = 1..Len(q2[l]) /\ Len(q2[l]) \in Nat
  BY <1>7, LenProperties DEF Positions
(* The source of a group in each of the four kinds of list. *)
<1>9. \A l \in Lists : \A j \in Nat : l[2] \notin moving =>
          src[l][j].list = l /\ src[l][j].pos = j
  OBVIOUS
<1>10. \A t \in moving : \A j \in Nat :
          /\ src[pre[t]][j].list = pre[t] /\ src[pre[t]][j].pos = j + 1
          /\ src[nor[t]][j].list = IF j = 1 THEN pre[t] ELSE nor[t]
          /\ src[nor[t]][j].pos = IF j = 1 THEN 1 ELSE j - 1
  BY <1>3
<1> HIDE DEF src
<1>11. ASSUME NEW m \in Lists, NEW j \in Positions(q2, m)
       PROVE  /\ src[m][j].list \in Lists /\ src[m][j].list[2] = m[2]
              /\ src[m][j].pos \in Positions(q, src[m][j].list)
              /\ q2[m][j] = q[src[m][j].list][src[m][j].pos]
  <2>1. j \in Nat /\ j \in 1..Len(q2[m]) /\ m[2] \in Teams
    BY <1>4, <1>8
  <2>2. PICK t \in Teams : t = m[2]
    BY <2>1
  <2>3. CASE t \notin moving
    <3>1. q2[m] = q[m] /\ src[m][j].list = m /\ src[m][j].pos = j
      BY <1>4, <1>6, <1>9, <2>1, <2>2, <2>3
    <3> QED
      BY <1>8, <2>1, <3>1
  <2>4. CASE t \in moving /\ m = pre[t]
    <3>1. src[m][j].list = m /\ src[m][j].pos = j + 1
      BY <1>10, <2>1, <2>4
    <3>2. /\ q2[m][j] = q[m][j + 1] /\ Len(q2[m]) = Len(q[m]) - 1 /\ Len(q[m]) \in Nat
      BY <1>5, <2>1, <2>4 DEF FrontOk
    <3>3. j + 1 \in 1..Len(q[m])
      BY <2>1, <3>2
    <3> QED
      BY <1>8, <3>1, <3>2, <3>3
  <2>5. CASE t \in moving /\ m = nor[t] /\ j = 1
    <3>1. src[m][j].list = pre[t] /\ src[m][j].pos = 1
      BY <1>10, <2>1, <2>5
    <3>2. q2[m][j] = q[pre[t]][1] /\ 1 \in 1..Len(q[pre[t]]) /\ pre[t] \in Lists /\ pre[t][2] = t
      BY <1>3, <1>5, <2>5 DEF FrontOk
    <3> QED
      BY <1>8, <2>2, <3>1, <3>2
  <2>6. CASE t \in moving /\ m = nor[t] /\ j # 1
    <3>1. src[m][j].list = m /\ src[m][j].pos = j - 1
      BY <1>10, <2>1, <2>6
    <3>2. /\ q2[m][j] = q[m][j - 1] /\ Len(q2[m]) = Len(q[m]) + 1 /\ Len(q[m]) \in Nat
      BY <1>5, <2>1, <2>6 DEF FrontOk
    <3>3. j - 1 \in 1..Len(q[m])
      BY <2>1, <2>6, <3>2
    <3> QED
      BY <1>8, <3>1, <3>2, <3>3
  <2> QED
    BY <1>4, <2>2, <2>3, <2>4, <2>5, <2>6
<1>12. ASSUME NEW m \in Lists, NEW k \in Lists,
              NEW i \in Positions(q2, m), NEW j \in Positions(q2, k),
              src[m][i].list = src[k][j].list, src[m][i].pos = src[k][j].pos
       PROVE  m = k /\ i = j
  <2>1. i \in Nat /\ j \in Nat /\ i >= 1 /\ j >= 1
    BY <1>8
  <2>2. m[2] = k[2]
    <3>1. src[m][i].list[2] = m[2] /\ src[k][j].list[2] = k[2]
      BY <1>11
    <3> QED
      BY <1>12, <3>1
  <2>3. PICK t \in Teams : t = m[2] /\ t = k[2]
    BY <1>4, <2>2
  <2>4. CASE t \notin moving
    <3>1. /\ src[m][i].list = m /\ src[m][i].pos = i
          /\ src[k][j].list = k /\ src[k][j].pos = j
      BY <1>9, <2>1, <2>3, <2>4
    <3> QED
      BY <1>12, <3>1
  <2>5. CASE t \in moving
    <3>1. m = pre[t] \/ m = nor[t]
      BY <1>4, <2>3
    <3>2. k = pre[t] \/ k = nor[t]
      BY <1>4, <2>3
    <3>3. pre[t] # nor[t]
      BY <1>3
    <3>4. ASSUME NEW n \in Nat
          PROVE  /\ src[pre[t]][n].list = pre[t] /\ src[pre[t]][n].pos = n + 1
                 /\ src[nor[t]][n].list = IF n = 1 THEN pre[t] ELSE nor[t]
                 /\ src[nor[t]][n].pos = IF n = 1 THEN 1 ELSE n - 1
      BY <1>10, <2>5
    <3>5. CASE m = pre[t] /\ k = pre[t]
      <4>1. src[m][i].pos = i + 1 /\ src[k][j].pos = j + 1
        BY <2>1, <3>4, <3>5
      <4> QED
        BY <1>12, <2>1, <3>5, <4>1
    <3>6. CASE m = nor[t] /\ k = nor[t]
      <4>1. /\ src[m][i].list = IF i = 1 THEN pre[t] ELSE nor[t]
            /\ src[k][j].list = IF j = 1 THEN pre[t] ELSE nor[t]
            /\ src[m][i].pos = IF i = 1 THEN 1 ELSE i - 1
            /\ src[k][j].pos = IF j = 1 THEN 1 ELSE j - 1
        BY <2>1, <3>4, <3>6
      <4>2. i = 1 <=> j = 1
        BY <1>12, <3>3, <4>1
      <4>3. i # 1 => i - 1 = j - 1
        BY <1>12, <4>1, <4>2
      <4>4. i = j
        BY <2>1, <4>2, <4>3
      <4> QED
        BY <3>6, <4>4
    <3>7. CASE m = pre[t] /\ k = nor[t]
      <4>1. /\ src[m][i].list = pre[t] /\ src[m][i].pos = i + 1
            /\ src[k][j].list = IF j = 1 THEN pre[t] ELSE nor[t]
            /\ src[k][j].pos = IF j = 1 THEN 1 ELSE j - 1
        BY <2>1, <3>4, <3>7
      <4>2. j = 1
        BY <1>12, <3>3, <4>1
      <4>3. i + 1 = 1
        BY <1>12, <4>1, <4>2
      <4> QED
        BY <2>1, <4>3
    <3>8. CASE m = nor[t] /\ k = pre[t]
      <4>1. /\ src[k][j].list = pre[t] /\ src[k][j].pos = j + 1
            /\ src[m][i].list = IF i = 1 THEN pre[t] ELSE nor[t]
            /\ src[m][i].pos = IF i = 1 THEN 1 ELSE i - 1
        BY <2>1, <3>4, <3>8
      <4>2. i = 1
        BY <1>12, <3>3, <4>1
      <4>3. j + 1 = 1
        BY <1>12, <4>1, <4>2
      <4> QED
        BY <2>1, <4>3
    <3> QED
      BY <3>1, <3>2, <3>5, <3>6, <3>7, <3>8
  <2> QED
    BY <2>4, <2>5
<1>13. ASSUME NEW l \in Lists, NEW i \in Positions(q, l)
       PROVE  \E m \in Lists : \E j \in Positions(q2, m) : src[m][j].list = l /\ src[m][j].pos = i
  <2>1. i \in Nat /\ i \in 1..Len(q[l]) /\ i >= 1
    BY <1>8
  <2>2. PICK t \in Teams : t = l[2]
    BY <1>4
  <2>3. CASE t \notin moving
    <3>1. i \in Positions(q2, l)
      BY <1>4, <1>6, <1>8, <2>1, <2>2, <2>3
    <3> QED
      BY <1>9, <2>1, <2>2, <2>3, <3>1
  <2>4. CASE t \in moving /\ l = nor[t]
    <3>1. i + 1 \in Nat /\ i + 1 \in Positions(q2, l)
      BY <1>5, <1>8, <2>1, <2>4 DEF FrontOk
    <3>2. src[l][i + 1].list = l /\ src[l][i + 1].pos = i
      <4>1. i + 1 # 1 /\ (i + 1) - 1 = i
        BY <2>1
      <4> QED
        BY <1>10, <2>4, <3>1, <4>1
    <3> QED
      BY <3>1, <3>2
  <2>5. CASE t \in moving /\ l = pre[t] /\ i = 1
    <3>1. nor[t] \in Lists /\ 1 \in Positions(q2, nor[t])
      BY <1>3, <1>5, <1>8, <2>5 DEF FrontOk
    <3>2. src[nor[t]][1].list = l /\ src[nor[t]][1].pos = i
      BY <1>10, <2>5
    <3> QED
      BY <3>1, <3>2
  <2>6. CASE t \in moving /\ l = pre[t] /\ i # 1
    <3>1. i - 1 \in Nat /\ i - 1 \in Positions(q2, l)
      BY <1>5, <1>8, <2>1, <2>6 DEF FrontOk
    <3>2. src[l][i - 1].list = l /\ src[l][i - 1].pos = i
      <4>1. (i - 1) + 1 = i
        BY <2>1
      <4> QED
        BY <1>10, <2>6, <3>1, <4>1
    <3> QED
      BY <3>1, <3>2
  <2> QED
    BY <1>4, <2>2, <2>3, <2>4, <2>5, <2>6
<1>14. Moved(q, q2, src)
  BY <1>11, <1>12, <1>13 DEF Moved
<1> QED
  BY <1>7, <1>14

(* PremadeToNormal: no group is lost, doubled or changed. *)
LEMMA PremadeToNormalOk ==
  ASSUME config \in Settings, NEW s \in Copies, NEW old
  PROVE  PremadeToNormal(s, old) \in Copies
<1>1. /\ s \in Records /\ Online0(s) /\ Good(s.queue, s.bgs, s.pl, s.slots, config.max)
      /\ s.queue \in [Lists -> Seq(Groups)]
  BY CopyFacts
<1> DEFINE first(t) == Head(s.queue[<<"premade", t>>])
           moves(t) == /\ s.queue[<<"premade", t>>] # <<>>
                       /\ first(t).bg = NoBg
                       /\ t \in old \/ Cardinality(first(t).players) < MinPlayers
           now(l) == CASE ~moves(l[2]) -> s.queue[l]
                       [] moves(l[2]) /\ l[1] = "premade" -> Tail(s.queue[l])
                       [] moves(l[2]) /\ l[1] = "normal"  -> <<first(l[2])>> \o s.queue[l]
           q2 == [l \in Lists |-> now(l)]
           moving == {t \in Teams : moves(t)}
<1>2. PremadeToNormal(s, old) = [s EXCEPT !.queue = q2]
  BY DEF PremadeToNormal
<1>3. \A t \in Teams : /\ <<"premade", t>> \in Lists /\ <<"normal", t>> \in Lists
                       /\ <<"premade", t>>[1] = "premade" /\ <<"premade", t>>[2] = t
                       /\ <<"normal", t>>[1] = "normal" /\ <<"normal", t>>[2] = t
  BY DEF Lists
<1>4. \A t \in Teams : t \in moving => s.queue[<<"premade", t>>] # <<>>
  OBVIOUS
<1>5. \A t \in Teams : t \in moving <=> moves(t)
  OBVIOUS
<1> HIDE DEF moves, moving
<1>6. ToNormal(s.queue, q2, moving)
  <2>1. ASSUME NEW t \in Teams, t \in moving
        PROVE  /\ q2[<<"premade", t>>] = Tail(s.queue[<<"premade", t>>])
               /\ q2[<<"normal", t>>] = <<Head(s.queue[<<"premade", t>>])>>
                                            \o s.queue[<<"normal", t>>]
    BY <1>3, <1>5, <2>1
  <2>2. ASSUME NEW t \in Teams, t \notin moving
        PROVE  /\ q2[<<"premade", t>>] = s.queue[<<"premade", t>>]
               /\ q2[<<"normal", t>>] = s.queue[<<"normal", t>>]
    BY <1>3, <1>5, <2>2
  <2> HIDE DEF q2
  <2> QED
    BY <1>4, <2>1, <2>2 DEF ToNormal
<1>7. q2 = [l \in Lists |-> q2[l]]
  <2> HIDE DEF now
  <2> QED
    OBVIOUS
<1> HIDE DEF q2
<1>8. /\ \A l \in Lists : q2[l] \in Seq(Groups)
      /\ \E src : Moved(s.queue, q2, src)
  <2>1. moving \in SUBSET Teams
    BY DEF moving
  <2> QED
    BY <1>1, <1>6, <2>1, ToNormalMoved
<1>9. q2 \in [Lists -> Seq(Groups)]
  BY <1>7, <1>8
<1>10. QueueOk(q2, s.pl) /\ Queued(q2) = Queued(s.queue)
  <2>1. QueueOk(s.queue, s.pl)
    BY <1>1 DEF Good
  <2> QED
    BY <1>8, <2>1, MovedOk
<1>11. Good(q2, s.bgs, s.pl, s.slots, config.max)
  BY <1>1, <1>9, <1>10 DEF Good, Typed
<1>12. PICK z : z = [s EXCEPT !.queue = q2]
  OBVIOUS
<1>13. /\ z \in Records /\ z.queue = q2 /\ z.bgs = s.bgs /\ z.pl = s.pl /\ z.slots = s.slots
  BY <1>1, <1>9, <1>12 DEF Records
<1>14. z \in Copies
  BY <1>1, <1>11, <1>13 DEF Copies, Online0
<1> QED
  BY <1>2, <1>12, <1>14

(* The battlegrounds with free slots, one after the other. *)
LEMMA FillSlotsOk ==
  ASSUME config \in Settings, updates \in Nat, NEW s0 \in Copies, NEW list \in Seq(Bgs)
  PROVE  FoldLeft(FillBg, s0, list) \in Copies
<1> DEFINE n == Len(list)
           t == CHOOSE t : t = [Z \in SUBSET DOMAIN list |->
                   IF Z = {} THEN s0 ELSE FillBg(t[Z \ {Max(Z)}], list[Max(Z)])]
           step == [k \in 1..n |-> [s \in Copies |-> FillBg(s, list[k])]]
<1>1. FoldLeft(FillBg, s0, list) = t[DOMAIN list]
  BY DEF FoldLeft, MapThenFoldSet
<1>2. n \in Nat /\ DOMAIN list = 1..n
  BY LenProperties
<1>3. \A k \in 1..n : list[k] \in Bgs
  OBVIOUS
<1>4. \A k \in 1..n, s \in Copies : FillBg(s, list[k]) \in Copies
  BY <1>3, FillBgOk
<1> HIDE DEF n
<1>5. Steps(step, 1..n, Copies)
  BY <1>4 DEF Steps
<1>6. \A k \in 1..n, s \in Copies : step[k][s] = FillBg(s, list[k])
  OBVIOUS
<1> HIDE DEF step
<1>7. PICK u \in [SUBSET (1..n) -> Copies] : ListFolded(u, n, s0, step)
  BY <1>2, <1>5, ListFoldExists
<1>8. \A Z \in SUBSET (1..n) : Z # {} => u[Z] = FillBg(u[Z \ {Max(Z)}], list[Max(Z)])
  <2>1. ASSUME NEW Z \in SUBSET (1..n), Z # {}
        PROVE  u[Z] = FillBg(u[Z \ {Max(Z)}], list[Max(Z)])
    <3>1. Max(Z) \in 1..n /\ u[Z \ {Max(Z)}] \in Copies
      BY <1>2, <2>1, Greatest
    <3>2. u[Z] = step[Max(Z)][u[Z \ {Max(Z)}]]
      BY <1>7, <2>1 DEF ListFolded
    <3> QED
      BY <1>6, <3>1, <3>2
  <2> QED
    BY <2>1
<1>9. u = [Z \in SUBSET DOMAIN list |->
             IF Z = {} THEN s0 ELSE FillBg(u[Z \ {Max(Z)}], list[Max(Z)])]
  <2>1. u[{}] = s0
    BY <1>7 DEF ListFolded
  <2> QED
    BY <1>2, <1>7, <1>8, <2>1
<1>10. t = [Z \in SUBSET DOMAIN list |->
              IF Z = {} THEN s0 ELSE FillBg(t[Z \ {Max(Z)}], list[Max(Z)])]
  BY <1>9
<1> HIDE DEF t
<1>11. t[{}] = s0
  BY <1>10
<1>12. \A Z \in SUBSET (1..n) : Z # {} /\ t[Z \ {Max(Z)}] \in Copies =>
          t[Z] = step[Max(Z)][t[Z \ {Max(Z)}]]
  <2>1. ASSUME NEW Z \in SUBSET (1..n), Z # {}, t[Z \ {Max(Z)}] \in Copies
        PROVE  t[Z] = step[Max(Z)][t[Z \ {Max(Z)}]]
    <3>1. Max(Z) \in 1..n
      BY <1>2, <2>1, Greatest
    <3>2. t[Z] = FillBg(t[Z \ {Max(Z)}], list[Max(Z)])
      BY <1>2, <1>10, <2>1
    <3> QED
      BY <1>6, <2>1, <3>1, <3>2
  <2> QED
    BY <2>1
<1>13. t[1..n] \in Copies
  <2>1. FoldedFrom(t, n, Copies, s0, step)
    BY <1>11, <1>12 DEF FoldedFrom
  <2> QED
    BY <1>2, <1>5, <2>1, FoldStays
<1> QED
  BY <1>1, <1>2, <1>13

(* The whole update, from a state in which the invariant holds. *)
LEMMA UpdatedOk ==
  ASSUME IInv, NEW old
  PROVE  Updated(old) \in Copies
<1>1. PICK s0 : s0 = [queue |-> queue, bgs |-> bgs, slots |-> slots, pl |-> pl,
                      events |-> events, full |-> FALSE]
  OBVIOUS
<1>2. config \in Settings /\ updates \in Nat /\ slots \in Seq(Bgs)
  BY DEF IInv, Good, SlotsOk
<1>3. s0 \in Copies
  <2>1. s0 \in Records
    BY <1>1, <1>2 DEF IInv, Good, Typed, Records
  <2>2. Good(s0.queue, s0.bgs, s0.pl, s0.slots, config.max)
    BY <1>1 DEF IInv
  <2>3. Online0(s0)
    BY <1>1 DEF Online0
  <2> QED
    BY <2>1, <2>2, <2>3 DEF Copies
<1> HIDE DEF IInv
<1>4. PICK s1 : s1 = FoldLeft(FillBg, s0, slots)
  OBVIOUS
<1>5. s1 \in Copies
  BY <1>2, <1>3, <1>4, FillSlotsOk
<1>6. \A s \in Copies : s.queue \in [Lists -> Seq(Groups)] /\ MaxPlayers \in Nat
  BY <1>2, CopyFacts
<1>7. PICK s2 : s2 = PremadeStep(s1, old)
  OBVIOUS
<1>8. s2 \in Copies
  <2>1. CASE PremadeMatch(s1)
    <3>1. PICK pools : pools = PremadePools(s1)
      OBVIOUS
    <3>2. /\ pools \in [Teams -> Seq(Groups)]
          /\ \A t \in Teams : pools[t] \in Pools(Uninvited(s1.queue, t), MaxPlayers)
      BY <1>5, <1>6, <2>1, <3>1, PremadePoolsOk
    <3>3. StartBg(s1, pools) \in Copies
      BY <1>2, <1>5, <3>2, StartBgOk
    <3> QED
      BY <1>7, <2>1, <3>1, <3>3 DEF PremadeStep
  <2>2. CASE ~PremadeMatch(s1)
    <3>1. PremadeToNormal(s1, old) \in Copies
      BY <1>2, <1>5, PremadeToNormalOk
    <3> QED
      BY <1>7, <2>2, <3>1 DEF PremadeStep
  <2> QED
    BY <2>1, <2>2
<1>9. NormalStep(s2) \in Copies
  <2>1. PICK pools : pools = NormalPools(s2)
    OBVIOUS
  <2>2. /\ pools \in [Teams -> Seq(Groups)]
        /\ \A t \in Teams : pools[t] \in Pools(Uninvited(s2.queue, t), MaxPlayers)
    BY <1>6, <1>8, <2>1, NormalPoolsOk
  <2>3. StartBg(s2, pools) \in Copies
    BY <1>2, <1>8, <2>2, StartBgOk
  <2> QED
    BY <1>8, <2>1, <2>3 DEF NormalStep
<1>10. Updated(old) = IF InQueue = {} THEN s0 ELSE NormalStep(s2)
  BY <1>1, <1>4, <1>7 DEF Updated
<1> QED
  BY <1>3, <1>9, <1>10

(* QueueUpdate. *)
LEMMA QueueUpdateIInv ==
  ASSUME IInv, NEW old, QueueUpdate(old)
  PROVE  IInv'
<1>1. PICK s \in {Updated(old)} :
        /\ updates' = IF s.events = events THEN updates ELSE updates + 1
        /\ queue' = s.queue /\ bgs' = s.bgs /\ slots' = s.slots
        /\ pl' = s.pl /\ events' = s.events
  BY DEF QueueUpdate
<1>2. config' = config
  BY DEF QueueUpdate
<1>3. s \in Copies
  <2> HIDE DEF IInv
  <2> QED
    BY <1>1, UpdatedOk
<1>4. s.events \subseteq Invitations /\ Good(s.queue, s.bgs, s.pl, s.slots, config.max)
  BY <1>3 DEF Copies, Records
<1>5. config \in Settings /\ updates \in Nat
  BY DEF IInv
<1>6. updates' \in Nat
  BY <1>1, <1>5
<1>7. Good(queue', bgs', pl', slots', config'.max)
  BY <1>1, <1>2, <1>4
<1> QED
  BY <1>1, <1>2, <1>4, <1>5, <1>6, <1>7 DEF IInv

(* At the start nobody is queued and there is no battleground. *)
LEMMA InitIInv == Init => IInv
<1> SUFFICES ASSUME Init PROVE IInv
  OBVIOUS
<1>1. config \in Settings /\ updates = 0 /\ events = {} /\ slots = <<>>
  BY DEF Init
<1>2. PICK zero : zero = [t \in Teams |-> 0]
  OBVIOUS
<1>3. zero \in [Teams -> Int] /\ \A t \in Teams : zero[t] = 0
  BY <1>2
<1>4. NoBattleground = [status |-> "none", invited |-> zero, players |-> {}, offline |-> <<>>]
  BY <1>2, Zenon DEF NoBattleground
<1>5. /\ NoBattleground \in Battlegrounds /\ NoBattleground.status = "none"
      /\ NoBattleground.players = {} /\ NoBattleground.offline = <<>>
      /\ \A t \in Teams : NoBattleground.invited[t] = 0
  BY <1>3, <1>4 DEF Battlegrounds
<1>6. /\ queue \in [Lists -> Seq(Groups)] /\ \A l \in Lists : queue[l] = <<>>
  BY DEF Init
<1>7. /\ bgs \in [Bgs -> Battlegrounds] /\ \A b \in Bgs : bgs[b] = NoBattleground
  BY <1>5 DEF Init
<1>8. /\ pl \in [Players -> PlayerStates]
      /\ \A p \in Players : pl[p].queueId = NoQueue /\ pl[p].bg = NoBg /\ ~pl[p].transit
  BY DEF Init, PlayerStates
<1>9. \A b \in Bgs : b # NoBg /\ b # NoQueue
  BY ConstantsAssumption DEF Bgs, NoBg, NoQueue
<1>10. config.max \in Nat
  BY <1>1, ConstantsAssumption
<1>11. \A l \in Lists : Positions(queue, l) = {}
  BY <1>6 DEF Positions
<1>12. QueueOk(queue, pl) /\ Queued(queue) = {}
  BY <1>11 DEF QueueOk, OneGroup, Queued
<1>13. PlayersOk(Queued(queue), bgs, pl)
  BY <1>5, <1>7, <1>8 DEF PlayersOk, PlayerOk
<1>14. PlacesOk(bgs, pl)
  <2>1. ASSUME NEW b \in Bgs, NEW t \in Teams
        PROVE  bgs[b].invited[t] = Cardinality(Of(Claims(bgs, pl, b), t))
    <3>1. Of(Claims(bgs, pl, b), t) = {}
      BY <1>5, <1>7, <1>8, <1>9 DEF Of, Claims
    <3> QED
      BY <1>5, <1>7, <3>1, FS_EmptySet
  <2> QED
    BY <1>7, <2>1 DEF PlacesOk
<1>15. RoomOk(bgs, config.max)
  BY <1>5, <1>7, <1>10 DEF RoomOk
<1>16. OfflineOk(bgs, pl)
  <2> SUFFICES ASSUME NEW b \in Bgs PROVE AwayOk(bgs, pl, b)
    BY DEF OfflineOk
  <2>1. bgs[b].offline = <<>>
    BY <1>5, <1>7
  <2> QED
    BY <2>1 DEF AwayOk
<1>17. SlotsOk(bgs, slots, config.max)
  BY <1>1, <1>5, <1>7 DEF SlotsOk
<1> QED
  BY <1>1, <1>6, <1>7, <1>8, <1>12, <1>13, <1>14, <1>15, <1>16, <1>17 DEF IInv, Good, Typed

(* A step that changes nothing. *)
LEMMA StutterIInv ==
  ASSUME IInv, UNCHANGED vars
  PROVE  IInv'
<1>1. /\ config' = config /\ queue' = queue /\ bgs' = bgs /\ slots' = slots /\ pl' = pl
      /\ events' = events /\ updates' = updates
  BY DEF vars
<1>2. Good(queue', bgs', pl', slots', config'.max)
  BY <1>1 DEF IInv
<1> QED
  BY <1>1, <1>2 DEF IInv

(* Every step preserves the invariant, unless a group joins unchecked. *)
LEMMA NextIInv == IInv /\ [Next]_vars => unchecked' \/ IInv'
<1> SUFFICES ASSUME IInv, [Next]_vars, ~unchecked' PROVE IInv'
  OBVIOUS
<1>1. ASSUME NEW p \in Players, PlayerStep(p) PROVE IInv'
  <2> HIDE DEF IInv
  <2>1. CASE JoinAlone(p)
    BY <2>1, JoinAloneIInv
  <2>2. CASE PortAccept(p)
    BY <2>2, PortAcceptIInv
  <2>3. CASE PortDecline(p)
    BY <2>3, PortDeclineIInv
  <2>4. CASE HandleMoveWorldportAck(p)
    BY <2>4, WorldportAckIInv
  <2>5. CASE LeaveBattleground(p)
    BY <2>5, LeaveBattlegroundIInv
  <2>6. CASE Logout(p)
    BY <2>6, LogoutIInv
  <2>7. CASE Login(p)
    BY <2>7, LoginIInv
  <2> QED
    BY <1>1, <2>1, <2>2, <2>3, <2>4, <2>5, <2>6, <2>7 DEF PlayerStep
<1>2. ASSUME NEW party \in Parties, JoinAsGroup(party) PROVE IInv'
  <2> HIDE DEF IInv
  <2> QED
    BY <1>2, JoinAsGroupIInv
<1>3. ASSUME NEW b \in Bgs, BgStep(b) PROVE IInv'
  <2> HIDE DEF IInv
  <2>1. CASE UpdateDelete(b)
    BY <2>1, UpdateDeleteIInv
  <2>2. CASE ProcessJoin(b)
    BY <2>2, ProcessJoinIInv
  <2>3. CASE EndBattleground(b)
    BY <2>3, EndBattlegroundIInv
  <2>4. CASE ProcessOfflineQueue(b)
    BY <2>4, ProcessOfflineQueueIInv
  <2>5. CASE ProcessLeave(b)
    BY <2>5, ProcessLeaveIInv
  <2> QED
    BY <1>3, <2>1, <2>2, <2>3, <2>4, <2>5 DEF BgStep
<1>4. CASE RemoveEvents
  <2> HIDE DEF IInv
  <2> QED
    BY <1>4, RemoveEventsIInv
<1>5. ASSUME NEW old, QueueUpdate(old) PROVE IInv'
  <2> HIDE DEF IInv
  <2> QED
    BY <1>5, QueueUpdateIInv
<1>6. CASE UNCHANGED vars
  <2> HIDE DEF IInv
  <2> QED
    BY <1>6, StutterIInv
<1> QED
  BY <1>1, <1>2, <1>3, <1>4, <1>5, <1>6 DEF Next

(* What the invariant says of the places and of the free slots. *)
LEMMA PlacesAndSlots == IInv => TeamsFit /\ SlotsOffered
<1> SUFFICES ASSUME IInv PROVE TeamsFit /\ SlotsOffered
  OBVIOUS
<1>1. RoomOk(bgs, config.max) /\ SlotsOk(bgs, slots, config.max)
  BY DEF IInv, Good
<1> QED
  BY ONLY <1>1 DEF TeamsFit, SlotsOffered, RoomOk, SlotsOk, Running, MaxPlayers

(* After a group has joined unchecked no step of the model is taken. *)
LEMMA NextChecked == Next => ~unchecked
<1> SUFFICES ASSUME Next PROVE ~unchecked
  OBVIOUS
<1>1. ASSUME NEW p, PlayerStep(p) PROVE ~unchecked
  BY <1>1 DEF PlayerStep, JoinAlone, PortAccept, PortDecline, HandleMoveWorldportAck,
              LeaveBattleground, Logout, Login, Checked
<1>2. ASSUME NEW party, JoinAsGroup(party) PROVE ~unchecked
  BY <1>2 DEF JoinAsGroup
<1>3. ASSUME NEW b, BgStep(b) PROVE ~unchecked
  BY <1>3 DEF BgStep, UpdateDelete, ProcessJoin, EndBattleground, ProcessOfflineQueue,
              ProcessLeave, Checked
<1>4. ASSUME RemoveEvents PROVE ~unchecked
  BY <1>4 DEF RemoveEvents, Checked
<1>5. ASSUME NEW old, QueueUpdate(old) PROVE ~unchecked
  BY <1>5 DEF QueueUpdate, Checked
<1> QED
  BY <1>1, <1>2, <1>3, <1>4, <1>5 DEF Next

(* A step that leads to an unchecked group touches neither battlegrounds nor slots:
   it is the join itself, or no step. *)
LEMMA UncheckedJoin ==
  ASSUME Next, unchecked'
  PROVE  UNCHANGED <<config, bgs, slots>>
<1>1. ASSUME NEW p, PlayerStep(p) PROVE FALSE
  <2>1. Checked
    BY <1>1 DEF PlayerStep, JoinAlone, PortAccept, PortDecline, HandleMoveWorldportAck,
                LeaveBattleground, Logout, Login
  <2> QED
    BY <2>1 DEF Checked
<1>2. ASSUME NEW party, JoinAsGroup(party) PROVE UNCHANGED <<config, bgs, slots>>
  BY <1>2 DEF JoinAsGroup
<1>3. ASSUME NEW b, BgStep(b) PROVE FALSE
  <2>1. Checked
    BY <1>3 DEF BgStep, UpdateDelete, ProcessJoin, EndBattleground, ProcessOfflineQueue,
                ProcessLeave
  <2> QED
    BY <2>1 DEF Checked
<1>4. ASSUME RemoveEvents PROVE FALSE
  BY <1>4 DEF RemoveEvents, Checked
<1>5. ASSUME NEW old, QueueUpdate(old) PROVE FALSE
  BY <1>5 DEF QueueUpdate, Checked
<1> QED
  BY <1>1, <1>2, <1>3, <1>4, <1>5 DEF Next

(* What holds in every state: IInv until a group joins unchecked, and the places and
   the free slots then too. *)
Inv == TeamsFit /\ SlotsOffered /\ (unchecked \/ IInv)

(* Every step preserves it. *)
LEMMA NextInv == Inv /\ [Next]_vars => Inv'
<1> SUFFICES ASSUME Inv, [Next]_vars PROVE Inv'
  OBVIOUS
<1>1. CASE UNCHANGED vars
  <2>1. UNCHANGED <<config, bgs, slots, unchecked>> /\ (IInv => IInv')
    BY <1>1, StutterIInv DEF vars
  <2> QED
    BY <2>1 DEF Inv, TeamsFit, SlotsOffered, Running, MaxPlayers
<1>2. CASE Next
  <2>1. IInv
    BY <1>2, NextChecked DEF Inv
  <2> HIDE DEF IInv
  <2>2. CASE unchecked'
    <3>1. UNCHANGED <<config, bgs, slots>>
      BY <1>2, <2>2, UncheckedJoin
    <3> QED
      BY <2>2, <3>1 DEF Inv, TeamsFit, SlotsOffered, Running, MaxPlayers
  <2>3. CASE ~unchecked'
    <3>1. IInv'
      BY <2>1, <2>3, NextIInv
    <3>2. TeamsFit' /\ SlotsOffered'
      BY <3>1, PlacesAndSlots, PTL
    <3> QED
      BY <3>1, <3>2 DEF Inv
  <2> QED
    BY <2>2, <2>3
<1> QED
  BY <1>1, <1>2

(* The invariant holds in every state. *)
THEOREM Invariance == Spec => []Inv
<1>1. Init => Inv
  BY InitIInv, PlacesAndSlots DEF Inv
<1> QED
  BY <1>1, NextInv, PTL DEF Spec

(* The claims on a battleground are what InvitedExact counts. *)
LEMMA PlacesExact == IInv => InvitedExact
<1> SUFFICES ASSUME IInv, NEW b \in Bgs, NEW t \in Teams
             PROVE  bgs[b].invited[t] =
                      Cardinality({p \in Of(Players, t) :
                          \/ InvitedTo(b, p)
                          \/ pl[p].transit /\ pl[p].bg = b
                          \/ p \in bgs[b].players})
  BY DEF InvitedExact
<1>1. \A p : InvitedTo(b, p) <=> p \in Queued(queue) /\ pl[p].queueId = b
  <2>1. queue \in [Lists -> Seq(Groups)] /\ QueueOk(queue, pl)
    BY Facts
  <2> QED
    BY <2>1, InvitedIs
<1>2. ASSUME NEW p \in Players
      PROVE  p \in Claims(bgs, pl, b) <=> \/ InvitedTo(b, p)
                                          \/ pl[p].transit /\ pl[p].bg = b
                                          \/ p \in bgs[b].players
  <2>1. PlayerOk(Queued(queue), bgs, pl, p) /\ b # NoBg /\ b # NoQueue
    BY Facts
  <2>2. p \in Claims(bgs, pl, b) <=> pl[p].queueId = b \/ p \in bgs[b].players
    BY DEF Claims
  <2> HIDE DEF IInv
  <2>3. CASE pl[p].queueId = b /\ p \notin Queued(queue)
    <3>1. pl[p].bg = b /\ (pl[p].transit \/ p \in bgs[b].players)
      BY <2>1, <2>3 DEF PlayerOk
    <3> QED
      BY <2>2, <2>3, <3>1
  <2>4. CASE pl[p].queueId = b /\ p \in Queued(queue)
    BY <1>1, <2>2, <2>4
  <2>5. CASE pl[p].queueId # b
    <3>1. ~(pl[p].transit /\ pl[p].bg = b)
      BY <2>1, <2>5 DEF PlayerOk
    <3> QED
      BY <1>1, <2>2, <2>5, <3>1
  <2> QED
    BY <2>3, <2>4, <2>5
<1>3. Of(Claims(bgs, pl, b), t) = {p \in Of(Players, t) : \/ InvitedTo(b, p)
                                                          \/ pl[p].transit /\ pl[p].bg = b
                                                          \/ p \in bgs[b].players}
  <2>1. \A p \in Claims(bgs, pl, b) : p \in Players
    BY Facts DEF Claims
  <2> HIDE DEF IInv
  <2> QED
    BY <1>2, <2>1 DEF Of
<1>4. bgs[b].invited[t] = Cardinality(Of(Claims(bgs, pl, b), t))
  BY Facts DEF PlacesOk
<1> QED
  BY <1>3, <1>4

(* The places of every battleground are counted right until a group joins unchecked. *)
THEOREM InvitedExactCorrect == Spec => []InvitedExact
<1>1. Inv => InvitedExact
  BY PlacesExact DEF Inv, InvitedExact
<1> QED
  BY <1>1, Invariance, PTL

(* No team is promised more places than there are. *)
THEOREM TeamsFitCorrect == Spec => []TeamsFit
<1>1. Inv => TeamsFit
  BY DEF Inv
<1> QED
  BY <1>1, Invariance, PTL

(* A running battleground with free places has a free slot. *)
THEOREM SlotsOfferedCorrect == Spec => []SlotsOffered
<1>1. Inv => SlotsOffered
  BY DEF Inv
<1> QED
  BY <1>1, Invariance, PTL

(* A queued player is at one position, and a slot without one is a place. *)
LEMMA QueueAndPlayersAgree == IInv => QueueAgrees
<1> SUFFICES ASSUME IInv PROVE QueueAgrees
  OBVIOUS
<1> DEFINE holders(p) == UNION {{l} \X {i \in 1..Len(queue[l]) : p \in queue[l][i].players} :
                                l \in Lists}
<1>1. /\ queue \in [Lists -> Seq(Groups)] /\ QueueOk(queue, pl)
      /\ InQueue = Queued(queue) /\ bgs \in [Bgs -> Battlegrounds]
      /\ PlacesOk(bgs, pl) /\ \A b \in Bgs : b # NoBg
  BY Facts, QueuedIs
<1>2. ASSUME NEW p \in Players, p \in InQueue
      PROVE  /\ Cardinality(holders(p)) = 1
             /\ \A h \in holders(p) : h[1][2] = Team[p]
             /\ InWorld(p) /\ pl[p].bg = NoBg
             /\ pl[p].queueId = GroupOf(p).bg
  <2>1. PICK l \in Lists : \E i \in Positions(queue, l) : p \in queue[l][i].players
    BY <1>1, <1>2 DEF Queued
  <2>2. PICK i \in Positions(queue, l) : p \in queue[l][i].players
    BY <2>1
  <2>3. \A m \in Lists : \A j \in Positions(queue, m) :
           p \in queue[m][j].players => m = l /\ j = i
    BY <1>1, <2>2 DEF QueueOk, OneGroup
  <2>4. \A h : h \in holders(p) <=>
           \E m \in Lists : \E j \in Positions(queue, m) :
              p \in queue[m][j].players /\ h = <<m, j>>
    BY DEF Positions
  <2> HIDE DEF holders
  <2>5. holders(p) = {<<l, i>>}
    BY <2>2, <2>3, <2>4
  <2>6. Cardinality(holders(p)) = 1
    BY <2>5, FS_Singleton
  <2>7. Team[p] = l[2] /\ pl[p].online /\ ~pl[p].transit /\ pl[p].bg = NoBg
    BY <1>1, <2>2 DEF QueueOk
  <2>8. GroupOf(p).bg = pl[p].queueId
    BY <1>1, <1>2, InvitedIs
  <2> QED
    BY <2>5, <2>6, <2>7, <2>8 DEF InWorld
<1>3. ASSUME NEW p \in Players, pl[p].queueId # NoQueue, p \notin InQueue
      PROVE  pl[p].queueId = pl[p].bg /\ Exists(pl[p].bg)
  <2>1. PlayerOk(Queued(queue), bgs, pl, p) /\ (pl[p].bg # NoBg => pl[p].bg \in Bgs)
    BY Facts
  <2>2. pl[p].queueId = pl[p].bg /\ pl[p].bg \in Bgs
    BY <1>1, <1>3, <2>1 DEF PlayerOk
  <2>3. p \in Claims(bgs, pl, pl[p].bg)
    BY <2>2 DEF Claims
  <2>4. bgs[pl[p].bg].status # "none"
    BY <1>1, <2>2, <2>3, ClaimedExists
  <2> QED
    BY <1>1, <2>2, <2>4 DEF Exists
<1> HIDE DEF IInv
<1> QED
  BY <1>2, <1>3 DEF QueueAgrees

(* The queue and the players agree until a group joins unchecked. *)
THEOREM QueueAgreesCorrect == Spec => []QueueAgrees
<1>1. Inv => QueueAgrees
  BY QueueAndPlayersAgree DEF Inv, QueueAgrees
<1> QED
  BY <1>1, Invariance, PTL

================================================================================
