----------------------------- MODULE PieceProofs -----------------------------
(***************************************************************************)
(* The pieces of a torrent: those in memory (PiecePool) and those asked    *)
(* for (Streaming).                                                        *)
(*                                                                         *)
(* Of the pool: type correctness, that its counter never passes the        *)
(* capacity and that it tells the truth, for any torrents, lengths,        *)
(* callers and capacity.  Of what is asked for: that it is one window, and *)
(* that "not buffering" means what it says, for any layout, sizes, bands   *)
(* and picks.  The sums both count with are proved about first.            *)
(***************************************************************************)
EXTENDS PiecePool, Streaming, FiniteSetTheorems, WellFoundedInduction, TLAPS

-----------------------------------------------------------------------------
(* Sums over a finite set, as SumFunctionOnSet defines them: by taking one *)
(* element after the other.  Induction is over the subsets of that set.    *)

\* The order of the natural numbers, as the library's set of pairs.
LEMMA LessThanIs == OpToRel(<, Nat) = {pair \in Nat \X Nat : pair[1] < pair[2]}
BY DEF OpToRel

LEMMA LeastIs ==
    ASSUME NEW T \in SUBSET Nat, T # {}
    PROVE  \E n \in T : \A m \in T : n <= m
<1> DEFINE less == {pair \in Nat \X Nat : pair[1] < pair[2]}
<1>1. IsWellFoundedOn(less, Nat)
  BY NatLessThanWellFounded, LessThanIs
<1>2. PICK n \in T : \A m \in T : ~ (<<m, n>> \in less)
  <2> HIDE DEF less
  <2> QED BY <1>1, WFMin
<1>3. \A m \in T : n <= m
  <2> TAKE m \in T
  <2>1. m \in Nat /\ n \in Nat /\ ~ (m < n)
    BY <1>2
  <2> QED BY <2>1
<1> QED BY <1>3

\* Induction over the subsets of a finite set: what holds of one when it holds of the
\* smaller ones holds of all.  Good is a set, so that the provers can instantiate it.
LEMMA BySize ==
    ASSUME NEW S, IsFiniteSet(S), NEW Good,
           \A T \in SUBSET S : (\A R \in SUBSET T : R # T => R \in Good) => T \in Good
    PROVE  \A T \in SUBSET S : T \in Good
<1> DEFINE Sizes == {Cardinality(T) : T \in {U \in SUBSET S : U \notin Good}}
<1>1. \A T \in SUBSET S : IsFiniteSet(T) /\ Cardinality(T) \in Nat
  BY FS_Subset, FS_CardinalityType
<1> SUFFICES ASSUME Sizes # {} PROVE FALSE
  OBVIOUS
<1>2. Sizes \subseteq Nat
  BY <1>1
<1>3. PICK n \in Sizes : \A m \in Sizes : n <= m
  <2> HIDE DEF Sizes
  <2> QED BY <1>2, LeastIs
<1>4. PICK T \in SUBSET S : T \notin Good /\ n = Cardinality(T)
  OBVIOUS
<1>5. ASSUME NEW R \in SUBSET T, R # T PROVE R \in Good
  <2>1. Cardinality(R) < Cardinality(T) /\ Cardinality(R) \in Nat /\ R \in SUBSET S
    BY <1>1, <1>5, FS_Subset
  <2>2. Cardinality(R) \notin Sizes
    <3>1. Cardinality(T) \in Nat
      BY <1>1
    <3> HIDE DEF Sizes
    <3> QED BY <1>3, <1>4, <2>1, <3>1
  <2> QED BY <2>1, <2>2
<1> QED BY <1>4, <1>5

\* The element a sum takes first, and the equation of its recursion.
Some(s) == CHOOSE x \in s : TRUE
IsSum(g, f, S) ==
    g = [s \in SUBSET S |-> IF s = {} THEN 0 ELSE f[Some(s)] + g[s \ {Some(s)}]]

LEMMA SumIs ==
    ASSUME NEW f, NEW S, NEW h, IsSum(h, f, S)
    PROVE  \E g : IsSum(g, f, S) /\ SumFunctionOnSet(f, S) = g[S]
BY DEF SumFunctionOnSet, FoldFunctionOnSet, MapThenFoldSet, IsSum, Some

LEMMA SomeIs == ASSUME NEW s, s # {} PROVE Some(s) \in s
BY DEF Some

LEMMA IsSumAt ==
    ASSUME NEW f, NEW S, NEW g, IsSum(g, f, S), NEW s \in SUBSET S
    PROVE  g[s] = IF s = {} THEN 0 ELSE f[Some(s)] + g[s \ {Some(s)}]
<1> DEFINE h == [r \in SUBSET S |-> IF r = {} THEN 0 ELSE f[Some(r)] + g[r \ {Some(r)}]]
<1>1. g = h
  BY DEF IsSum
<1>2. h[s] = IF s = {} THEN 0 ELSE f[Some(s)] + g[s \ {Some(s)}]
  OBVIOUS
<1> QED BY <1>1, <1>2

LEMMA IsSumBelow ==
    ASSUME NEW f, NEW S, NEW g, IsSum(g, f, S), NEW T \in SUBSET S
    PROVE  IsSum([s \in SUBSET T |-> g[s]], f, T)
<1> DEFINE h == [s \in SUBSET T |-> g[s]]
           k == [s \in SUBSET T |-> IF s = {} THEN 0 ELSE f[Some(s)] + h[s \ {Some(s)}]]
<1>1. ASSUME NEW s \in SUBSET T PROVE h[s] = k[s]
  <2>1. g[s] = IF s = {} THEN 0 ELSE f[Some(s)] + g[s \ {Some(s)}]
    BY IsSumAt
  <2>2. h[s] = g[s] /\ h[s \ {Some(s)}] = g[s \ {Some(s)}]
    OBVIOUS
  <2> QED BY <2>1, <2>2
<1>2. h = k
  BY <1>1
<1> QED BY <1>2 DEF IsSum

LEMMA OneSum ==
    ASSUME NEW f, NEW S, IsFiniteSet(S), NEW g, NEW h, IsSum(g, f, S), IsSum(h, f, S)
    PROVE  g[S] = h[S]
<1> DEFINE Good == {s \in SUBSET S : g[s] = h[s]}
<1>1. ASSUME NEW T \in SUBSET S, \A R \in SUBSET T : R # T => R \in Good
      PROVE  T \in Good
  <2>1. g[T] = IF T = {} THEN 0 ELSE f[Some(T)] + g[T \ {Some(T)}]
    BY IsSumAt
  <2>2. h[T] = IF T = {} THEN 0 ELSE f[Some(T)] + h[T \ {Some(T)}]
    BY IsSumAt
  <2>3. T # {} => T \ {Some(T)} \in Good
    BY <1>1, SomeIs
  <2> QED BY <2>1, <2>2, <2>3
<1> HIDE DEF Good
<1>2. S \in Good
  BY <1>1, BySize
<1> QED BY <1>2 DEF Good

LEMMA SumOfSmaller ==
    ASSUME NEW f, NEW S, IsFiniteSet(S), NEW g, IsSum(g, f, S), NEW T \in SUBSET S
    PROVE  SumFunctionOnSet(f, T) = g[T]
<1> DEFINE h == [s \in SUBSET T |-> g[s]]
<1>1. IsSum(h, f, T)
  BY IsSumBelow
<1>2. IsFiniteSet(T)
  BY FS_Subset
<1>3. h[T] = g[T]
  OBVIOUS
<1> HIDE DEF h
<1>4. PICK k : IsSum(k, f, T) /\ SumFunctionOnSet(f, T) = k[T]
  BY <1>1, SumIs
<1> QED BY <1>1, <1>2, <1>3, <1>4, OneSum

LEMMA SumExists ==
    ASSUME NEW f, NEW S, IsFiniteSet(S)
    PROVE  \E g : IsSum(g, f, S)
<1> DEFINE Good == {T \in SUBSET S : \E g : IsSum(g, f, T)}
<1>1. ASSUME NEW T \in SUBSET S, \A R \in SUBSET T : R # T => R \in Good
      PROVE  T \in Good
  <2> DEFINE g == [s \in SUBSET T |->
                      IF s = {} THEN 0 ELSE f[Some(s)] + SumFunctionOnSet(f, s \ {Some(s)})]
             k == [s \in SUBSET T |->
                      IF s = {} THEN 0 ELSE f[Some(s)] + g[s \ {Some(s)}]]
  <2>1. ASSUME NEW s \in SUBSET T, s # {} PROVE g[s \ {Some(s)}] = SumFunctionOnSet(f, s \ {Some(s)})
    <3> DEFINE r == s \ {Some(s)}
    <3>1. r \in SUBSET T /\ r # T /\ r \in SUBSET S
      BY <2>1, SomeIs
    <3>2. PICK h : IsSum(h, f, r)
      BY <1>1, <3>1
    <3>3. IsFiniteSet(r)
      BY <3>1, FS_Subset
    <3>4. g[r] = IF r = {} THEN 0 ELSE f[Some(r)] + SumFunctionOnSet(f, r \ {Some(r)})
      BY <3>1
    <3> HIDE DEF r, g
    <3>5. h[r] = IF r = {} THEN 0 ELSE f[Some(r)] + h[r \ {Some(r)}]
      BY <3>2, IsSumAt
    <3>6. SumFunctionOnSet(f, r) = h[r] /\ SumFunctionOnSet(f, r \ {Some(r)}) = h[r \ {Some(r)}]
      BY <3>2, <3>3, SumOfSmaller
    <3>7. g[r] = SumFunctionOnSet(f, r)
      BY <3>4, <3>5, <3>6
    <3> QED BY <3>7 DEF r
  <2>2. ASSUME NEW s \in SUBSET T PROVE g[s] = k[s]
    <3>1. CASE s = {}
      BY <3>1
    <3>2. CASE s # {}
      <4>1. g[s] = f[Some(s)] + SumFunctionOnSet(f, s \ {Some(s)}) /\ k[s] = f[Some(s)] + g[s \ {Some(s)}]
        BY <3>2
      <4> HIDE DEF g, k
      <4> QED BY <2>1, <3>2, <4>1
    <3> QED BY <3>1, <3>2
  <2>3. g = k
    BY <2>2
  <2>4. IsSum(g, f, T)
    BY <2>3 DEF IsSum
  <2> QED BY <2>4
<1> HIDE DEF Good
<1>2. S \in Good
  BY <1>1, BySize
<1> QED BY <1>2 DEF Good

LEMMA SumByFirst ==
    ASSUME NEW f, NEW S, IsFiniteSet(S), S # {}
    PROVE  SumFunctionOnSet(f, S) = f[Some(S)] + SumFunctionOnSet(f, S \ {Some(S)})
<1>1. PICK g : IsSum(g, f, S)
  BY SumExists
<1>2. SumFunctionOnSet(f, S) = g[S] /\ SumFunctionOnSet(f, S \ {Some(S)}) = g[S \ {Some(S)}]
  BY <1>1, SumOfSmaller
<1> QED BY <1>1, <1>2, IsSumAt

LEMMA SumOfNothing == ASSUME NEW f PROVE SumFunctionOnSet(f, {}) = 0
<1>1. IsFiniteSet({}) /\ {} \in SUBSET {}
  BY FS_EmptySet
<1>2. PICK g : IsSum(g, f, {})
  BY <1>1, SumExists
<1>3. SumFunctionOnSet(f, {}) = g[{}] /\ g[{}] = 0
  BY <1>1, <1>2, SumOfSmaller, IsSumAt
<1> QED BY <1>3

LEMMA SumIsInt ==
    ASSUME NEW f, NEW S, IsFiniteSet(S), \A x \in S : f[x] \in Int
    PROVE  \A T \in SUBSET S : SumFunctionOnSet(f, T) \in Int
<1> DEFINE Good == {T \in SUBSET S : SumFunctionOnSet(f, T) \in Int}
<1>1. ASSUME NEW T \in SUBSET S, \A R \in SUBSET T : R # T => R \in Good
      PROVE  T \in Good
  <2>1. CASE T = {}
    BY <2>1, SumOfNothing
  <2>2. CASE T # {}
    <3>1. Some(T) \in T /\ IsFiniteSet(T)
      BY <2>2, SomeIs, FS_Subset
    <3>2. SumFunctionOnSet(f, T \ {Some(T)}) \in Int /\ f[Some(T)] \in Int
      BY <1>1, <3>1
    <3> QED BY <2>2, <3>1, <3>2, SumByFirst
  <2> QED BY <2>1, <2>2
<1> HIDE DEF Good
<1>2. \A T \in SUBSET S : T \in Good
  BY <1>1, BySize
<1> QED BY <1>2 DEF Good

\* Any element can be taken out first.
LEMMA SumWithout ==
    ASSUME NEW f, NEW S, IsFiniteSet(S), \A x \in S : f[x] \in Int, NEW x \in S
    PROVE  SumFunctionOnSet(f, S) = f[x] + SumFunctionOnSet(f, S \ {x})
<1> DEFINE Good == {T \in SUBSET S : \A y \in T : SumFunctionOnSet(f, T) = f[y] + SumFunctionOnSet(f, T \ {y})}
<1>1. ASSUME NEW T \in SUBSET S, \A R \in SUBSET T : R # T => R \in Good
      PROVE  T \in Good
  <2>1. ASSUME NEW y \in T PROVE SumFunctionOnSet(f, T) = f[y] + SumFunctionOnSet(f, T \ {y})
    <3> DEFINE z == Some(T)
    <3>1. z \in T /\ IsFiniteSet(T) /\ IsFiniteSet(T \ {y})
      BY <2>1, SomeIs, FS_Subset
    <3>2. SumFunctionOnSet(f, T) = f[z] + SumFunctionOnSet(f, T \ {z})
      BY <2>1, <3>1, SumByFirst
    <3> HIDE DEF z
    <3>3. CASE y = z
      BY <3>2, <3>3
    <3>4. CASE y # z
      <4>1. T \ {z} \in Good /\ T \ {y} \in Good
        BY <1>1, <2>1, <3>1
      <4>2. SumFunctionOnSet(f, T \ {z}) = f[y] + SumFunctionOnSet(f, (T \ {z}) \ {y})
        BY <2>1, <3>4, <4>1
      <4>3. SumFunctionOnSet(f, T \ {y}) = f[z] + SumFunctionOnSet(f, (T \ {y}) \ {z})
        BY <3>1, <3>4, <4>1
      <4>4. (T \ {z}) \ {y} = (T \ {y}) \ {z}
        OBVIOUS
      <4> DEFINE rest == SumFunctionOnSet(f, (T \ {y}) \ {z})
      <4>5. rest \in Int /\ f[y] \in Int /\ f[z] \in Int
        BY <2>1, <3>1, SumIsInt
      <4>6. SumFunctionOnSet(f, T) = f[z] + (f[y] + rest) /\ SumFunctionOnSet(f, T \ {y}) = f[z] + rest
        BY <3>2, <4>2, <4>3, <4>4
      <4> HIDE DEF rest
      <4>7. f[z] + (f[y] + rest) = f[y] + (f[z] + rest)
        BY <4>5
      <4> QED BY <4>6, <4>7
    <3> QED BY <3>3, <3>4
  <2> QED BY <2>1
<1> HIDE DEF Good
<1>2. S \in Good
  BY <1>1, BySize, S \in SUBSET S
<1> QED BY <1>2 DEF Good

\* Only the values at the elements count.
LEMMA SumOfSame ==
    ASSUME NEW f, NEW g, NEW S, IsFiniteSet(S), \A x \in S : f[x] = g[x]
    PROVE  SumFunctionOnSet(f, S) = SumFunctionOnSet(g, S)
<1> DEFINE Good == {T \in SUBSET S : SumFunctionOnSet(f, T) = SumFunctionOnSet(g, T)}
<1>1. ASSUME NEW T \in SUBSET S, \A R \in SUBSET T : R # T => R \in Good
      PROVE  T \in Good
  <2>1. CASE T = {}
    BY <2>1, SumOfNothing
  <2>2. CASE T # {}
    <3>1. Some(T) \in T /\ IsFiniteSet(T)
      BY <2>2, SomeIs, FS_Subset
    <3>2. /\ SumFunctionOnSet(f, T) = f[Some(T)] + SumFunctionOnSet(f, T \ {Some(T)})
          /\ SumFunctionOnSet(g, T) = g[Some(T)] + SumFunctionOnSet(g, T \ {Some(T)})
      BY <2>2, <3>1, SumByFirst
    <3>3. T \ {Some(T)} \in Good
      BY <1>1, <3>1
    <3> QED BY <3>1, <3>2, <3>3
  <2> QED BY <2>1, <2>2
<1> HIDE DEF Good
<1>2. S \in Good
  BY <1>1, BySize
<1> QED BY <1>2 DEF Good

LEMMA SumOfZeros ==
    ASSUME NEW f, NEW S, IsFiniteSet(S), \A x \in S : f[x] = 0
    PROVE  SumFunctionOnSet(f, S) = 0
<1> DEFINE Good == {T \in SUBSET S : SumFunctionOnSet(f, T) = 0}
<1>1. ASSUME NEW T \in SUBSET S, \A R \in SUBSET T : R # T => R \in Good
      PROVE  T \in Good
  <2>1. CASE T = {}
    BY <2>1, SumOfNothing
  <2>2. CASE T # {}
    <3>1. Some(T) \in T /\ IsFiniteSet(T) /\ f[Some(T)] = 0
      BY <2>2, SomeIs, FS_Subset
    <3>2. SumFunctionOnSet(f, T) = f[Some(T)] + SumFunctionOnSet(f, T \ {Some(T)})
      BY <2>2, <3>1, SumByFirst
    <3>3. T \ {Some(T)} \in Good
      BY <1>1, <3>1
    <3> QED BY <3>1, <3>2, <3>3
  <2> QED BY <2>1, <2>2
<1> HIDE DEF Good
<1>2. S \in Good
  BY <1>1, BySize, S \in SUBSET S
<1> QED BY <1>2 DEF Good

\* A sum changes with one of its summands, and by as much.
LEMMA SumChanges ==
    ASSUME NEW S, IsFiniteSet(S), NEW x \in S, NEW d \in Int,
           NEW f, \A y \in S : f[y] \in Int, NEW g, \A y \in S : g[y] \in Int,
           g[x] = f[x] + d, \A y \in S \ {x} : g[y] = f[y]
    PROVE  SumFunctionOnSet(g, S) = SumFunctionOnSet(f, S) + d
<1>1. SumFunctionOnSet(f, S) = f[x] + SumFunctionOnSet(f, S \ {x}) /\ SumFunctionOnSet(g, S) = g[x] + SumFunctionOnSet(g, S \ {x})
  BY SumWithout
<1>2. IsFiniteSet(S \ {x})
  BY FS_Subset
<1>3. SumFunctionOnSet(f, S \ {x}) = SumFunctionOnSet(g, S \ {x})
  BY <1>2, SumOfSame
<1>4. SumFunctionOnSet(f, S \ {x}) \in Int
  BY SumIsInt
<1> QED BY <1>1, <1>3, <1>4

-----------------------------------------------------------------------------
(* The pool.                                                               *)

\* Whoever is about to swap the counter read a value that leaves room.
SwapHasRoom == \A c \in Callers : call[c].at = "swap" => Room(call[c].read, call[c].piece)

PoolInv == PoolTypeOK /\ SwapHasRoom /\ CapacityHolds

-----------------------------------------------------------------------------
(* Calls.                                                                  *)

Waiting == [at : {"ask", "write", "mark"}, torrent : Providers, piece : Indices, tracked : BOOLEAN]
Swapping == [at : {"swap"}, torrent : Providers, piece : Indices, read : Int, tries : 1..MaxAttempts]
Inserting == [at : {"insert"}, torrent : Providers, piece : Indices]

\* The stage of a call tells its shape.
LEMMA CallIs ==
    ASSUME PoolTypeOK, NEW c \in Callers
    PROVE  /\ call[c].at \in {"ask", "write", "mark"} => call[c] \in Waiting
           /\ call[c].at = "swap" => call[c] \in Swapping
           /\ call[c].at = "insert" => call[c] \in Inserting
           /\ call[c] = NoCall => call[c].at = "idle"
<1>1. call[c] \in Waiting \cup Swapping \cup Inserting \cup {NoCall}
  BY DEF PoolTypeOK, Calls, Waiting, Swapping, Inserting
<1>2. CASE call[c] = NoCall
  BY <1>2 DEF NoCall
<1>3. CASE call[c] \in Waiting
  BY <1>3 DEF Waiting, NoCall
<1>4. CASE call[c] \in Swapping
  BY <1>4 DEF Swapping, NoCall
<1>5. CASE call[c] \in Inserting
  BY <1>5 DEF Inserting, NoCall
<1>6. QED
  BY <1>1, <1>2, <1>3, <1>4, <1>5

\* What a step writes into one call, when that has a shape of the code's and,
\* if it is to swap, room.
LEMMA OneCall ==
    ASSUME PoolInv, NEW c \in Callers, NEW next,
           call' = [call EXCEPT ![c] = next],
           next \in Waiting \cup Swapping \cup Inserting \cup {NoCall},
           next.at = "swap" => Room(next.read, next.piece)
    PROVE  call' \in [Callers -> Calls \cup {NoCall}] /\ SwapHasRoom'
<1>1. call' \in [Callers -> Calls \cup {NoCall}]
  BY DEF PoolInv, PoolTypeOK, Calls, Waiting, Swapping, Inserting
<1>2. SwapHasRoom'
  <2>1. ASSUME NEW d \in Callers, call'[d].at = "swap"
        PROVE  Room(call'[d].read, call'[d].piece)
    <3>1. CASE d = c
      BY <2>1, <3>1 DEF PoolInv, PoolTypeOK
    <3>2. CASE d # c
      BY <2>1, <3>2 DEF PoolInv, PoolTypeOK, SwapHasRoom
    <3>3. QED
      BY <3>1, <3>2
  <2>2. QED
    BY <2>1 DEF SwapHasRoom, Room
<1>3. QED
  BY <1>1, <1>2

-----------------------------------------------------------------------------
(* One lemma per group of actions.                                         *)

LEMMA InitInv == PoolInit => PoolInv
<1> SUFFICES ASSUME PoolInit PROVE PoolInv
  OBVIOUS
<1>1. PoolTypeOK
  BY PoolAssumption DEF PoolInit, PoolTypeOK
<1>2. SwapHasRoom
  BY DEF PoolInit, SwapHasRoom, NoCall
<1>3. CapacityHolds
  BY PoolAssumption DEF PoolInit, CapacityHolds
<1>4. QED
  BY <1>1, <1>2, <1>3 DEF PoolInv

LEMMA OpenKeeps ==
    ASSUME PoolInv, NEW t \in Providers, OpenTorrent(t)
    PROVE  PoolInv'
<1>1. opens[t] + 1 \in 0..MaxOpens
  BY PoolAssumption DEF PoolInv, PoolTypeOK, OpenTorrent
<1>2. PoolTypeOK'
  BY <1>1 DEF PoolInv, PoolTypeOK, OpenTorrent, Calls
<1>3. QED
  BY <1>2 DEF PoolInv, OpenTorrent, SwapHasRoom, CapacityHolds, Room

\* The end of a torrent only lowers the counter, and moves no call to or from
\* a swap.
LEMMA CloseKeeps ==
    ASSUME PoolInv, NEW t \in Providers, Close(t)
    PROVE  PoolInv'
<1> DEFINE Kept(c) == IF call[c].at \in {"write", "mark"} /\ call[c].torrent = t
                      THEN [call[c] EXCEPT !.tracked = FALSE] ELSE call[c]
<1>1. call' = [c \in Callers |-> Kept(c)]
  BY DEF Close
<1>2. ASSUME NEW c \in Callers
      PROVE  /\ Kept(c) \in Calls \cup {NoCall}
             /\ Kept(c).at = "swap" => Kept(c) = call[c]
  <2>1. CASE call[c].at \in {"write", "mark"} /\ call[c].torrent = t
    <3>1. call[c] \in Waiting
      BY <2>1, CallIs DEF PoolInv
    <3>2. Kept(c) = [call[c] EXCEPT !.tracked = FALSE]
      BY <2>1
    <3>3. Kept(c) \in Waiting /\ Kept(c).at = call[c].at
      BY <3>1, <3>2 DEF Waiting
    <3>4. QED
      BY <2>1, <3>3 DEF Waiting, Calls
  <2>2. CASE ~(call[c].at \in {"write", "mark"} /\ call[c].torrent = t)
    BY <2>2 DEF PoolInv, PoolTypeOK
  <2>3. QED
    BY <2>1, <2>2
<1>3. call' \in [Callers -> Calls \cup {NoCall}]
  BY <1>1, <1>2
<1>4. SwapHasRoom'
  <2>1. ASSUME NEW c \in Callers, call'[c].at = "swap"
        PROVE  Room(call'[c].read, call'[c].piece)
    BY <1>1, <1>2, <2>1 DEF PoolInv, SwapHasRoom
  <2>2. QED
    BY <2>1 DEF SwapHasRoom, Room
<1>5. used' \in Int /\ used' <= used
  BY DEF Close, PoolInv, PoolTypeOK
<1>6. PoolTypeOK'
  BY <1>3, <1>5 DEF Close, PoolInv, PoolTypeOK, Calls
<1>7. CapacityHolds'
  BY <1>5, PoolAssumption DEF Close, PoolInv, PoolTypeOK, CapacityHolds
<1>8. QED
  BY <1>4, <1>6, <1>7 DEF PoolInv

\* Steps of a call that leave the counter alone.
LEMMA AskKeeps ==
    ASSUME PoolInv, NEW c \in Callers, NEW t \in Providers, NEW i \in Indices, Ask(c, t, i)
    PROVE  PoolInv'
<1> DEFINE next == [at |-> "ask", torrent |-> t, piece |-> i, tracked |-> FALSE]
<1>1. call' = [call EXCEPT ![c] = next] /\ next \in Waiting /\ next.at # "swap"
  BY DEF Ask, Waiting
<1>2. call' \in [Callers -> Calls \cup {NoCall}] /\ SwapHasRoom'
  <2> HIDE DEF next
  <2> QED
    BY <1>1, OneCall
<1>3. QED
  BY <1>2 DEF Ask, PoolInv, PoolTypeOK, CapacityHolds, Calls

LEMMA FoundKeeps ==
    ASSUME PoolInv, NEW c \in Callers, Found(c)
    PROVE  PoolInv'
<1> DEFINE next == [call[c] EXCEPT !.at = "write", !.tracked = TRUE]
<1>1. call[c] \in Waiting
  BY CallIs DEF PoolInv, Found
<1>2. call' = [call EXCEPT ![c] = next]
  BY <1>1 DEF Found, PoolInv, PoolTypeOK
<1>3. next \in Waiting /\ next.at # "swap"
  BY <1>1 DEF Waiting
<1>4. call' \in [Callers -> Calls \cup {NoCall}] /\ SwapHasRoom'
  <2> HIDE DEF next
  <2> QED
    BY <1>2, <1>3, OneCall
<1>5. QED
  BY <1>4 DEF Found, PoolInv, PoolTypeOK, CapacityHolds, Calls

LEMMA UntrackedIs ==
    ASSUME PoolTypeOK, NEW c \in Callers, call[c].at \in {"ask", "swap", "insert"}
    PROVE  /\ Untracked(c) \in Waiting /\ Untracked(c).at = "write"
           /\ [Untracked(c) EXCEPT !.tracked = TRUE] \in Waiting
           /\ [Untracked(c) EXCEPT !.tracked = TRUE].at = "write"
<1>1. call[c].torrent \in Providers /\ call[c].piece \in Indices
  BY CallIs DEF Waiting, Swapping, Inserting
<1>2. QED
  BY <1>1 DEF Untracked, Waiting

LEMMA ReadCounterKeeps ==
    ASSUME PoolInv, NEW c \in Callers, ReadCounter(c)
    PROVE  PoolInv'
<1> DEFINE next == [at |-> "swap", torrent |-> call[c].torrent,
                    piece |-> call[c].piece, read |-> used, tries |-> 1]
<1>1. call[c] \in Waiting
  BY CallIs DEF PoolInv, ReadCounter, Missing
<1>2. call' = [call EXCEPT ![c] = next] /\ Room(next.read, next.piece)
  BY DEF ReadCounter
<1>3. next \in Swapping
  BY <1>1, PoolAssumption DEF PoolInv, PoolTypeOK, Waiting, Swapping
<1>4. call' \in [Callers -> Calls \cup {NoCall}] /\ SwapHasRoom'
  <2> HIDE DEF next
  <2> QED
    BY <1>2, <1>3, OneCall
<1>5. QED
  BY <1>4 DEF ReadCounter, PoolInv, PoolTypeOK, CapacityHolds, Calls

LEMMA RefuseKeeps ==
    ASSUME PoolInv, NEW c \in Callers, Refuse(c)
    PROVE  PoolInv'
<1>1. call' = [call EXCEPT ![c] = Untracked(c)]
  BY DEF Refuse
<1>2. Untracked(c) \in Waiting /\ Untracked(c).at # "swap"
  BY UntrackedIs DEF PoolInv, Refuse, Missing
<1>3. call' \in [Callers -> Calls \cup {NoCall}] /\ SwapHasRoom'
  BY <1>1, <1>2, OneCall
<1>4. QED
  BY <1>3 DEF Refuse, PoolInv, PoolTypeOK, CapacityHolds, Calls

LEMMA RetryKeeps ==
    ASSUME PoolInv, NEW c \in Callers, Retry(c)
    PROVE  PoolInv'
<1> DEFINE again == [call[c] EXCEPT !.read = used, !.tries = @ + 1]
<1>1. call[c] \in Swapping /\ used \in Int
  BY CallIs DEF PoolInv, PoolTypeOK, Retry
<1>2. call' \in [Callers -> Calls \cup {NoCall}] /\ SwapHasRoom'
  <2>1. CASE call[c].tries < MaxAttempts /\ Room(used, call[c].piece)
    <3>1. call' = [call EXCEPT ![c] = again]
      BY <2>1 DEF Retry
    <3>2. again \in Swapping
      <4>1. call[c].tries + 1 \in 1..MaxAttempts
        BY <1>1, <2>1, PoolAssumption DEF Swapping
      <4>2. QED
        BY <1>1, <4>1 DEF Swapping
    <3>3. Room(again.read, again.piece)
      BY <1>1, <2>1 DEF Swapping
    <3>4. QED
      <4> HIDE DEF again
      <4> QED
        BY <3>1, <3>2, <3>3, OneCall
  <2>2. CASE ~(call[c].tries < MaxAttempts /\ Room(used, call[c].piece))
    <3>1. call' = [call EXCEPT ![c] = Untracked(c)]
      BY <2>2 DEF Retry
    <3>2. Untracked(c) \in Waiting /\ Untracked(c).at # "swap"
      BY UntrackedIs DEF PoolInv, Retry
    <3>3. QED
      BY <3>1, <3>2, OneCall
  <2>3. QED
    BY <2>1, <2>2
<1>3. QED
  BY <1>2 DEF Retry, PoolInv, PoolTypeOK, CapacityHolds, Calls

\* The swap adds to the very value that was read with room to spare.
LEMMA SwapKeeps ==
    ASSUME PoolInv, NEW c \in Callers, CompareAndSwap(c)
    PROVE  PoolInv'
<1> DEFINE next == [at |-> "insert", torrent |-> call[c].torrent, piece |-> call[c].piece]
<1>1. call[c] \in Swapping
  BY CallIs DEF PoolInv, CompareAndSwap
<1>2. call' = [call EXCEPT ![c] = next]
  BY DEF CompareAndSwap
<1>3. next \in Inserting /\ next.at # "swap"
  BY <1>1 DEF Swapping, Inserting
<1>4. call' \in [Callers -> Calls \cup {NoCall}] /\ SwapHasRoom'
  <2> HIDE DEF next
  <2> QED
    BY <1>2, <1>3, OneCall
<1>5. PieceLength[call[c].piece] \in Nat
  BY <1>1, PoolAssumption DEF Swapping
<1>6. used' \in Int
  BY <1>5 DEF CompareAndSwap, PoolInv, PoolTypeOK
<1>7. CapacityHolds'
  <2>1. SUFFICES ASSUME Capacity # 0 PROVE used' <= Capacity
    BY DEF CapacityHolds
  <2>2. used' = call[c].read + PieceLength[call[c].piece]
    BY <2>1 DEF CompareAndSwap
  <2>3. Room(call[c].read, call[c].piece)
    BY DEF PoolInv, SwapHasRoom, CompareAndSwap
  <2>4. QED
    BY <2>1, <2>2, <2>3 DEF Room
<1>8. PoolTypeOK'
  BY <1>4, <1>6 DEF CompareAndSwap, PoolInv, PoolTypeOK, Calls
<1>9. QED
  BY <1>4, <1>7, <1>8 DEF PoolInv

LEMMA InsertKeeps ==
    ASSUME PoolInv, NEW c \in Callers, Insert(c)
    PROVE  PoolInv'
<1> DEFINE next == [Untracked(c) EXCEPT !.tracked = TRUE]
<1>1. call[c] \in Inserting
  BY CallIs DEF PoolInv, Insert
<1>2. call' = [call EXCEPT ![c] = next]
  BY DEF Insert
<1>3. next \in Waiting /\ next.at # "swap"
  BY UntrackedIs DEF PoolInv, Insert
<1>4. call' \in [Callers -> Calls \cup {NoCall}] /\ SwapHasRoom'
  <2> HIDE DEF next
  <2> QED
    BY <1>2, <1>3, OneCall
<1>5. call[c].torrent \in Providers /\ call[c].piece \in Indices
      /\ PieceLength[call[c].piece] \in Nat
  BY <1>1, PoolAssumption DEF Inserting
<1>6. total' \in [Providers -> Nat] /\ pieces' \in [Providers -> SUBSET Indices]
  BY <1>5 DEF Insert, PoolInv, PoolTypeOK
<1>7. QED
  BY <1>4, <1>6 DEF Insert, PoolInv, PoolTypeOK, CapacityHolds, Calls

LEMMA WriteAtKeeps ==
    ASSUME PoolInv, NEW c \in Callers, WriteAt(c)
    PROVE  PoolInv'
<1> DEFINE next == [call[c] EXCEPT !.at = "mark"]
<1>1. call[c] \in Waiting
  BY CallIs DEF PoolInv, WriteAt
<1>2. call' = [call EXCEPT ![c] = next]
  BY <1>1 DEF WriteAt, PoolInv, PoolTypeOK
<1>3. next \in Waiting /\ next.at # "swap"
  BY <1>1 DEF Waiting
<1>4. call' \in [Callers -> Calls \cup {NoCall}] /\ SwapHasRoom'
  <2> HIDE DEF next
  <2> QED
    BY <1>2, <1>3, OneCall
<1>5. written' \in [Providers -> SUBSET Indices]
  <2>1. call[c].torrent \in Providers /\ call[c].piece \in Indices
    BY <1>1 DEF Waiting
  <2>2. QED
    BY <2>1 DEF WriteAt, PoolInv, PoolTypeOK
<1>6. QED
  BY <1>4, <1>5 DEF WriteAt, PoolInv, PoolTypeOK, CapacityHolds, Calls

LEMMA MarkKeeps ==
    ASSUME PoolInv, NEW c \in Callers, NEW good \in BOOLEAN, Mark(c, good)
    PROVE  PoolInv'
<1>1. call[c] \in Waiting
  BY CallIs DEF PoolInv, Mark
<1>2. call' = [call EXCEPT ![c] = NoCall] /\ NoCall.at # "swap"
  BY DEF Mark, NoCall
<1>3. call' \in [Callers -> Calls \cup {NoCall}] /\ SwapHasRoom'
  BY <1>2, OneCall
<1>4. complete' \in [Providers -> SUBSET Indices]
  <2>1. call[c].torrent \in Providers /\ call[c].piece \in Indices
    BY <1>1 DEF Waiting
  <2>2. QED
    BY <2>1 DEF Mark, PoolInv, PoolTypeOK
<1>5. QED
  BY <1>3, <1>4 DEF Mark, PoolInv, PoolTypeOK, CapacityHolds, Calls

-----------------------------------------------------------------------------
(* The counter tells the truth.                                            *)

Allocating(c) == call[c].at \in {"swap", "insert"}

\* The provider's lock: one allocation at a time in each.
OneAllocates == \A c, d \in Callers :
    Allocating(c) /\ Allocating(d) /\ call[c].torrent = call[d].torrent => c = d

\* What is being allocated is not in the map yet.
NotThereYet == \A c \in Callers : Allocating(c) => call[c].piece \notin pieces[call[c].torrent]

\* In its first life a provider's total is what its map holds.
FirstLife == /\ \A t \in open : opens[t] >= 1
             /\ \A c \in Callers : call[c] # NoCall => opens[call[c].torrent] >= 1
             /\ \A t \in open : opens[t] = 1 => total[t] = Bytes(pieces[t])
             /\ \A t \in Providers : opens[t] = 0 => pieces[t] = {} /\ total[t] = 0

TruthInv == OneAllocates /\ NotThereYet /\ FirstLife /\ CounterIsTruthful

LEMMA BytesAreInts ==
    ASSUME NEW S \in SUBSET Indices
    PROVE  IsFiniteSet(S) /\ Bytes(S) \in Int
<1>1. IsFiniteSet(S)
  BY FS_Subset, PoolAssumption
<1>2. \A i \in Indices : PieceLength[i] \in Int
  BY PoolAssumption
<1>3. QED
  BY <1>1, <1>2, SumIsInt, PoolAssumption DEF Bytes

LEMMA BytesOfOneMore ==
    ASSUME NEW S \in SUBSET Indices, NEW i \in Indices, i \notin S
    PROVE  Bytes(S \cup {i}) = Bytes(S) + PieceLength[i]
<1> DEFINE T == S \cup {i}
<1>1. T \in SUBSET Indices /\ i \in T /\ T \ {i} = S
  OBVIOUS
<1>2. IsFiniteSet(T) /\ \A j \in T : PieceLength[j] \in Int
  BY <1>1, BytesAreInts, PoolAssumption
<1> HIDE DEF T
<1>3. SumFunctionOnSet(PieceLength, T) =
          PieceLength[i] + SumFunctionOnSet(PieceLength, T \ {i})
  BY <1>1, <1>2, SumWithout
<1>4. Bytes(S) \in Int /\ PieceLength[i] \in Int
  BY BytesAreInts, PoolAssumption
<1>5. Bytes(T) = PieceLength[i] + Bytes(S)
  BY <1>1, <1>3 DEF Bytes
<1>6. Bytes(T) = Bytes(S) + PieceLength[i]
  BY <1>4, <1>5
<1>7. QED
  BY <1>6 DEF T

LEMMA InsertedIs ==
    ASSUME NEW next \in Calls \cup {NoCall}, next.at = "insert"
    PROVE  PieceLength[next.piece] \in Int
<1>1. next.piece \in Indices
  BY DEF Calls, NoCall
<1>2. QED
  BY <1>1, PoolAssumption

LEMMA OnItsWayIsInt ==
    ASSUME PoolTypeOK, NEW c \in Callers
    PROVE  OnItsWay(c) \in Int
BY InsertedIs DEF OnItsWay, PoolTypeOK

\* The counter moves with what is on its way and what the maps hold.
LEMMA InFlightKeeps ==
    ASSUME \A c \in Callers : OnItsWay(c)' = OnItsWay(c)
    PROVE  InFlight' = InFlight
<1>1. [c \in Callers |-> OnItsWay(c)]' = [c \in Callers |-> OnItsWay(c)]
  OBVIOUS
<1>2. QED
  BY <1>1 DEF InFlight

LEMMA InFlightChanges ==
    ASSUME PoolTypeOK, PoolTypeOK', NEW c \in Callers, NEW more \in Int,
           OnItsWay(c)' = OnItsWay(c) + more,
           \A d \in Callers \ {c} : OnItsWay(d)' = OnItsWay(d)
    PROVE  InFlight' = InFlight + more
<1> DEFINE f == [d \in Callers |-> OnItsWay(d)]
           g == [d \in Callers |-> OnItsWay(d)']
<1>1. \A d \in Callers : OnItsWay(d) \in Int
  BY OnItsWayIsInt
<1>2. \A d \in Callers : OnItsWay(d)' \in Int
  <2> TAKE d \in Callers
  <2>1. call'[d] \in Calls \cup {NoCall}
    BY DEF PoolTypeOK, Calls, NoCall
  <2>2. QED
    BY <2>1, InsertedIs DEF OnItsWay
<1>3. /\ \A d \in Callers : f[d] \in Int /\ g[d] \in Int
      /\ g[c] = f[c] + more
      /\ \A d \in Callers \ {c} : g[d] = f[d]
      /\ DOMAIN f = Callers /\ DOMAIN g = Callers
  BY <1>1, <1>2
<1>4. InFlight = SumFunction(f) /\ InFlight' = SumFunction(g)
  BY DEF InFlight
<1> HIDE DEF f, g
<1>5. SumFunctionOnSet(g, Callers) = SumFunctionOnSet(f, Callers) + more
  BY <1>3, SumChanges, PoolAssumption
<1>6. QED
  BY <1>3, <1>4, <1>5 DEF SumFunction

LEMMA HeldChanges ==
    ASSUME PoolTypeOK, PoolTypeOK', NEW t \in Providers, NEW more \in Int,
           Bytes(pieces'[t]) = Bytes(pieces[t]) + more,
           \A u \in Providers \ {t} : pieces'[u] = pieces[u]
    PROVE  Held' = Held + more
<1> DEFINE f == [u \in Providers |-> Bytes(pieces[u])]
           g == [u \in Providers |-> Bytes(pieces'[u])]
<1>1. \A u \in Providers : pieces[u] \in SUBSET Indices /\ pieces'[u] \in SUBSET Indices
  BY DEF PoolTypeOK
<1>2. /\ \A u \in Providers : f[u] \in Int /\ g[u] \in Int
      /\ g[t] = f[t] + more
      /\ \A u \in Providers \ {t} : g[u] = f[u]
      /\ DOMAIN f = Providers /\ DOMAIN g = Providers
  BY <1>1, BytesAreInts
<1>3. Held = SumFunction(f) /\ Held' = SumFunction(g)
  BY DEF Held
<1> HIDE DEF f, g
<1>4. SumFunctionOnSet(g, Providers) = SumFunctionOnSet(f, Providers) + more
  BY <1>2, SumChanges, PoolAssumption
<1>5. QED
  BY <1>2, <1>3, <1>4 DEF SumFunction

LEMMA SumsAreInts ==
    ASSUME PoolTypeOK
    PROVE  Held \in Int /\ InFlight \in Int
<1> DEFINE f == [u \in Providers |-> Bytes(pieces[u])]
           g == [d \in Callers |-> OnItsWay(d)]
<1>1. \A u \in Providers : f[u] \in Int
  BY BytesAreInts DEF PoolTypeOK
<1>2. \A d \in Callers : g[d] \in Int
  BY OnItsWayIsInt
<1>3. DOMAIN f = Providers /\ DOMAIN g = Callers
  OBVIOUS
<1>4. Held = SumFunction(f) /\ InFlight = SumFunction(g)
  BY DEF Held, InFlight
<1> HIDE DEF f, g
<1>5. SumFunctionOnSet(f, Providers) \in Int /\ SumFunctionOnSet(g, Callers) \in Int
  BY <1>1, <1>2, SumIsInt, PoolAssumption
<1>6. QED
  BY <1>3, <1>4, <1>5 DEF SumFunction

\* A step of a call that allocates nothing new, or gets the lock for it.
LEMMA OneCallKeepsTruth ==
    ASSUME PoolInv, TruthInv, NEW c \in Callers, NEW next,
           call' = [call EXCEPT ![c] = next],
           next \in Waiting \cup Swapping \cup Inserting \cup {NoCall},
           UNCHANGED <<opens, open, pieces, total>>,
           next # NoCall => opens[next.torrent] >= 1,
           next.at \in {"swap", "insert"} =>
               /\ next.piece \notin pieces[next.torrent]
               /\ \A d \in Callers : Allocating(d) /\ call[d].torrent = next.torrent => d = c
    PROVE  OneAllocates' /\ NotThereYet' /\ FirstLife'
<1>1. \A d \in Callers : call'[d] = IF d = c THEN next ELSE call[d]
  BY DEF PoolInv, PoolTypeOK
<1>2. OneAllocates'
  BY <1>1 DEF TruthInv, OneAllocates, Allocating
<1>3. NotThereYet'
  BY <1>1 DEF TruthInv, NotThereYet, Allocating
<1>4. FirstLife'
  BY <1>1 DEF TruthInv, FirstLife
<1>5. QED
  BY <1>2, <1>3, <1>4

\* ... and moves no bytes: neither was nor gets between swap and map.
LEMMA QuietCallKeepsTruth ==
    ASSUME PoolInv, TruthInv, NEW c \in Callers, NEW next,
           call' = [call EXCEPT ![c] = next],
           next \in Waiting \cup Swapping \cup {NoCall},
           UNCHANGED <<used, opens, open, pieces, total>>,
           call[c].at # "insert",
           next # NoCall => opens[next.torrent] >= 1,
           next.at = "swap" =>
               /\ next.piece \notin pieces[next.torrent]
               /\ \A d \in Callers : Allocating(d) /\ call[d].torrent = next.torrent => d = c
    PROVE  TruthInv'
<1>1. next.at # "insert"
  BY DEF Waiting, Swapping, NoCall
<1>2. \A d \in Callers : OnItsWay(d)' = OnItsWay(d)
  BY <1>1 DEF OnItsWay, PoolInv, PoolTypeOK
<1>3. InFlight' = InFlight
  BY <1>2, InFlightKeeps
<1>4. Held' = Held
  BY DEF Held
<1>5. OneAllocates' /\ NotThereYet' /\ FirstLife'
  BY <1>1, OneCallKeepsTruth
<1>6. QED
  BY <1>3, <1>4, <1>5 DEF TruthInv, CounterIsTruthful

\* A call that has begun is of a torrent that was opened.
LEMMA CallHasLife ==
    ASSUME TruthInv, NEW c \in Callers, call[c].at # "idle"
    PROVE  opens[call[c].torrent] >= 1
BY DEF TruthInv, FirstLife, NoCall

LEMMA OpenKeepsTruth ==
    ASSUME PoolInv, TruthInv, NEW t \in Providers, OpenTorrent(t)
    PROVE  TruthInv'
<1>1. /\ t \notin open /\ open' = open \cup {t}
      /\ UNCHANGED <<used, pieces, total, call>>
  BY DEF OpenTorrent
<1>2. \A u \in Providers : opens'[u] = IF u = t THEN opens[u] + 1 ELSE opens[u]
  BY DEF OpenTorrent, PoolInv, PoolTypeOK
<1>3. \A u \in Providers : opens[u] \in Nat /\ opens'[u] \in Nat /\ opens'[u] >= opens[u]
  BY <1>2 DEF PoolInv, PoolTypeOK
<1>4. OneAllocates' /\ NotThereYet'
  BY <1>1 DEF TruthInv, OneAllocates, NotThereYet, Allocating
<1>5. FirstLife'
  <2>1. \A u \in open' : opens'[u] >= 1
    BY <1>1, <1>2, <1>3 DEF TruthInv, FirstLife, PoolInv, PoolTypeOK
  <2>2. ASSUME NEW c \in Callers, call'[c] # NoCall PROVE opens'[call'[c].torrent] >= 1
    <3>1. call[c].torrent \in Providers
      BY <1>1, <2>2 DEF PoolInv, PoolTypeOK, Calls
    <3>2. QED
      BY <1>1, <1>3, <2>2, <3>1 DEF TruthInv, FirstLife
  <2>3. \A u \in open' : opens'[u] = 1 => total'[u] = Bytes(pieces'[u])
    <3>1. ASSUME NEW u \in open', opens'[u] = 1 PROVE total'[u] = Bytes(pieces'[u])
      <4>1. CASE u = t
        <5>1. opens[t] = 0
          BY <1>2, <1>3, <3>1, <4>1
        <5>2. pieces'[t] = {} /\ total'[t] = 0
          BY <1>1, <5>1 DEF TruthInv, FirstLife
        <5>3. Bytes({}) = 0
          BY SumOfNothing DEF Bytes
        <5>4. QED
          BY <4>1, <5>2, <5>3
      <4>2. CASE u # t
        BY <1>1, <1>2, <3>1, <4>2 DEF TruthInv, FirstLife, PoolInv, PoolTypeOK
      <4>3. QED
        BY <4>1, <4>2
    <3>2. QED
      BY <3>1
  <2>4. \A u \in Providers : opens'[u] = 0 => pieces'[u] = {} /\ total'[u] = 0
    BY <1>1, <1>3 DEF TruthInv, FirstLife
  <2>5. QED
    BY <2>1, <2>2, <2>3, <2>4 DEF FirstLife
<1>6. Held' = Held /\ InFlight' = InFlight
  BY <1>1 DEF Held, InFlight, OnItsWay
<1>7. CounterIsTruthful'
  BY <1>1, <1>3, <1>6 DEF TruthInv, CounterIsTruthful
<1>8. QED
  BY <1>4, <1>5, <1>7 DEF TruthInv

\* A first end gives back exactly what the map holds.
LEMMA CloseKeepsTruth ==
    ASSUME PoolInv, PoolInv', TruthInv, NEW t \in Providers, Close(t)
    PROVE  TruthInv'
<1>1. /\ t \in open /\ open' = open \ {t} /\ used' = used - total[t]
      /\ pieces' = [pieces EXCEPT ![t] = {}] /\ UNCHANGED <<opens, total>>
  BY DEF Close
<1>2. ASSUME NEW c \in Callers
      PROVE  /\ call'[c].at = call[c].at
             /\ call[c] # NoCall => /\ call'[c].torrent = call[c].torrent
                                    /\ call'[c].piece = call[c].piece
             /\ call[c] = NoCall => call'[c] = NoCall
  <2>1. call'[c] = IF call[c].at \in {"write", "mark"} /\ call[c].torrent = t
                   THEN [call[c] EXCEPT !.tracked = FALSE] ELSE call[c]
    BY DEF Close
  <2>2. CASE call[c].at \in {"write", "mark"} /\ call[c].torrent = t
    <3>1. call[c] \in Waiting
      BY <2>2, CallIs DEF PoolInv
    <3>2. QED
      BY <2>1, <2>2, <3>1 DEF Waiting, NoCall
  <2>3. CASE ~(call[c].at \in {"write", "mark"} /\ call[c].torrent = t)
    BY <2>1, <2>3
  <2>4. QED
    BY <2>2, <2>3
<1>3. ASSUME NEW c \in Callers, Allocating(c)'
      PROVE  /\ Allocating(c) /\ call'[c].torrent = call[c].torrent
             /\ call'[c].piece = call[c].piece
  BY <1>2, <1>3 DEF Allocating, NoCall
<1>4. \A u \in Providers : pieces'[u] = IF u = t THEN {} ELSE pieces[u]
  BY <1>1 DEF PoolInv, PoolTypeOK
<1>5. OneAllocates'
  BY <1>3 DEF TruthInv, OneAllocates
<1>6. NotThereYet'
  <2>1. ASSUME NEW c \in Callers, Allocating(c)' PROVE call'[c].piece \notin pieces'[call'[c].torrent]
    <3>1. call[c].torrent \in Providers
      BY <1>3, <2>1, CallIs DEF PoolInv, Allocating, Swapping, Inserting
    <3>2. QED
      BY <1>3, <1>4, <2>1, <3>1 DEF TruthInv, NotThereYet
  <2>2. QED
    BY <2>1 DEF NotThereYet
<1>7. FirstLife'
  BY <1>1, <1>2, <1>4 DEF TruthInv, FirstLife
<1>8. CounterIsTruthful'
  <2>1. SUFFICES ASSUME \A u \in Providers : opens[u] <= 1 PROVE used' = Held' + InFlight'
    BY <1>1 DEF CounterIsTruthful
  <2>2. total[t] = Bytes(pieces[t])
    <3>1. opens[t] = 1
      BY <1>1, <2>1 DEF TruthInv, FirstLife, PoolInv, PoolTypeOK
    <3>2. QED
      BY <1>1, <3>1 DEF TruthInv, FirstLife
  <2>3. \A c \in Callers : OnItsWay(c)' = OnItsWay(c)
    BY <1>2 DEF OnItsWay, NoCall
  <2>4. InFlight' = InFlight
    BY <2>3, InFlightKeeps
  <2>5. total[t] \in Int /\ Bytes(pieces'[t]) = Bytes(pieces[t]) + (-total[t])
    <3>1. total[t] \in Nat
      BY DEF PoolInv, PoolTypeOK
    <3>2. Bytes(pieces'[t]) = 0
      BY <1>4, SumOfNothing DEF Bytes
    <3>3. QED
      BY <2>2, <3>1, <3>2
  <2>6. Held' = Held + (-total[t])
    BY <1>4, <2>5, HeldChanges DEF PoolInv
  <2>7. used = Held + InFlight
    BY <2>1 DEF TruthInv, CounterIsTruthful
  <2>8. QED
    BY <1>1, <2>4, <2>5, <2>6, <2>7, SumsAreInts DEF PoolInv
<1>9. QED
  BY <1>5, <1>6, <1>7, <1>8 DEF TruthInv

LEMMA AskKeepsTruth ==
    ASSUME PoolInv, TruthInv, NEW c \in Callers, NEW t \in Providers, NEW i \in Indices,
           Ask(c, t, i)
    PROVE  TruthInv'
<1> DEFINE next == [at |-> "ask", torrent |-> t, piece |-> i, tracked |-> FALSE]
<1>1. call' = [call EXCEPT ![c] = next] /\ next \in Waiting /\ next.at # "swap"
  BY DEF Ask, Waiting
<1>2. call[c].at # "insert"
  BY DEF Ask, NoCall
<1>3. opens[next.torrent] >= 1
  BY DEF Ask, TruthInv, FirstLife
<1>4. QED
  <2> HIDE DEF next
  <2> QED
    BY <1>1, <1>2, <1>3, QuietCallKeepsTruth DEF Ask

LEMMA FoundKeepsTruth ==
    ASSUME PoolInv, TruthInv, NEW c \in Callers, Found(c)
    PROVE  TruthInv'
<1> DEFINE next == [call[c] EXCEPT !.at = "write", !.tracked = TRUE]
<1>1. call[c] \in Waiting /\ call[c].at = "ask"
  BY CallIs DEF PoolInv, Found
<1>2. call' = [call EXCEPT ![c] = next]
  BY <1>1 DEF Found, PoolInv, PoolTypeOK
<1>3. next \in Waiting /\ next.at # "swap" /\ next.torrent = call[c].torrent
  BY <1>1 DEF Waiting
<1>4. QED
  <2> HIDE DEF next
  <2> QED
    BY <1>1, <1>2, <1>3, CallHasLife, QuietCallKeepsTruth DEF Found

LEMMA ReadCounterKeepsTruth ==
    ASSUME PoolInv, TruthInv, NEW c \in Callers, ReadCounter(c)
    PROVE  TruthInv'
<1> DEFINE next == [at |-> "swap", torrent |-> call[c].torrent,
                    piece |-> call[c].piece, read |-> used, tries |-> 1]
<1>1. call[c] \in Waiting /\ call[c].at = "ask"
  BY CallIs DEF PoolInv, ReadCounter, Missing
<1>2. call' = [call EXCEPT ![c] = next] /\ next.torrent = call[c].torrent
  BY DEF ReadCounter
<1>3. next \in Swapping
  BY <1>1, PoolAssumption DEF PoolInv, PoolTypeOK, Waiting, Swapping
<1>4. /\ next.piece \notin pieces[next.torrent]
      /\ \A d \in Callers : ~(Allocating(d) /\ call[d].torrent = next.torrent)
  BY DEF ReadCounter, Missing, Locked, Allocating
<1>5. QED
  <2> HIDE DEF next
  <2> QED
    BY <1>1, <1>2, <1>3, <1>4, CallHasLife, QuietCallKeepsTruth DEF ReadCounter

\* Giving up leaves nothing behind.
LEMMA UntrackedKeepsTruth ==
    ASSUME PoolInv, TruthInv, NEW c \in Callers, call[c].at \in {"ask", "swap"},
           call' = [call EXCEPT ![c] = Untracked(c)],
           UNCHANGED <<used, opens, open, pieces, total>>
    PROVE  TruthInv'
<1>1. Untracked(c) \in Waiting /\ Untracked(c).at # "swap"
  BY UntrackedIs DEF PoolInv
<1>2. opens[Untracked(c).torrent] >= 1
  BY CallHasLife DEF Untracked
<1>3. QED
  BY <1>1, <1>2, QuietCallKeepsTruth

LEMMA RetryKeepsTruth ==
    ASSUME PoolInv, TruthInv, NEW c \in Callers, Retry(c)
    PROVE  TruthInv'
<1> DEFINE again == [call[c] EXCEPT !.read = used, !.tries = @ + 1]
<1>1. call[c] \in Swapping /\ call[c].at = "swap" /\ used \in Int
  BY CallIs DEF PoolInv, PoolTypeOK, Retry
<1>2. CASE call[c].tries < MaxAttempts /\ Room(used, call[c].piece)
  <2>1. call' = [call EXCEPT ![c] = again]
    BY <1>2 DEF Retry
  <2>2. /\ again \in Swapping
        /\ again.torrent = call[c].torrent /\ again.piece = call[c].piece
    <3>1. call[c].tries + 1 \in 1..MaxAttempts
      BY <1>1, <1>2, PoolAssumption DEF Swapping
    <3>2. QED
      BY <1>1, <3>1 DEF Swapping
  <2>3. /\ call[c].piece \notin pieces[call[c].torrent]
        /\ \A d \in Callers : Allocating(d) /\ call[d].torrent = call[c].torrent => d = c
    BY <1>1 DEF TruthInv, NotThereYet, OneAllocates, Allocating
  <2>4. QED
    <3> HIDE DEF again
    <3> QED
      BY <1>1, <2>1, <2>2, <2>3, CallHasLife, QuietCallKeepsTruth DEF Retry
<1>3. CASE ~(call[c].tries < MaxAttempts /\ Room(used, call[c].piece))
  BY <1>1, <1>3, UntrackedKeepsTruth DEF Retry
<1>4. QED
  BY <1>2, <1>3

\* The swap counts what is then on its way.
LEMMA SwapKeepsTruth ==
    ASSUME PoolInv, PoolInv', TruthInv, NEW c \in Callers, CompareAndSwap(c)
    PROVE  TruthInv'
<1> DEFINE next == [at |-> "insert", torrent |-> call[c].torrent, piece |-> call[c].piece]
           bytes == PieceLength[call[c].piece]
<1>1. call[c] \in Swapping /\ call[c].at = "swap"
  BY CallIs DEF PoolInv, CompareAndSwap
<1>2. /\ call' = [call EXCEPT ![c] = next] /\ next \in Inserting
      /\ next.torrent = call[c].torrent /\ next.piece = call[c].piece
      /\ next.at = "insert"
  BY <1>1 DEF CompareAndSwap, Swapping, Inserting
<1>3. /\ call[c].piece \notin pieces[call[c].torrent]
      /\ \A d \in Callers : Allocating(d) /\ call[d].torrent = call[c].torrent => d = c
  BY <1>1 DEF TruthInv, NotThereYet, OneAllocates, Allocating
<1>4. UNCHANGED <<opens, open, pieces, total>> /\ used' = used + bytes
  BY DEF CompareAndSwap
<1>5. bytes \in Int
  BY <1>1, PoolAssumption DEF Swapping
<1> HIDE DEF next, bytes
<1>6. OneAllocates' /\ NotThereYet' /\ FirstLife'
  BY <1>1, <1>2, <1>3, <1>4, CallHasLife, OneCallKeepsTruth
<1>7. \A d \in Callers : call'[d] = IF d = c THEN next ELSE call[d]
  BY <1>2 DEF PoolInv, PoolTypeOK
<1>8. OnItsWay(c)' = OnItsWay(c) + bytes
  BY <1>1, <1>2, <1>5, <1>7 DEF OnItsWay, bytes
<1>9. \A d \in Callers \ {c} : OnItsWay(d)' = OnItsWay(d)
  BY <1>7 DEF OnItsWay
<1>10. InFlight' = InFlight + bytes
  BY <1>5, <1>8, <1>9, InFlightChanges DEF PoolInv
<1>11. Held' = Held
  BY <1>4 DEF Held
<1>12. CounterIsTruthful'
  BY <1>4, <1>5, <1>10, <1>11, SumsAreInts DEF TruthInv, CounterIsTruthful, PoolInv
<1>13. QED
  BY <1>6, <1>12 DEF TruthInv

\* What was on its way arrives.
LEMMA InsertKeepsTruth ==
    ASSUME PoolInv, PoolInv', TruthInv, NEW c \in Callers, Insert(c)
    PROVE  TruthInv'
<1> DEFINE next == [Untracked(c) EXCEPT !.tracked = TRUE]
           bytes == PieceLength[call[c].piece]
           t == call[c].torrent
           i == call[c].piece
<1>1. call[c] \in Inserting /\ call[c].at = "insert"
  BY CallIs DEF PoolInv, Insert
<1>2. t \in Providers /\ i \in Indices /\ bytes \in Int
  BY <1>1, PoolAssumption DEF Inserting
<1>3. /\ call' = [call EXCEPT ![c] = next]
      /\ next.at = "write" /\ next.torrent = t /\ next # NoCall
  BY DEF Insert, Untracked, NoCall
<1>4. i \notin pieces[t] /\ \A d \in Callers : Allocating(d) /\ call[d].torrent = t => d = c
  BY <1>1 DEF TruthInv, NotThereYet, OneAllocates, Allocating
<1>5. /\ UNCHANGED <<used, opens, open>>
      /\ pieces' = [pieces EXCEPT ![t] = @ \cup {i}]
      /\ total' = [total EXCEPT ![t] = @ + bytes]
  BY DEF Insert
<1>6. opens[t] >= 1
  BY <1>1, CallHasLife
<1> HIDE DEF next, bytes, t, i
<1>7. /\ \A d \in Callers : call'[d] = IF d = c THEN next ELSE call[d]
      /\ \A u \in Providers : pieces'[u] = IF u = t THEN pieces[u] \cup {i} ELSE pieces[u]
      /\ \A u \in Providers : total'[u] = IF u = t THEN total[u] + bytes ELSE total[u]
  BY <1>3, <1>5 DEF PoolInv, PoolTypeOK
<1>8. Bytes(pieces'[t]) = Bytes(pieces[t]) + bytes
  BY <1>2, <1>4, <1>7, BytesOfOneMore DEF PoolInv, PoolTypeOK, bytes, i
<1>9. OneAllocates'
  BY <1>3, <1>7 DEF TruthInv, OneAllocates, Allocating
<1>10. NotThereYet'
  <2>1. ASSUME NEW d \in Callers, Allocating(d)' PROVE call'[d].piece \notin pieces'[call'[d].torrent]
    <3>1. d # c /\ call'[d] = call[d] /\ Allocating(d)
      BY <1>3, <1>7, <2>1 DEF Allocating
    <3>2. call[d].torrent \in Providers /\ call[d].torrent # t
      BY <1>4, <3>1, CallIs DEF PoolInv, Allocating, Swapping, Inserting
    <3>3. QED
      BY <1>7, <3>1, <3>2 DEF TruthInv, NotThereYet
  <2>2. QED
    BY <2>1 DEF NotThereYet
<1>11. FirstLife'
  <2>1. \A d \in Callers : call'[d] # NoCall => opens'[call'[d].torrent] >= 1
    BY <1>3, <1>5, <1>6, <1>7 DEF TruthInv, FirstLife
  <2>2. \A u \in open' : opens'[u] = 1 => total'[u] = Bytes(pieces'[u])
    BY <1>5, <1>7, <1>8 DEF TruthInv, FirstLife, PoolInv, PoolTypeOK
  <2>3. \A u \in Providers : opens'[u] = 0 => pieces'[u] = {} /\ total'[u] = 0
    BY <1>5, <1>6, <1>7 DEF TruthInv, FirstLife
  <2>4. QED
    BY <1>5, <2>1, <2>2, <2>3 DEF TruthInv, FirstLife
<1>12. Held' = Held + bytes
  BY <1>2, <1>7, <1>8, HeldChanges DEF PoolInv
<1>13. InFlight' = InFlight + (-bytes)
  <2>1. OnItsWay(c)' = OnItsWay(c) + (-bytes)
    BY <1>1, <1>2, <1>3, <1>7 DEF OnItsWay, bytes
  <2>2. \A d \in Callers \ {c} : OnItsWay(d)' = OnItsWay(d)
    BY <1>7 DEF OnItsWay
  <2>3. QED
    BY <1>2, <2>1, <2>2, InFlightChanges DEF PoolInv
<1>14. CounterIsTruthful'
  BY <1>2, <1>5, <1>12, <1>13, SumsAreInts DEF TruthInv, CounterIsTruthful, PoolInv
<1>15. QED
  BY <1>9, <1>10, <1>11, <1>14 DEF TruthInv

LEMMA WriteAtKeepsTruth ==
    ASSUME PoolInv, TruthInv, NEW c \in Callers, WriteAt(c)
    PROVE  TruthInv'
<1> DEFINE next == [call[c] EXCEPT !.at = "mark"]
<1>1. call[c] \in Waiting /\ call[c].at = "write"
  BY CallIs DEF PoolInv, WriteAt
<1>2. call' = [call EXCEPT ![c] = next]
  BY <1>1 DEF WriteAt, PoolInv, PoolTypeOK
<1>3. next \in Waiting /\ next.at # "swap" /\ next.torrent = call[c].torrent
  BY <1>1 DEF Waiting
<1>4. QED
  <2> HIDE DEF next
  <2> QED
    BY <1>1, <1>2, <1>3, CallHasLife, QuietCallKeepsTruth DEF WriteAt

LEMMA MarkKeepsTruth ==
    ASSUME PoolInv, TruthInv, NEW c \in Callers, NEW good \in BOOLEAN, Mark(c, good)
    PROVE  TruthInv'
<1>1. call' = [call EXCEPT ![c] = NoCall] /\ NoCall.at # "swap" /\ call[c].at # "insert"
  BY DEF Mark, NoCall
<1>2. QED
  BY <1>1, QuietCallKeepsTruth DEF Mark

-----------------------------------------------------------------------------
(* The theorems.                                                           *)

LEMMA NextKeeps == PoolInv /\ [PoolNext]_poolVars => PoolInv'
<1> SUFFICES ASSUME PoolInv, [PoolNext]_poolVars PROVE PoolInv'
  OBVIOUS
<1>1. CASE UNCHANGED poolVars
  BY <1>1 DEF poolVars, PoolInv, PoolTypeOK, SwapHasRoom, CapacityHolds, Room, Calls
<1>2. CASE PoolNext
  BY <1>2, OpenKeeps, CloseKeeps, AskKeeps, FoundKeeps, ReadCounterKeeps, RefuseKeeps,
     SwapKeeps, RetryKeeps, InsertKeeps, WriteAtKeeps, MarkKeeps DEF PoolNext
<1>3. QED
  BY <1>1, <1>2

LEMMA Invariant == PoolSpec => []PoolInv
<1>1. QED
  BY InitInv, NextKeeps, PTL DEF PoolSpec

\* The pool's maps, counters and calls keep their types.
THEOREM PoolTypeCorrect == PoolSpec => []PoolTypeOK
<1>1. PoolInv => PoolTypeOK
  BY DEF PoolInv
<1>2. QED
  BY <1>1, Invariant, PTL

\* memoryStorage.used never passes the capacity, however many torrents are
\* opened, closed and opened again and however many goroutines allocate at once.
THEOREM CapacityIsKept == PoolSpec => []CapacityHolds
<1>1. PoolInv => CapacityHolds
  BY DEF PoolInv
<1>2. QED
  BY <1>1, Invariant, PTL

LEMMA InitTruth == PoolInit => TruthInv
<1> SUFFICES ASSUME PoolInit PROVE TruthInv
  OBVIOUS
<1> DEFINE f == [u \in Providers |-> Bytes(pieces[u])]
           g == [c \in Callers |-> OnItsWay(c)]
<1>1. OneAllocates /\ NotThereYet /\ FirstLife
  BY DEF PoolInit, OneAllocates, NotThereYet, FirstLife, Allocating, NoCall
<1>2. \A u \in Providers : f[u] = 0
  BY SumOfNothing DEF PoolInit, Bytes
<1>3. \A c \in Callers : g[c] = 0
  BY DEF PoolInit, OnItsWay, NoCall
<1>4. DOMAIN f = Providers /\ DOMAIN g = Callers
  OBVIOUS
<1>5. Held = SumFunction(f) /\ InFlight = SumFunction(g)
  BY DEF Held, InFlight
<1> HIDE DEF f, g
<1>6. Held = 0 /\ InFlight = 0
  BY <1>2, <1>3, <1>4, <1>5, SumOfZeros, PoolAssumption DEF SumFunction
<1>7. CounterIsTruthful
  BY <1>6 DEF PoolInit, CounterIsTruthful
<1>8. QED
  BY <1>1, <1>7 DEF TruthInv

LEMMA NextKeepsTruth == PoolInv /\ PoolInv' /\ TruthInv /\ [PoolNext]_poolVars => TruthInv'
<1> SUFFICES ASSUME PoolInv, PoolInv', TruthInv, [PoolNext]_poolVars PROVE TruthInv'
  OBVIOUS
<1>1. CASE UNCHANGED poolVars
  BY <1>1 DEF poolVars, TruthInv, OneAllocates, NotThereYet, FirstLife, CounterIsTruthful,
     Allocating, Held, InFlight, OnItsWay
<1>2. ASSUME NEW c \in Callers, Refuse(c) PROVE TruthInv'
  BY <1>2, UntrackedKeepsTruth DEF Refuse, Missing
<1>3. CASE PoolNext
  BY <1>2, <1>3, OpenKeepsTruth, CloseKeepsTruth, AskKeepsTruth, FoundKeepsTruth,
     ReadCounterKeepsTruth, SwapKeepsTruth, RetryKeepsTruth, InsertKeepsTruth,
     WriteAtKeepsTruth, MarkKeepsTruth DEF PoolNext
<1>4. QED
  BY <1>1, <1>3

\* As long as no torrent is opened twice, the counter is the bytes in all the maps
\* and those between the swap and the map, for any number of torrents, pieces and
\* goroutines: what is counted is held, and what is given back was counted.
THEOREM CounterTellsTheTruth == PoolSpec => []CounterIsTruthful
<1>1. TruthInv => CounterIsTruthful
  BY DEF TruthInv
<1>2. PoolSpec => []TruthInv
  BY InitTruth, NextKeepsTruth, Invariant, PTL DEF PoolSpec
<1>3. QED
  BY <1>1, <1>2, PTL

-----------------------------------------------------------------------------
(* The window of pieces asked for.  Files, picks and entries.              *)

Phases == {"idle", "select", "load", "hand", "wait", "track", "run", "over"}
Picks == [torrent : Torrents \cup {"none"}, file : Nat, phase : Phases, cancelled : BOOLEAN,
          duration : Nat, offset : Nat \cup {-1}]
Films == [torrent : Torrents \cup {"none"}, file : Nat]
Entries == [file : Nat, start : Nat, end : Nat]

\* A file that is named is one of its torrent.
IsFileOf(t, i) == t \in Torrents /\ i \in DOMAIN Layout[t]

LEMMA FilesAre ==
    ASSUME NEW t, NEW i, IsFileOf(t, i)
    PROVE  /\ i \in Nat \ {0} /\ FileSize(t, i) \in Nat \ {0}
           /\ Layout[t][i].secs \in Nat \ {0}
<1> DEFINE File == [size : Nat \ {0}, secs : Nat \ {0}]
           files == Layout[t]
<1>1. files \in Seq(File) /\ i \in DOMAIN files
  BY StreamingAssumption DEF IsFileOf
<1>2. i \in Nat \ {0} /\ files[i] \in File
  <2> HIDE DEF File, files
  <2>1. Len(files) \in Nat /\ files \in [1..Len(files) -> File]
    BY <1>1
  <2>2. i \in 1..Len(files)
    BY <1>1, <2>1
  <2>3. QED
    BY <2>1, <2>2
<1>3. QED
  BY <1>2 DEF FileSize

\* A torrent has a number of pieces.
LEMMA TorrentsHavePieces ==
    ASSUME NEW t \in Torrents
    PROVE  TotalPieces(t) \in Int
<1> DEFINE f == [i \in DOMAIN Layout[t] |-> FileSize(t, i)]
<1>1. Layout[t] \in Seq([size : Nat \ {0}, secs : Nat \ {0}])
  BY StreamingAssumption
<1>2. IsFiniteSet(DOMAIN Layout[t])
  <2>1. DOMAIN Layout[t] = 1..Len(Layout[t]) /\ Len(Layout[t]) \in Nat
    BY <1>1
  <2>2. QED
    BY <2>1, FS_Interval
<1>3. \A i \in DOMAIN Layout[t] : f[i] \in Int
  BY FilesAre DEF IsFileOf
<1>4. DOMAIN f = DOMAIN Layout[t] /\ Length(t) = SumFunction(f)
  BY DEF Length
<1> HIDE DEF f
<1>5. Length(t) \in Int
  BY <1>2, <1>3, <1>4, SumIsInt DEF SumFunction
<1>6. QED
  BY <1>5, StreamingAssumption DEF TotalPieces

-----------------------------------------------------------------------------
(* What the prioritiser asks for.                                          *)

LEMMA PiecesOfEntry ==
    ASSUME NEW b \in Entries
    PROVE  b.start \div PieceSize \in Nat /\ b.end \div PieceSize \in Nat
<1>1. b.start \in Nat /\ b.end \in Nat /\ PieceSize \in Nat \ {0}
  BY StreamingAssumption DEF Entries
<1>2. QED
  BY <1>1

LEMMA UrgencyIs ==
    ASSUME NEW i \in Int, NEW s \in Nat, NEW e \in Nat
    PROVE  /\ Urgency(i, s, e) \in None..Now
           /\ Urgency(i, s, e) # None => i <= e + BufferReadAheadPieces /\ (i >= s \/ i > e)
           /\ s <= i /\ i <= e => Urgency(i, s, e) >= Normal
           /\ e < i /\ i <= e + BufferReadAheadPieces => Urgency(i, s, e) = Readahead
BY StreamingAssumption DEF Urgency, None, Readahead, Normal, High, Now

\* Urgency falls over the window.
LEMMA UrgencyFalls ==
    ASSUME NEW s \in Nat, NEW e \in Nat, NEW i \in Int, NEW j \in Int,
           s <= i, i <= j, j <= e
    PROVE  Urgency(i, s, e) >= Urgency(j, s, e)
BY StreamingAssumption DEF Urgency, None, Readahead, Normal, High, Now

\* One run of pieces in which urgency falls, of one torrent.
OneRun(t, ask) ==
    \A i, j \in Pieces(t) : i < j /\ ask[j] # None /\ ask[i] # None =>
        \A m \in i..j : ask[m] # None /\ ask[m] >= ask[j]

LEMMA PrioritiesAreOneRun ==
    ASSUME NEW t \in Torrents, NEW b \in Entries
    PROVE  Priorities(t, b) \in [Pieces(t) -> None..Now] /\ OneRun(t, Priorities(t, b))
<1> DEFINE s == b.start \div PieceSize
           e == b.end \div PieceSize
           ask == Priorities(t, b)
<1>1. s \in Nat /\ e \in Nat
  BY PiecesOfEntry
<1>2. ask = [i \in Pieces(t) |-> IF i < s - 1 THEN None ELSE Urgency(i, s, e)]
  BY DEF Priorities
<1> HIDE DEF s, e, ask
<1>3. \A i \in Pieces(t) : i \in Int
  BY TorrentsHavePieces DEF Pieces
<1>4. ask \in [Pieces(t) -> None..Now]
  BY <1>1, <1>2, <1>3, UrgencyIs DEF None, Now
<1>5. ASSUME NEW i \in Pieces(t), NEW j \in Pieces(t), i < j, ask[j] # None, ask[i] # None,
             NEW m \in i..j
      PROVE  ask[m] # None /\ ask[m] >= ask[j]
  <2>1. m \in Pieces(t) /\ m \in Int /\ i \in Int /\ j \in Int /\ i <= m /\ m <= j
    BY <1>3, <1>5, TorrentsHavePieces DEF Pieces
  <2>2. i >= s - 1 /\ j >= s - 1 /\ m >= s - 1
    BY <1>1, <1>2, <1>5, <2>1
  <2>3. ask[i] = Urgency(i, s, e) /\ ask[j] = Urgency(j, s, e) /\ ask[m] = Urgency(m, s, e)
    BY <1>1, <1>2, <2>1, <2>2
  <2>4. j <= e + BufferReadAheadPieces /\ (i >= s \/ i > e)
    BY <1>1, <1>5, <2>1, <2>3, UrgencyIs
  <2>5. CASE m <= e
    <3>1. s <= m
      BY <1>1, <2>1, <2>4, <2>5
    <3>2. ask[m] >= Normal
      BY <1>1, <2>1, <2>3, <2>5, <3>1, UrgencyIs
    <3>3. CASE j <= e
      <4>1. Urgency(m, s, e) >= Urgency(j, s, e)
        BY <1>1, <2>1, <3>1, <3>3, UrgencyFalls
      <4>2. QED
        BY <2>3, <3>2, <4>1 DEF None, Normal
    <3>4. CASE j > e
      <4>1. ask[j] = Readahead
        BY <1>1, <2>1, <2>3, <2>4, <3>4, UrgencyIs
      <4>2. ask[m] \in Int
        BY <1>4, <2>1 DEF None, Now
      <4>3. QED
        BY <3>2, <4>1, <4>2 DEF None, Normal, Readahead
    <3>5. QED
      BY <1>1, <2>1, <3>3, <3>4
  <2>6. CASE m > e
    <3>1. ask[m] = Readahead /\ ask[j] = Readahead
      <4>1. m <= e + BufferReadAheadPieces /\ j > e
        BY <1>1, <2>1, <2>4, <2>6, StreamingAssumption
      <4>2. QED
        BY <1>1, <2>1, <2>3, <2>4, <2>6, <4>1, UrgencyIs
    <3>2. QED
      BY <3>1 DEF None, Readahead
  <2>7. QED
    BY <1>1, <2>1, <2>5, <2>6
<1>6. OneRun(t, ask)
  BY <1>5 DEF OneRun
<1>7. QED
  BY <1>4, <1>6 DEF ask

LEMMA NothingIsOneRun ==
    ASSUME NEW t \in Torrents
    PROVE  /\ [i \in Pieces(t) |-> None] \in [Pieces(t) -> None..Now]
           /\ OneRun(t, [i \in Pieces(t) |-> None])
BY DEF OneRun, None, Now

-----------------------------------------------------------------------------
(* The invariant of Streaming, a half for each process.                    *)

\* The backend's tables name files of their torrents, and what is asked for of a
\* torrent is one run.
BackendInv ==
    /\ selected \in [Torrents -> Nat] /\ buffers \in [Torrents -> Entries]
    /\ piece = [t \in Torrents |-> piece[t]]
    /\ \A t \in Torrents : /\ selected[t] # 0 => IsFileOf(t, selected[t])
                           /\ Registered(t) => IsFileOf(t, buffers[t].file)
                           /\ piece[t] \in [Pieces(t) -> None..Now]
                           /\ OneRun(t, piece[t])

\* So do the player and the picks; a reporter that runs has a duration to divide
\* by, and only one that runs has something to report.
ClientInv ==
    /\ play \in [Plays -> Picks] /\ film \in Films /\ position \in Nat
    /\ tracked \in [by : Nat, size : Nat, duration : Nat]
    /\ film # NoFilm => film.torrent \in Torrents
    /\ film.file # 0 => IsFileOf(film.torrent, film.file)
    /\ \A k \in Plays : /\ play[k].phase # "idle" => IsFileOf(play[k].torrent, play[k].file)
                        /\ play[k].phase = "track" => play[k].duration >= 1
                        /\ play[k].phase = "run" => tracked.duration >= 1
                        /\ play[k].offset # -1 => play[k].phase = "run"

StreamInv == BackendInv /\ ClientInv

LEMMA MinIs ==
    ASSUME NEW a \in Int, NEW b \in Int
    PROVE  Min({a, b}) = IF a <= b THEN a ELSE b
<1> DEFINE least == IF a <= b THEN a ELSE b
<1>1. least \in {a, b} /\ \A y \in {a, b} : least <= y
  OBVIOUS
<1>2. \A x \in {a, b} : (\A y \in {a, b} : x <= y) => x = least
  OBVIOUS
<1> HIDE DEF least
<1>3. Min({a, b}) = least
  BY <1>1, <1>2 DEF Min
<1>4. QED
  BY <1>3 DEF least

LEMMA WindowIsEntry ==
    ASSUME NEW t, NEW b \in Entries, NEW offset \in Nat, IsFileOf(t, b.file)
    PROVE  WindowFrom(t, b, offset) \in Entries /\ WindowFrom(t, b, offset).file = b.file
<1> DEFINE size == FileSize(t, b.file)
           share == (size * BufferPercent) \div 100
           reach == offset + Min({share, MaxBufferSize})
<1>1. size \in Nat
  BY FilesAre
<1>2. share \in Nat
  <2> HIDE DEF size
  <2>1. BufferPercent \in Nat
    BY StreamingAssumption
  <2>2. size * BufferPercent \in Nat
    BY <1>1, <2>1
  <2> DEFINE p == size * BufferPercent
  <2> HIDE DEF p
  <2>3. p \in Nat
    BY <2>2 DEF p
  <2>4. p \div 100 \in Nat
    BY <2>3
  <2>5. QED
    BY <2>4 DEF p
<1>3. WindowFrom(t, b, offset) = [b EXCEPT !.start = offset, !.end = Min({reach, size})]
  BY DEF WindowFrom
<1> HIDE DEF size, share
<1>4. reach \in Nat
  BY <1>2, MinIs, StreamingAssumption
<1> HIDE DEF reach
<1>5. Min({reach, size}) \in Nat
  BY <1>1, <1>4, MinIs
<1>6. QED
  BY <1>3, <1>5 DEF Entries

LEMMA PositionIsByte ==
    ASSUME NEW s \in Nat, NEW duration \in Nat, duration >= 1, NEW size \in Nat
    PROVE  BytePosition(s, duration, size) \in Nat
<1> DEFINE p == Min({s, duration}) * size
<1>1. Min({s, duration}) \in Nat
  BY MinIs
<1>2. p \in Nat
  BY <1>1
<1> HIDE DEF p
<1>3. p \div duration \in Nat
  BY <1>2
<1>4. QED
  BY <1>3 DEF BytePosition, p

-----------------------------------------------------------------------------
(* Steps of the backend.                                                   *)

\* What a step writes into the entry and the priorities of one torrent.
LEMMA OneTorrent ==
    ASSUME BackendInv, NEW t \in Torrents, NEW file \in Nat, NEW b \in Entries, NEW ask,
           selected' = [selected EXCEPT ![t] = file], buffers' = [buffers EXCEPT ![t] = b],
           piece' = [piece EXCEPT ![t] = ask],
           file # 0 => IsFileOf(t, file), b.file # 0 => IsFileOf(t, b.file),
           ask \in [Pieces(t) -> None..Now], OneRun(t, ask)
    PROVE  BackendInv'
<1>1. \A u \in Torrents :
          /\ selected'[u] = IF u = t THEN file ELSE selected[u]
          /\ buffers'[u] = IF u = t THEN b ELSE buffers[u]
          /\ piece'[u] = IF u = t THEN ask ELSE piece[u]
  BY DEF BackendInv
<1>2. selected' \in [Torrents -> Nat] /\ buffers' \in [Torrents -> Entries]
  BY DEF BackendInv
<1>3. piece' = [u \in Torrents |-> piece'[u]]
  BY DEF BackendInv
<1>4. QED
  BY <1>1, <1>2, <1>3 DEF BackendInv, Registered

LEMMA BackendStays ==
    ASSUME BackendInv, UNCHANGED <<selected, buffers, piece>>
    PROVE  BackendInv'
BY DEF BackendInv, Registered

LEMMA NoEntryIs == Unregistered \in Entries /\ Unregistered.file = 0
BY DEF Unregistered, Entries

LEMMA RemoveKeepsBackend ==
    ASSUME BackendInv, NEW t \in Torrents, RemoveTorrent(t)
    PROVE  BackendInv'
<1> DEFINE ask == [i \in Pieces(t) |-> None]
<1>1. /\ selected' = [selected EXCEPT ![t] = 0]
      /\ buffers' = [buffers EXCEPT ![t] = Unregistered]
      /\ piece' = [piece EXCEPT ![t] = ask]
  BY DEF RemoveTorrent
<1>2. ask \in [Pieces(t) -> None..Now] /\ OneRun(t, ask)
  BY NothingIsOneRun
<1> HIDE DEF ask
<1>3. QED
  <2>1. 0 \in Nat /\ Unregistered \in Entries /\ Unregistered.file = 0
    BY NoEntryIs
  <2>2. QED
    BY <1>1, <1>2, <2>1, OneTorrent

LEMMA PanicKeepsBackend ==
    ASSUME BackendInv, UpdatePanics
    PROVE  BackendInv'
BY NothingIsOneRun, NoEntryIs DEF UpdatePanics, BackendInv, Registered

LEMMA UpdateKeepsBackend ==
    ASSUME BackendInv, PeriodicUpdate
    PROVE  BackendInv'
<1>1. \A t \in Torrents : buffers[t] \in Entries
  BY DEF BackendInv
<1>2. \A t \in Torrents :
          piece'[t] = IF Registered(t) THEN Priorities(t, buffers[t]) ELSE piece[t]
  BY DEF PeriodicUpdate
<1>3. \A t \in Torrents : piece'[t] \in [Pieces(t) -> None..Now] /\ OneRun(t, piece'[t])
  BY <1>1, <1>2, PrioritiesAreOneRun DEF BackendInv
<1>4. UNCHANGED <<selected, buffers>> /\ piece' = [t \in Torrents |-> piece'[t]]
  BY DEF PeriodicUpdate
<1>5. QED
  BY <1>3, <1>4 DEF BackendInv, Registered

LEMMA SelectKeepsBackend ==
    ASSUME StreamInv, NEW k \in Plays, SelectFile(k)
    PROVE  BackendInv'
<1> DEFINE t == play[k].torrent
           i == play[k].file
           b == RegisterTorrent(i)
<1>1. IsFileOf(t, i)
  BY DEF StreamInv, ClientInv, SelectFile
<1>2. t \in Torrents /\ i \in Nat
  BY <1>1, FilesAre DEF IsFileOf
<1>3. b \in Entries /\ b.file = i
  BY <1>2 DEF RegisterTorrent, Entries
<1>4. /\ selected' = [selected EXCEPT ![t] = i]
      /\ buffers' = [buffers EXCEPT ![t] = b]
      /\ piece' = [piece EXCEPT ![t] = piece[t]]
  BY DEF SelectFile, StreamInv, BackendInv
<1>5. piece[t] \in [Pieces(t) -> None..Now] /\ OneRun(t, piece[t])
  BY <1>2 DEF StreamInv, BackendInv
<1> HIDE DEF t, i, b
<1>6. QED
  BY <1>1, <1>2, <1>3, <1>4, <1>5, OneTorrent DEF StreamInv

LEMMA ReportKeepsBackend ==
    ASSUME StreamInv, NEW k \in Plays, Report(k)
    PROVE  BackendInv'
<1> DEFINE t == play[k].torrent
           b == WindowFrom(t, buffers[t], play[k].offset)
<1>1. play[k].phase = "run" /\ play[k].offset \in Nat
  BY DEF StreamInv, ClientInv, Report, Picks
<1>2. t \in Torrents
  BY <1>1 DEF StreamInv, ClientInv, IsFileOf
<1>3. CASE Registered(t)
  <2>1. buffers[t] \in Entries /\ IsFileOf(t, buffers[t].file)
    BY <1>2, <1>3 DEF StreamInv, BackendInv
  <2>2. b \in Entries /\ b.file = buffers[t].file
    BY <1>1, <2>1, WindowIsEntry
  <2>3. /\ selected' = [selected EXCEPT ![t] = selected[t]]
        /\ buffers' = [buffers EXCEPT ![t] = b]
        /\ piece' = [piece EXCEPT ![t] = Priorities(t, b)]
    BY <1>3 DEF Report, UpdatePosition, StreamInv, BackendInv
  <2> HIDE DEF b
  <2>4. Priorities(t, b) \in [Pieces(t) -> None..Now] /\ OneRun(t, Priorities(t, b))
    BY <1>2, <2>2, PrioritiesAreOneRun
  <2>5. selected[t] \in Nat /\ (selected[t] # 0 => IsFileOf(t, selected[t]))
    BY <1>2 DEF StreamInv, BackendInv
  <2> HIDE DEF t
  <2>6. QED
    BY <1>2, <2>1, <2>2, <2>3, <2>4, <2>5, OneTorrent DEF StreamInv
<1>4. CASE ~Registered(t)
  BY <1>4, BackendStays DEF Report, UpdatePosition, StreamInv
<1>5. QED
  BY <1>3, <1>4

-----------------------------------------------------------------------------
(* Steps of the client.                                                    *)

LEMMA ClientStays ==
    ASSUME ClientInv, UNCHANGED <<play, film, position, tracked>>
    PROVE  ClientInv'
BY DEF ClientInv

\* What a step writes into one pick, and into what the picks share.
LEMMA OnePick ==
    ASSUME ClientInv, NEW k \in Plays, NEW next \in Picks,
           play' = [play EXCEPT ![k] = next],
           next.phase # "idle" => IsFileOf(next.torrent, next.file),
           next.phase = "track" => next.duration >= 1,
           next.phase = "run" => tracked'.duration >= 1,
           next.offset # -1 => next.phase = "run",
           film' \in Films, film' # NoFilm => film'.torrent \in Torrents,
           film'.file # 0 => IsFileOf(film'.torrent, film'.file),
           position' \in Nat, tracked' \in [by : Nat, size : Nat, duration : Nat],
           tracked' = tracked \/ tracked'.duration >= 1
    PROVE  ClientInv'
<1>1. \A j \in Plays : play'[j] = IF j = k THEN next ELSE play[j]
  BY DEF ClientInv
<1>2. play' \in [Plays -> Picks]
  BY DEF ClientInv
<1>3. ASSUME NEW j \in Plays
      PROVE  /\ play'[j].phase # "idle" => IsFileOf(play'[j].torrent, play'[j].file)
             /\ play'[j].phase = "track" => play'[j].duration >= 1
             /\ play'[j].phase = "run" => tracked'.duration >= 1
             /\ play'[j].offset # -1 => play'[j].phase = "run"
  <2>1. CASE j = k
    BY <1>1, <2>1
  <2>2. CASE j # k
    BY <1>1, <2>2 DEF ClientInv
  <2>3. QED
    BY <2>1, <2>2
<1>4. QED
  BY <1>2, <1>3 DEF ClientInv

\* ... and nothing else.
LEMMA OnlyOnePick ==
    ASSUME ClientInv, NEW k \in Plays, NEW next \in Picks,
           play' = [play EXCEPT ![k] = next], UNCHANGED <<film, position, tracked>>,
           next.phase # "idle" => IsFileOf(next.torrent, next.file),
           next.phase = "track" => next.duration >= 1,
           next.phase = "run" => tracked.duration >= 1,
           next.offset # -1 => next.phase = "run"
    PROVE  ClientInv'
BY OnePick DEF ClientInv

\* A pick that goes on is still of its file, and has nothing to report.
LEMMA PhaseIs ==
    ASSUME ClientInv, NEW k \in Plays, NEW phase \in Phases \ {"idle", "track", "run"},
           To(k, phase), play[k].phase \in Phases \ {"idle", "run"}
    PROVE  \E next \in Picks :
               /\ play' = [play EXCEPT ![k] = next] /\ next.phase = phase
               /\ next.torrent = play[k].torrent
               /\ IsFileOf(next.torrent, next.file) /\ next.offset = -1
<1> DEFINE next == [play[k] EXCEPT !.phase = phase]
<1>1. play[k] \in Picks
  BY DEF ClientInv
<1>2. play' = [play EXCEPT ![k] = next]
  BY DEF To
<1>3. next \in Picks /\ next.phase = phase
  BY <1>1 DEF Picks
<1>4. IsFileOf(play[k].torrent, play[k].file) /\ play[k].offset = -1
  BY DEF ClientInv
<1>5. next.torrent = play[k].torrent /\ next.file = play[k].file /\ next.offset = -1
  BY <1>1, <1>4 DEF Picks
<1>6. QED
  BY <1>2, <1>3, <1>4, <1>5

LEMMA PhaseKeepsClient ==
    ASSUME ClientInv, NEW k \in Plays, NEW phase \in Phases \ {"idle", "track", "run"},
           To(k, phase), play[k].phase \in Phases \ {"idle", "run"},
           UNCHANGED <<film, position, tracked>>
    PROVE  ClientInv'
<1>1. PICK next \in Picks :
          /\ play' = [play EXCEPT ![k] = next] /\ next.phase = phase
          /\ IsFileOf(next.torrent, next.file) /\ next.offset = -1
  BY PhaseIs
<1>2. QED
  BY <1>1, OnlyOnePick

LEMMA PickKeepsClient ==
    ASSUME ClientInv, NEW t \in Torrents, NEW i \in DOMAIN Layout[t], Pick(t, i)
    PROVE  ClientInv'
<1> DEFINE next == [NoPlay EXCEPT !.torrent = t, !.file = i, !.phase = "select"]
<1>1. PICK k \in Plays : play' = [play EXCEPT ![k] = next]
  BY DEF Pick
<1>2. IsFileOf(t, i) /\ i \in Nat
  BY FilesAre DEF IsFileOf
<1>3. /\ next \in Picks /\ next.phase = "select" /\ next.torrent = t /\ next.file = i
      /\ next.offset = -1
  BY <1>2 DEF NoPlay, Picks, Phases
<1> HIDE DEF next
<1>4. UNCHANGED <<film, position, tracked>>
  BY DEF Pick
<1>5. QED
  BY <1>1, <1>2, <1>3, <1>4, OnlyOnePick

\* The stream is loaded, whether or not Play then succeeds.
LEMMA LoadKeepsClient ==
    ASSUME ClientInv, NEW k \in Plays, NEW phase \in {"hand", "over"},
           play[k].phase = "load", To(k, phase),
           film' = [torrent |-> play[k].torrent, file |-> 0], position' = 0, tracked' = tracked
    PROVE  ClientInv'
<1>1. PICK next \in Picks :
          /\ play' = [play EXCEPT ![k] = next] /\ next.phase = phase
          /\ next.torrent = play[k].torrent
          /\ IsFileOf(next.torrent, next.file) /\ next.offset = -1
  BY PhaseIs DEF Phases
<1>2. film' = [torrent |-> play[k].torrent, file |-> 0] /\ position' = 0 /\ tracked' = tracked
  OBVIOUS
<1>3. film' \in Films /\ film'.file = 0 /\ film'.torrent \in Torrents
  BY <1>1, <1>2 DEF Films, IsFileOf
<1>4. tracked' \in [by : Nat, size : Nat, duration : Nat] /\ position' \in Nat
  BY <1>2 DEF ClientInv
<1>5. QED
  BY <1>1, <1>2, <1>3, <1>4, OnePick

LEMMA HeaderKeepsClient ==
    ASSUME StreamInv, ReadHeader
    PROVE  ClientInv'
<1>1. film.torrent \in Torrents
  BY DEF ReadHeader, StreamInv, ClientInv
<1>2. film' = [film EXCEPT !.file = selected[film.torrent]] /\ film \in Films
  BY DEF ReadHeader, StreamInv, ClientInv
<1>3. /\ selected[film.torrent] \in Nat
      /\ selected[film.torrent] # 0 => IsFileOf(film.torrent, selected[film.torrent])
  BY <1>1 DEF StreamInv, BackendInv
<1>4. /\ film' \in Films /\ film'.torrent = film.torrent
      /\ film'.file = selected[film.torrent]
  BY <1>2, <1>3 DEF Films
<1>5. QED
  BY <1>1, <1>3, <1>4 DEF ReadHeader, StreamInv, ClientInv

LEMMA SeekKeepsClient ==
    ASSUME ClientInv, NEW s \in Seconds, Seek(s)
    PROVE  ClientInv'
<1>1. s \in Nat
  <2>1. IsFileOf(film.torrent, film.file)
    BY DEF Seek, ClientInv
  <2>2. Layout[film.torrent][film.file].secs \in Nat
    BY <2>1, FilesAre
  <2>3. QED
    BY <2>2 DEF Seek
<1>2. QED
  BY <1>1 DEF Seek, ClientInv

LEMMA ReportBufferKeepsClient ==
    ASSUME ClientInv, NEW k \in Plays, ReportBuffer(k)
    PROVE  ClientInv'
<1> DEFINE next(j) == IF j = k THEN [play[k] EXCEPT !.phase = "wait"]
                      ELSE IF play[j].phase \in {"wait", "track", "run"}
                      THEN [play[j] EXCEPT !.cancelled = TRUE] ELSE play[j]
<1>1. play' = [j \in Plays |-> next(j)]
  BY DEF ReportBuffer
<1>2. ASSUME NEW j \in Plays
      PROVE  /\ next(j) \in Picks
             /\ next(j).torrent = play[j].torrent /\ next(j).file = play[j].file
             /\ next(j).duration = play[j].duration /\ next(j).offset = play[j].offset
             /\ next(j).phase = IF j = k THEN "wait" ELSE play[j].phase
  BY DEF ClientInv, Picks, Phases
<1>3. play[k].phase = "hand" /\ UNCHANGED <<film, position, tracked>>
  BY DEF ReportBuffer
<1> HIDE DEF next
<1>4. play' \in [Plays -> Picks] /\ \A j \in Plays : play'[j] = next(j)
  BY <1>1, <1>2
<1>5. QED
  BY <1>2, <1>3, <1>4 DEF ClientInv

LEMMA LearnKeepsClient ==
    ASSUME ClientInv, NEW k \in Plays, LearnDuration(k)
    PROVE  ClientInv'
<1> DEFINE secs == Layout[film.torrent][film.file].secs
           next == [play[k] EXCEPT !.phase = "track", !.duration = secs]
<1>1. play[k] \in Picks /\ play[k].phase = "wait"
  BY DEF ClientInv, LearnDuration
<1>2. secs \in Nat \ {0}
  BY FilesAre DEF ClientInv, LearnDuration
<1>3. play' = [play EXCEPT ![k] = next]
  BY <1>1 DEF LearnDuration, ClientInv, Picks
<1>4. IsFileOf(play[k].torrent, play[k].file) /\ play[k].offset = -1
  BY <1>1 DEF ClientInv
<1> HIDE DEF secs
<1>5. /\ next \in Picks /\ next.phase = "track" /\ next.duration = secs
      /\ next.torrent = play[k].torrent /\ next.file = play[k].file
      /\ next.offset = play[k].offset
  BY <1>1, <1>2 DEF Picks, Phases
<1> HIDE DEF next
<1>6. next.duration >= 1
  BY <1>2, <1>5
<1>7. UNCHANGED <<film, position, tracked>>
  BY DEF LearnDuration
<1>8. QED
  BY <1>3, <1>4, <1>5, <1>6, <1>7, OnlyOnePick

LEMMA TrackKeepsClient ==
    ASSUME ClientInv, NEW k \in Plays, Track(k)
    PROVE  ClientInv'
<1> DEFINE next == [play[k] EXCEPT !.phase = "run"]
<1>1. play[k] \in Picks /\ play[k].phase = "track" /\ k \in Nat
  BY StreamingAssumption DEF ClientInv, Track, Plays
<1>2. /\ IsFileOf(play[k].torrent, play[k].file) /\ play[k].offset = -1
      /\ play[k].duration \in Nat /\ play[k].duration >= 1
  BY <1>1 DEF ClientInv, Picks
<1>3. play' = [play EXCEPT ![k] = next]
  BY DEF Track, To
<1>4. /\ next \in Picks /\ next.phase = "run" /\ next.torrent = play[k].torrent
      /\ next.file = play[k].file /\ next.offset = play[k].offset
  BY <1>1 DEF Picks, Phases
<1>5. tracked' \in [by : Nat, size : Nat, duration : Nat] /\ tracked'.duration >= 1
  BY <1>1, <1>2, FilesAre DEF Track, SizeTracked
<1>6. UNCHANGED <<film, position>>
  BY DEF Track
<1> HIDE DEF next
<1>7. QED
  BY <1>2, <1>3, <1>4, <1>5, <1>6, OnePick DEF ClientInv

LEMMA TickKeepsClient ==
    ASSUME ClientInv, NEW k \in Plays, Tick(k)
    PROVE  ClientInv'
<1> DEFINE offset == BytePosition(position, tracked.duration, tracked.size)
           next == [play[k] EXCEPT !.offset = offset]
<1>1. play[k] \in Picks /\ play[k].phase = "run"
  BY DEF ClientInv, Tick
<1>2. IsFileOf(play[k].torrent, play[k].file) /\ tracked.duration >= 1
  BY <1>1 DEF ClientInv
<1>3. offset \in Nat
  BY <1>2, PositionIsByte DEF ClientInv
<1>4. play' = [play EXCEPT ![k] = next]
  BY DEF Tick
<1> HIDE DEF offset
<1>5. /\ next \in Picks /\ next.phase = "run" /\ next.torrent = play[k].torrent
      /\ next.file = play[k].file
  BY <1>1, <1>3 DEF Picks
<1> HIDE DEF next
<1>6. UNCHANGED <<film, position, tracked>>
  BY DEF Tick
<1>7. QED
  BY <1>2, <1>4, <1>5, <1>6, OnlyOnePick

\* A report that is sent, or a loop that ends, leaves nothing to report.
LEMMA SentKeepsClient ==
    ASSUME ClientInv, NEW k \in Plays, play[k].phase = "run", NEW phase \in {"run", "over"},
           play' = [play EXCEPT ![k] = [play[k] EXCEPT !.phase = phase, !.offset = -1]],
           UNCHANGED <<film, position, tracked>>
    PROVE  ClientInv'
<1> DEFINE next == [play[k] EXCEPT !.phase = phase, !.offset = -1]
<1>1. play[k] \in Picks
  BY DEF ClientInv
<1>2. IsFileOf(play[k].torrent, play[k].file) /\ tracked.duration >= 1
  BY <1>1 DEF ClientInv
<1>3. /\ next \in Picks /\ next.phase = phase /\ next.torrent = play[k].torrent
      /\ next.file = play[k].file /\ next.offset = -1
  BY <1>1 DEF Picks, Phases
<1> HIDE DEF next
<1>4. play' = [play EXCEPT ![k] = next]
  BY DEF next
<1>5. QED
  BY <1>2, <1>3, <1>4, OnlyOnePick

LEMMA ReportKeepsClient ==
    ASSUME ClientInv, NEW k \in Plays, Report(k)
    PROVE  ClientInv'
<1>1. play[k] \in Picks /\ play[k].phase = "run"
  BY DEF ClientInv, Report
<1>2. [play[k] EXCEPT !.offset = -1] = [play[k] EXCEPT !.phase = "run", !.offset = -1]
  BY <1>1 DEF Picks
<1>3. play' = [play EXCEPT ![k] = [play[k] EXCEPT !.offset = -1]]
  BY DEF Report
<1>4. UNCHANGED <<film, position, tracked>>
  BY DEF Report
<1>5. QED
  BY <1>1, <1>2, <1>3, <1>4, SentKeepsClient

LEMMA StopKeepsClient ==
    ASSUME ClientInv, NEW k \in Plays, Stop(k)
    PROVE  ClientInv'
<1>1. play[k] \in Picks /\ play[k].phase = "run"
  BY DEF ClientInv, Stop
<1>2. play' = [play EXCEPT ![k] = [play[k] EXCEPT !.phase = "over", !.offset = -1]]
  BY <1>1 DEF Stop, ClientInv, Picks
<1>3. UNCHANGED <<film, position, tracked>>
  BY DEF Stop
<1>4. QED
  BY <1>1, <1>2, <1>3, SentKeepsClient

-----------------------------------------------------------------------------
(* What the prioritiser tells of the buffer.                               *)

LEMMA DivisionIs ==
    ASSUME NEW x \in Nat, NEW p \in Nat \ {0}
    PROVE  /\ x \div p \in Nat
           /\ p * (x \div p) \in Nat
           /\ p * (x \div p) <= x /\ x < p * (x \div p) + p
<1>1. x \div p \in Nat
  OBVIOUS
<1>2. p * (x \div p) <= x /\ x < p * (x \div p) + p
  OBVIOUS
<1>3. p * (x \div p) \in Nat
  BY <1>1
<1>4. QED
  BY <1>1, <1>2, <1>3

LEMMA DivisionIsMonotone ==
    ASSUME NEW x \in Nat, NEW y \in Nat, x <= y, NEW p \in Nat \ {0}
    PROVE  x \div p <= y \div p
<1> DEFINE qx == x \div p
           qy == y \div p
<1>1. qx \in Nat /\ qy \in Nat /\ p * qx <= x /\ y < p * qy + p
  BY DivisionIs
<1> HIDE DEF qx, qy
<1>2. p * qx < p * (qy + 1)
  <2>1. p * (qy + 1) = p * qy + p
    BY <1>1
  <2>2. p * qx \in Nat /\ p * qy \in Nat
    BY <1>1
  <2>3. QED
    BY <1>1, <2>1, <2>2
<1>3. qx < qy + 1
  BY <1>1, <1>2
<1>4. QED
  BY <1>1, <1>3 DEF qx, qy

\* The window's pieces: their bytes exceed its own by less than two pieces.
LEMMA WindowIsCovered ==
    ASSUME NEW start \in Nat, NEW end \in Nat, start <= end, NEW p \in Nat \ {0}
    PROVE  /\ IsFiniteSet((start \div p)..(end \div p))
           /\ Cardinality((start \div p)..(end \div p)) \in Nat
           /\ p * Cardinality((start \div p)..(end \div p)) < (end - start) + 2 * p
<1> DEFINE s == start \div p
           e == end \div p
           W == s..e
<1>1. /\ s \in Nat /\ start < p * s + p /\ p * s \in Nat
      /\ e \in Nat /\ p * e <= end /\ p * e \in Nat
  BY DivisionIs
<1>2. s <= e
  BY DivisionIsMonotone
<1>3. IsFiniteSet(W) /\ Cardinality(W) = e - s + 1
  BY <1>1, <1>2, FS_Interval
<1> HIDE DEF s, e
<1>4. p * (e - s + 1) = p * e - p * s + p
  BY <1>1
<1>5. p * (e - s + 1) < (end - start) + 2 * p
  BY <1>1, <1>4
<1>6. QED
  BY <1>1, <1>2, <1>3, <1>5 DEF s, e

LEMMA ReadyIs ==
    ASSUME NEW t \in Torrents, NEW b \in Entries,
           NEW whole \in SUBSET (BufferInfo(b, {}).window \cap Pieces(t)),
           ~BufferInfo(b, whole).isBuffering
    PROVE  100 * PieceSize * Cardinality((BufferInfo(b, {}).window \cap Pieces(t)) \ whole)
               < 5 * (b.end - b.start) + 200 * PieceSize
<1> DEFINE W == (b.start \div PieceSize)..(b.end \div PieceSize)
           size == b.end - b.start
           missing == (W \cap Pieces(t)) \ whole
           m == Cardinality(missing)
           c == Cardinality(whole)
           n == Cardinality(W)
<1>1. b.start \in Nat /\ b.end \in Nat /\ PieceSize \in Nat \ {0}
  BY StreamingAssumption DEF Entries
<1>2. BufferInfo(b, {}).window = W
  BY DEF BufferInfo
<1>3. ~(size <= 0 \/ 100 * (PieceSize * Cardinality(W \cap whole)) < 95 * size)
  BY DEF BufferInfo
<1>4. size \in Int /\ size > 0 /\ b.start <= b.end
  BY <1>1, <1>3
<1>5. IsFiniteSet(W) /\ n \in Nat /\ PieceSize * n < size + 2 * PieceSize
  BY <1>1, <1>4, WindowIsCovered
<1> HIDE DEF W
<1>6. whole \subseteq W /\ W \cap whole = whole /\ missing \subseteq W \ whole
  BY <1>2
<1>7. /\ IsFiniteSet(whole) /\ c \in Nat
      /\ IsFiniteSet(W \ whole) /\ Cardinality(W \ whole) = n - c
  BY <1>5, <1>6, FS_Subset, FS_Difference, FS_CardinalityType
<1>8. m \in Nat /\ m <= n - c
  BY <1>6, <1>7, FS_Subset, FS_CardinalityType
<1>9. 100 * (PieceSize * c) >= 95 * size
  <2>1. ~(100 * (PieceSize * c) < 95 * size)
    BY <1>3, <1>6
  <2>2. PieceSize * c \in Nat
    BY <1>1, <1>7
  <2>3. QED
    BY <1>4, <2>1, <2>2
<1> HIDE DEF size, missing, m, c, n
<1>10. PieceSize * m <= PieceSize * n - PieceSize * c
  <2>1. m + c <= n
    BY <1>5, <1>7, <1>8
  <2>2. PieceSize * (m + c) <= PieceSize * n
    BY <1>1, <1>5, <1>7, <1>8, <2>1
  <2>3. PieceSize * (m + c) = PieceSize * m + PieceSize * c
    BY <1>1, <1>7, <1>8
  <2>4. PieceSize * m \in Nat /\ PieceSize * c \in Nat /\ PieceSize * n \in Nat
    BY <1>1, <1>5, <1>7, <1>8
  <2>5. QED
    BY <2>2, <2>3, <2>4
<1>11. 100 * (PieceSize * m) < 5 * size + 200 * PieceSize
  <2>1. PieceSize * m \in Nat /\ PieceSize * c \in Nat /\ PieceSize * n \in Nat
    BY <1>1, <1>5, <1>7, <1>8
  <2>2. QED
    BY <1>1, <1>4, <1>5, <1>9, <1>10, <2>1
<1>12. 100 * PieceSize * m = 100 * (PieceSize * m)
  BY <1>1, <1>8
<1>13. QED
  BY <1>2, <1>11, <1>12 DEF size, m, missing

-----------------------------------------------------------------------------
(* The theorems on Streaming.                                              *)

LEMMA InitStream == Init => StreamInv
<1> SUFFICES ASSUME Init PROVE StreamInv
  OBVIOUS
<1>1. BackendInv
  BY NothingIsOneRun, NoEntryIs DEF Init, BackendInv, Registered
<1>2. NoPlay \in Picks /\ NoPlay.phase = "idle" /\ NoPlay.offset = -1
  BY DEF NoPlay, Picks, Phases
<1>3. NoFilm \in Films /\ NoFilm.file = 0
  BY DEF NoFilm, Films
<1>4. NotTracking \in [by : Nat, size : Nat, duration : Nat]
  BY DEF NotTracking
<1>5. ClientInv
  BY <1>2, <1>3, <1>4 DEF Init, ClientInv
<1>6. QED
  BY <1>1, <1>5 DEF StreamInv

LEMMA StepKeepsStream ==
    ASSUME StreamInv, NEW k \in Plays, Step(k)
    PROVE  StreamInv'
<1>1. CASE SelectFile(k)
  <2>1. ClientInv'
    BY <1>1, PhaseKeepsClient DEF SelectFile, StreamInv, Phases
  <2>2. QED
    BY <1>1, <2>1, SelectKeepsBackend DEF StreamInv
<1>2. CASE SelectFails(k)
  BY <1>2, PhaseKeepsClient, BackendStays DEF SelectFails, StreamInv, Phases
<1>3. CASE LoadFile(k)
  BY <1>3, LoadKeepsClient, BackendStays DEF LoadFile, StreamInv
<1>4. CASE ReportBuffer(k)
  BY <1>4, ReportBufferKeepsClient, BackendStays DEF ReportBuffer, StreamInv
<1>5. CASE LearnDuration(k)
  BY <1>5, LearnKeepsClient, BackendStays DEF LearnDuration, StreamInv
<1>6. CASE WaitEnds(k)
  BY <1>6, PhaseKeepsClient, BackendStays DEF WaitEnds, StreamInv, Phases
<1>7. CASE Track(k)
  BY <1>7, TrackKeepsClient, BackendStays DEF Track, StreamInv
<1>8. CASE Stop(k)
  BY <1>8, StopKeepsClient, BackendStays DEF Stop, StreamInv
<1>9. CASE PlayFails(k)
  <2>1. /\ BackendInv' /\ play[k].phase = "load" /\ To(k, "over") /\ tracked' = tracked
        /\ \/ UNCHANGED <<film, position>>
           \/ film' = [torrent |-> play[k].torrent, file |-> 0] /\ position' = 0
    BY <1>9, BackendStays DEF PlayFails, StreamInv
  <2>2. ClientInv'
    BY <2>1, LoadKeepsClient, PhaseKeepsClient DEF StreamInv, Phases
  <2>3. QED
    BY <2>1, <2>2 DEF StreamInv
<1>10. QED
  BY <1>1, <1>2, <1>3, <1>4, <1>5, <1>6, <1>7, <1>8, <1>9 DEF Step

LEMMA NextKeepsStream == StreamInv /\ [Next]_vars => StreamInv'
<1> SUFFICES ASSUME StreamInv, [Next]_vars PROVE StreamInv'
  OBVIOUS
<1>1. CASE UNCHANGED vars
  BY <1>1, BackendStays, ClientStays DEF vars, StreamInv
<1>2. ASSUME NEW t \in Torrents, NEW i \in DOMAIN Layout[t], Pick(t, i) PROVE StreamInv'
  BY <1>2, PickKeepsClient, BackendStays DEF Pick, StreamInv
<1>3. ASSUME NEW t \in Torrents, RemoveTorrent(t) PROVE StreamInv'
  BY <1>3, RemoveKeepsBackend, ClientStays DEF RemoveTorrent, StreamInv
<1>4. ASSUME NEW s \in Seconds, Seek(s) PROVE StreamInv'
  BY <1>4, SeekKeepsClient, BackendStays DEF Seek, StreamInv
<1>5. CASE ReadHeader
  BY <1>5, HeaderKeepsClient, BackendStays DEF ReadHeader, StreamInv
<1>6. CASE PeriodicUpdate
  BY <1>6, UpdateKeepsBackend, ClientStays DEF PeriodicUpdate, StreamInv
<1>7. CASE UpdatePanics
  BY <1>7, PanicKeepsBackend, ClientStays DEF UpdatePanics, StreamInv
<1>8. ASSUME NEW k \in Plays, Tick(k) PROVE StreamInv'
  BY <1>8, TickKeepsClient, BackendStays DEF Tick, StreamInv
<1>9. ASSUME NEW k \in Plays, Report(k) PROVE StreamInv'
  BY <1>9, ReportKeepsBackend, ReportKeepsClient DEF StreamInv
<1>10. QED
  BY <1>1, <1>2, <1>3, <1>4, <1>5, <1>6, <1>7, <1>8, <1>9, StepKeepsStream DEF Next

LEMMA StreamInvariant == Spec => []StreamInv
<1>1. QED
  BY InitStream, NextKeepsStream, PTL DEF Spec

\* Whatever is picked, sought, removed and reported late, and for any files, piece
\* sizes and bands: what is asked for of a torrent is one run of pieces in which
\* urgency falls with the distance from the playhead.
THEOREM WhatIsAskedForIsOneWindow == Spec => []OneWindow
<1>1. StreamInv => OneWindow
  BY DEF StreamInv, BackendInv, OneWindow, OneRun
<1>2. QED
  BY <1>1, StreamInvariant, PTL

\* "Not buffering" is said only when less is missing than a twentieth of the window
\* and the two pieces its ends cut, for any window the prioritiser can have, any
\* sizes and whatever of it is there.
THEOREM ReadySaysWhatIsThere == Spec => []ReadyMeansAlmostThere
<1>1. StreamInv => ReadyMeansAlmostThere
  BY ReadyIs DEF StreamInv, BackendInv, ReadyMeansAlmostThere
<1>2. QED
  BY <1>1, StreamInvariant, PTL
=============================================================================
