----------------------------- MODULE CacheProofs -----------------------------
(***************************************************************************)
(* What holds of the two sqlite tables for any number of keys, requests,   *)
(* sizes, limits and skew of the clocks.                                   *)
(***************************************************************************)
EXTENDS MCCachePair, FiniteSetTheorems, TLAPS

-----------------------------------------------------------------------------
(* Induction over the subsets of a finite set, as a smallest counterexample. *)
LEMMA Smallest ==
    ASSUME NEW K, IsFiniteSet(K), NEW Bad \in SUBSET SUBSET K, Bad # {}
    PROVE  \E S \in Bad : \A T \in Bad : T \subseteq S => T = S
<1>1. IsWellFoundedOn(StrictSubsetOrdering(K), SUBSET K)
  BY FS_StrictSubsetOrderingWellFounded, FS_FiniteSubsetsOfFinite
<1>2. PICK S \in Bad : \A T \in Bad : ~(<<T, S>> \in StrictSubsetOrdering(K))
  BY <1>1, WFMin
<1>3. ASSUME NEW T \in Bad, T \subseteq S
      PROVE  T = S
  BY <1>2, <1>3 DEF StrictSubsetOrdering
<1>4. QED
  BY <1>3

(* The sum of the sizes of a set of keys, as the fold computes it. *)
Chosen(s) == CHOOSE k \in s : TRUE
Sums(g, S) ==
    g = [s \in SUBSET S |-> IF s = {} THEN 0 ELSE SizeOf[Chosen(s)] + g[s \ {Chosen(s)}]]

(* Bytes is the function that the fold defines by recursion.                *)
LEMMA BytesIsFold == \A S : Bytes(S) = (CHOOSE g : Sums(g, S))[S]
  BY DEF Bytes, SumFunctionOnSet, FoldFunctionOnSet, MapThenFoldSet, Sums, Chosen

(* Two such functions agree wherever both are defined.                      *)
LEMMA SumsUnique ==
    ASSUME NEW g, NEW h, NEW S \in SUBSET Keys, NEW T \in SUBSET Keys, Sums(g, S), Sums(h, T)
    PROVE  \A s \in SUBSET (S \cap T) : g[s] = h[s]
<1> DEFINE Bad == {s \in SUBSET (S \cap T) : g[s] # h[s]}
<1>1. SUFFICES ASSUME Bad # {} PROVE FALSE
  OBVIOUS
<1>2. PICK s \in Bad : \A t \in Bad : t \subseteq s => t = s
  <2>1. Bad \in SUBSET SUBSET Keys /\ IsFiniteSet(Keys)
    BY CacheAssumption
  <2> HIDE DEF Bad
  <2>2. QED
    BY <1>1, <2>1, Smallest
<1>3. s # {}
  BY DEF Sums
<1>4. Chosen(s) \in s
  BY <1>3 DEF Chosen
<1>5. /\ s \ {Chosen(s)} \in SUBSET (S \cap T)
      /\ s \ {Chosen(s)} \subseteq s /\ s \ {Chosen(s)} # s
  BY <1>4
<1>6. g[s \ {Chosen(s)}] = h[s \ {Chosen(s)}]
  BY <1>2, <1>5
<1>7. g[s] = SizeOf[Chosen(s)] + g[s \ {Chosen(s)}]
  BY <1>3 DEF Sums
<1>8. h[s] = SizeOf[Chosen(s)] + h[s \ {Chosen(s)}]
  BY <1>3 DEF Sums
<1>9. QED
  BY <1>6, <1>7, <1>8

(* There is such a function for every set of keys.                          *)
LEMMA SumsExist == \A S \in SUBSET Keys : \E g : Sums(g, S)
<1> DEFINE Bad == {s \in SUBSET Keys : \A g : ~Sums(g, s)}
<1>1. SUFFICES ASSUME Bad # {} PROVE FALSE
  OBVIOUS
<1>2. PICK S \in Bad : \A t \in Bad : t \subseteq S => t = S
  <2>1. Bad \in SUBSET SUBSET Keys /\ IsFiniteSet(Keys)
    BY CacheAssumption
  <2> HIDE DEF Bad
  <2>2. QED
    BY <1>1, <2>1, Smallest
<1> DEFINE G(s) == CHOOSE g : Sums(g, s)
           x == Chosen(S)
           g == [s \in SUBSET S |->
                    IF s = S THEN IF s = {} THEN 0 ELSE SizeOf[x] + G(s \ {x})[s \ {x}]
                    ELSE G(s)[s]]
<1>3. S \in SUBSET Keys /\ \A h : ~Sums(h, S)
  OBVIOUS
<1>4. \A s \in SUBSET S : s # S => s \in SUBSET Keys /\ Sums(G(s), s)
  <2>1. ASSUME NEW s \in SUBSET S, s # S
        PROVE  \E h : Sums(h, s)
    BY <1>2, <2>1
  <2> HIDE DEF Sums
  <2>2. QED
    BY <1>3, <2>1
<1> HIDE DEF G
<1>5. ASSUME NEW s \in SUBSET S
      PROVE  g[s] = IF s = {} THEN 0 ELSE SizeOf[Chosen(s)] + g[s \ {Chosen(s)}]
  <2>1. CASE s = {}
    <3>1. CASE s = S
      BY <2>1, <3>1
    <3>2. CASE s # S
      <4>1. G(s)[s] = 0
        BY <1>4, <2>1, <3>2 DEF Sums
      <4>2. QED
        BY <2>1, <3>2, <4>1
    <3>3. QED
      BY <3>1, <3>2
  <2>2. CASE s # {}
    <3>1. Chosen(s) \in s
      BY <2>2 DEF Chosen
    <3> DEFINE t == s \ {Chosen(s)}
    <3>2. t \in SUBSET S /\ t # S /\ t \subseteq s /\ g[t] = G(t)[t]
      BY <3>1
    <3>3. CASE s = S
      BY <2>2, <3>2, <3>3
    <3>4. CASE s # S
      <4>1. G(s)[s] = SizeOf[Chosen(s)] + G(s)[t]
        BY <1>4, <2>2, <3>4 DEF Sums
      <4>2. G(s)[t] = G(t)[t]
        <5>1. Sums(G(s), s) /\ Sums(G(t), t) /\ s \in SUBSET Keys /\ t \in SUBSET Keys
          BY <1>4, <3>2, <3>4
        <5>2. t \in SUBSET (s \cap t)
          BY <3>2
        <5> HIDE DEF t
        <5>3. QED
          BY <5>1, <5>2, SumsUnique
      <4>3. QED
        BY <2>2, <3>2, <3>4, <4>1, <4>2
    <3>5. QED
      BY <3>3, <3>4
  <2>3. QED
    BY <2>1, <2>2
<1>6. Sums(g, S)
  BY <1>5 DEF Sums
<1>7. QED
  BY <1>3, <1>6

(* So the sum is 0 for no key, and grows by the size of the chosen key. *)
LEMMA BytesUnfolds ==
    /\ Bytes({}) = 0
    /\ \A S \in SUBSET Keys :
           S # {} => Chosen(S) \in S /\ Bytes(S) = SizeOf[Chosen(S)] + Bytes(S \ {Chosen(S)})
<1> DEFINE G(S) == CHOOSE g : Sums(g, S)
<1>1. \A S \in SUBSET Keys : Sums(G(S), S) /\ Bytes(S) = G(S)[S]
  <2> HIDE DEF Sums
  <2>1. QED
    BY SumsExist, BytesIsFold
<1> HIDE DEF G
<1>2. {} \in SUBSET Keys /\ {} \in SUBSET {}
  OBVIOUS
<1>3. Bytes({}) = 0
  BY <1>1, <1>2 DEF Sums
<1>4. ASSUME NEW S \in SUBSET Keys, S # {}
      PROVE  Chosen(S) \in S /\ Bytes(S) = SizeOf[Chosen(S)] + Bytes(S \ {Chosen(S)})
  <2>1. Chosen(S) \in S
    BY <1>4 DEF Chosen
  <2> DEFINE T == S \ {Chosen(S)}
  <2>2. T \in SUBSET Keys /\ T \in SUBSET S /\ T \in SUBSET (S \cap T) /\ S \in SUBSET S
    OBVIOUS
  <2>3. G(S)[S] = SizeOf[Chosen(S)] + G(S)[T]
    BY <1>1, <1>4, <2>2 DEF Sums
  <2>4. G(S)[T] = G(T)[T]
    <3>1. Sums(G(S), S) /\ Sums(G(T), T)
      BY <1>1, <2>2
    <3> HIDE DEF T
    <3>2. QED
      BY <2>2, <3>1, SumsUnique
  <2>5. QED
    BY <1>1, <2>1, <2>2, <2>3, <2>4
<1>5. QED
  BY <1>3, <1>4

(* The bytes of a set of keys are a number.                                 *)
LEMMA BytesType == \A S \in SUBSET Keys : Bytes(S) \in Nat
<1> DEFINE Bad == {s \in SUBSET Keys : Bytes(s) \notin Nat}
<1>1. SUFFICES ASSUME Bad # {} PROVE FALSE
  OBVIOUS
<1>2. PICK S \in Bad : \A t \in Bad : t \subseteq S => t = S
  <2>1. Bad \in SUBSET SUBSET Keys /\ IsFiniteSet(Keys)
    BY CacheAssumption
  <2> HIDE DEF Bad
  <2>2. QED
    BY <1>1, <2>1, Smallest
<1>3. S \in SUBSET Keys /\ S # {}
  BY BytesUnfolds
<1>4. Chosen(S) \in S /\ Bytes(S) = SizeOf[Chosen(S)] + Bytes(S \ {Chosen(S)})
  BY <1>3, BytesUnfolds
<1>5. Bytes(S \ {Chosen(S)}) \in Nat
  BY <1>2, <1>4
<1>6. SizeOf[Chosen(S)] \in Nat
  BY <1>3, <1>4, CacheAssumption
<1>7. QED
  BY <1>4, <1>5, <1>6

(* The order of the sum does not matter. *)
LEMMA BytesSplits ==
    \A S \in SUBSET Keys : \A k \in S : Bytes(S) = SizeOf[k] + Bytes(S \ {k})
<1> DEFINE Bad == {s \in SUBSET Keys : \E k \in s : Bytes(s) # SizeOf[k] + Bytes(s \ {k})}
<1>1. SUFFICES ASSUME Bad # {} PROVE FALSE
  OBVIOUS
<1>2. PICK S \in Bad : \A t \in Bad : t \subseteq S => t = S
  <2>1. Bad \in SUBSET SUBSET Keys /\ IsFiniteSet(Keys)
    BY CacheAssumption
  <2> HIDE DEF Bad
  <2>2. QED
    BY <1>1, <2>1, Smallest
<1>3. PICK k \in S : Bytes(S) # SizeOf[k] + Bytes(S \ {k})
  OBVIOUS
<1>4. S \in SUBSET Keys
  OBVIOUS
<1>5. \A t \in SUBSET S : t # S => \A j \in t : Bytes(t) = SizeOf[j] + Bytes(t \ {j})
  BY <1>2, <1>4
<1> HIDE DEF Bad
<1> DEFINE x == Chosen(S)
<1>6. x \in S /\ Bytes(S) = SizeOf[x] + Bytes(S \ {x}) /\ x # k
  BY <1>3, <1>4, BytesUnfolds
<1> HIDE DEF x
<1>7. Bytes(S \ {x}) = SizeOf[k] + Bytes((S \ {x}) \ {k})
  BY <1>5, <1>6
<1>8. Bytes(S \ {k}) = SizeOf[x] + Bytes((S \ {k}) \ {x})
  BY <1>3, <1>5, <1>6
<1>9. (S \ {x}) \ {k} = (S \ {k}) \ {x} /\ (S \ {k}) \ {x} \in SUBSET Keys
  BY <1>4
<1>10. SizeOf[x] \in Nat /\ SizeOf[k] \in Nat /\ Bytes((S \ {k}) \ {x}) \in Nat
  BY <1>3, <1>4, <1>6, <1>9, BytesType, CacheAssumption
<1>11. \A a, b, c \in Nat : a + (b + c) = b + (a + c)
  OBVIOUS
<1>12. SizeOf[x] + (SizeOf[k] + Bytes((S \ {k}) \ {x})) = SizeOf[k] + (SizeOf[x] + Bytes((S \ {k}) \ {x}))
  BY <1>10, <1>11
<1>13. QED
  BY <1>3, <1>6, <1>7, <1>8, <1>9, <1>12

(* Fewer entries take no more room. *)
LEMMA BytesMonotone ==
    ASSUME NEW T \in SUBSET Keys, NEW S \in SUBSET T
    PROVE  Bytes(S) <= Bytes(T)
<1> DEFINE Bad == {t \in SUBSET Keys : S \subseteq t /\ ~(Bytes(S) <= Bytes(t))}
<1>1. SUFFICES ASSUME Bad # {} PROVE FALSE
  OBVIOUS
<1>2. PICK U \in Bad : \A t \in Bad : t \subseteq U => t = U
  <2>1. Bad \in SUBSET SUBSET Keys /\ IsFiniteSet(Keys)
    BY CacheAssumption
  <2> HIDE DEF Bad
  <2>2. QED
    BY <1>1, <2>1, Smallest
<1>3. U \in SUBSET Keys /\ S \subseteq U /\ ~(Bytes(S) <= Bytes(U)) /\ Bytes(S) \in Nat
  BY BytesType
<1>4. PICK k \in U : k \notin S
  BY <1>3
<1>5. Bytes(U) = SizeOf[k] + Bytes(U \ {k})
  BY <1>3, BytesSplits
<1>6. Bytes(S) <= Bytes(U \ {k})
  BY <1>2, <1>3, <1>4
<1>7. SizeOf[k] \in Nat /\ Bytes(U \ {k}) \in Nat
  BY <1>3, BytesType, CacheAssumption
<1>8. QED
  BY <1>3, <1>5, <1>6, <1>7

(* _enforce_limits never deletes more after it has deleted something. *)
LEMMA FitsMonotone ==
    ASSUME NEW T \in SUBSET Keys, NEW S \in SUBSET T, Fits(T)
    PROVE  Fits(S)
<1>1. /\ IsFiniteSet(T) /\ Cardinality(T) \in Nat /\ Cardinality(S) \in Nat
      /\ Cardinality(S) <= Cardinality(T)
  <2>1. IsFiniteSet(T) /\ IsFiniteSet(S)
    BY CacheAssumption, FS_Subset
  <2>2. QED
    BY <2>1, FS_Subset, FS_CardinalityType
<1>2. Bytes(S) \in Nat /\ Bytes(T) \in Nat /\ Bytes(S) <= Bytes(T)
  BY BytesMonotone, BytesType
<1>3. QED
  BY <1>1, <1>2, CacheAssumption DEF Fits

(* The empty table is within every limit.                                   *)
LEMMA NothingFits == Fits({})
  BY BytesUnfolds, FS_EmptySet, CacheAssumption DEF Fits

-----------------------------------------------------------------------------
(* ORDER BY last_accessed_at, created_at, key: a total order of the rows. *)
LEMMA BeforeOrders ==
    ASSUME NEW c \in [Keys -> Int], NEW u \in [Keys -> Int]
    PROVE  /\ \A j \in Keys : ~Before(c, u, j, j)
           /\ \A j, k \in Keys : j # k => Before(c, u, j, k) \/ Before(c, u, k, j)
           /\ \A i, j, k \in Keys : Before(c, u, i, j) /\ Before(c, u, j, k) => Before(c, u, i, k)
<1>1. \A k \in Keys : k \in Int /\ c[k] \in Int /\ u[k] \in Int
  BY CacheAssumption
<1>2. ASSUME NEW i \in Keys, NEW j \in Keys, NEW k \in Keys,
             Before(c, u, i, j), Before(c, u, j, k)
      PROVE  Before(c, u, i, k)
  <2>1. /\ i \in Int /\ j \in Int /\ k \in Int
        /\ c[i] \in Int /\ c[j] \in Int /\ c[k] \in Int
        /\ u[i] \in Int /\ u[j] \in Int /\ u[k] \in Int
    BY <1>1
  <2>2. CASE u[i] = u[j] /\ u[j] = u[k]
    BY <1>2, <2>1, <2>2 DEF Before
  <2>3. CASE u[i] < u[j] \/ u[j] < u[k]
    BY <1>2, <2>1, <2>3 DEF Before
  <2>4. QED
    BY <1>2, <2>1, <2>2, <2>3 DEF Before
<1>3. \A j \in Keys : ~Before(c, u, j, j)
  BY <1>1 DEF Before
<1>4. \A j, k \in Keys : j # k => Before(c, u, j, k) \/ Before(c, u, k, j)
  BY <1>1 DEF Before
<1>5. QED
  BY <1>2, <1>3, <1>4

(* Every table that is not empty has an oldest row.                         *)
LEMMA Oldest ==
    ASSUME NEW c \in [Keys -> Int], NEW u \in [Keys -> Int], NEW S \in SUBSET Keys, S # {}
    PROVE  \E k \in S : \A j \in S \ {k} : Before(c, u, k, j)
<1> DEFINE Older(k) == {j \in S : Before(c, u, j, k)}
           Sets == {Older(k) : k \in S}
<1>1. PICK T \in Sets : \A t \in Sets : t \subseteq T => t = T
  <2>1. Sets \in SUBSET SUBSET Keys /\ Sets # {} /\ IsFiniteSet(Keys)
    <3>1. \A k \in S : Older(k) \in SUBSET Keys
      OBVIOUS
    <3> HIDE DEF Older
    <3>2. QED
      BY <3>1, CacheAssumption
  <2> HIDE DEF Sets
  <2>2. QED
    BY <2>1, Smallest
<1>2. PICK k \in S : T = Older(k)
  OBVIOUS
<1>3. ASSUME NEW j \in Older(k)
      PROVE  FALSE
  <2>1. j \in S /\ Before(c, u, j, k)
    OBVIOUS
  <2>2. Older(j) \subseteq Older(k)
    BY <2>1, BeforeOrders
  <2>3. j \notin Older(j)
    BY <2>1, BeforeOrders
  <2>4. QED
    BY <1>1, <1>2, <2>1, <2>2, <2>3
<1>4. ASSUME NEW j \in S \ {k}
      PROVE  Before(c, u, k, j)
  BY <1>3, BeforeOrders
<1>5. QED
  BY <1>4

(* The rows that stay: they fit, they are all of them when all fit, and a   *)
(* table that does not fit loses its oldest row first.                      *)
LEMMA RetainedFits ==
    ASSUME NEW c \in [Keys -> Int], NEW u \in [Keys -> Int], NEW S \in SUBSET Keys
    PROVE  Fits(Retained(S, c, u))
<1>1. CASE Retained(S, c, u) = {}
  BY <1>1, NothingFits
<1>2. CASE Retained(S, c, u) # {}
  <2>1. Retained(S, c, u) \in SUBSET S
    BY DEF Retained
  <2>2. PICK k \in Retained(S, c, u) : \A j \in Retained(S, c, u) \ {k} : Before(c, u, k, j)
    BY <1>2, <2>1, Oldest
  <2> DEFINE T == {k} \cup {j \in S : Before(c, u, k, j)}
  <2>3. Fits(T) /\ T \in SUBSET Keys
    BY <2>1 DEF Retained
  <2>4. Retained(S, c, u) \in SUBSET T
    BY <2>1, <2>2
  <2> HIDE DEF T
  <2>5. QED
    BY <2>3, <2>4, FitsMonotone
<1>3. QED
  BY <1>1, <1>2

(* A table that fits stays whole.                                           *)
LEMMA RetainedWhole ==
    ASSUME NEW c, NEW u, NEW S \in SUBSET Keys, Fits(S)
    PROVE  Retained(S, c, u) = S
<1>1. ASSUME NEW k \in S
      PROVE  Fits({k} \cup {j \in S : Before(c, u, k, j)})
  <2> DEFINE T == {k} \cup {j \in S : Before(c, u, k, j)}
  <2>1. T \in SUBSET S
    OBVIOUS
  <2> HIDE DEF T
  <2>2. Fits(T)
    BY <2>1, FitsMonotone
  <2>3. QED
    BY <2>2 DEF T
<1>2. QED
  BY <1>1 DEF Retained

(* A table that does not fit loses its oldest row first.                    *)
LEMMA RetainedLoses ==
    ASSUME NEW c \in [Keys -> Int], NEW u \in [Keys -> Int], NEW S \in SUBSET Keys, ~Fits(S),
           NEW v \in S, \A j \in S \ {v} : Before(c, u, v, j)
    PROVE  Retained(S, c, u) = Retained(S \ {v}, c, u)
<1>1. {v} \cup {j \in S : Before(c, u, v, j)} = S
  BY BeforeOrders
<1>2. v \notin Retained(S, c, u)
  BY <1>1 DEF Retained
<1>3. ASSUME NEW k \in S \ {v}
      PROVE  {j \in S : Before(c, u, k, j)} = {j \in S \ {v} : Before(c, u, k, j)}
  <2>1. ~Before(c, u, k, v)
    <3>1. Before(c, u, v, k) /\ k \in Keys /\ v \in Keys
      OBVIOUS
    <3>2. QED
      BY <3>1, BeforeOrders
  <2>2. QED
    BY <2>1
<1>4. QED
  BY <1>2, <1>3 DEF Retained

-----------------------------------------------------------------------------
(* The operations of a table as functions of its rows.  Both tables of the  *)
(* pair have them.                                                          *)
FreshRows(E, U, n) == {k \in E : U[k] > n - Ttl}
Dated(P, C, B, at) == [k \in Keys |-> IF k \in B \ P THEN at[k] ELSE C[k]]
Touched(P, U, B, ts) ==
    [k \in Keys |-> IF k \notin B THEN U[k]
                    ELSE IF k \notin P \/ U[k] < ts THEN ts ELSE U[k]]
Only(S, f) == [k \in Keys |-> IF k \in S THEN f[k] ELSE 0]
PutRows(P, C, U, B, at, ts) == Retained(P \cup B, Dated(P, C, B, at), Touched(P, U, B, ts))

(* What may happen to the server's table. *)
Serve ==
    \/ \E S \in SUBSET Keys : Lookup(S)
    \/ \E S \in SUBSET Keys, ts \in Stamps :
           TouchMany(S, ts) \/ (PutMany(S, ts) /\ now' \in now..MaxTime)
    \/ Prune
    \/ now' \in now..MaxTime /\ served' = {} /\ UNCHANGED <<entries, created, used>>
    \/ Keep({}, used) /\ served' = {} /\ UNCHANGED now
    \/ UNCHANGED <<now, serverTable>>

(* What may happen to the client's. *)
ClientServe ==
    \/ \E S \in SUBSET Keys : Client!Lookup(S)
    \/ \E S \in SUBSET Keys, ts \in Stamps : Client!PutMany(S, ts)
    \/ UNCHANGED clientTable

(* put_many of the server's table, as a function of its rows and of the     *)
(* times at which the new ones are dated.                                   *)
LEMMA ServerPut ==
    ASSUME NEW S, NEW ts, PutMany(S, ts)
    PROVE  LET B == Admitted(S)
           IN  /\ \E at \in [B \ Pruned -> now..now'] :
                      /\ entries' = PutRows(Pruned, created, used, B, at, ts)
                      /\ created' = Only(entries', Dated(Pruned, created, B, at))
               /\ used' = Only(entries', Touched(Pruned, used, B, ts))
               /\ served' = {}
<1>1. Stamped(S, ts) = Touched(Pruned, used, Admitted(S), ts)
  BY DEF Stamped, Touched
<1>2. PICK at \in [Admitted(S) \ Pruned -> now..now'] :
          LET c == [k \in Keys |-> IF k \in Admitted(S) \ Pruned THEN at[k] ELSE created[k]]
              u == Stamped(S, ts)
          IN  /\ entries' = Retained(Pruned \cup Admitted(S), c, u)
              /\ created' = [k \in Keys |-> IF k \in entries' THEN c[k] ELSE 0]
              /\ used' = [k \in Keys |-> IF k \in entries' THEN u[k] ELSE 0]
              /\ served' = {}
  BY DEF PutMany
<1>3. QED
  BY <1>1, <1>2 DEF PutRows, Dated, Only

(* The operators of the client's instance are those of the server's table.  *)
LEMMA ClientSameTable ==
    /\ \A S, c, u : Client!Retained(S, c, u) = Retained(S, c, u)
    /\ \A S : Client!Admitted(S) = Admitted(S) /\ Client!Fits(S) = Fits(S)
    /\ Client!Pruned = FreshRows(cEntries, cUsed, cNow)
    /\ Pruned = FreshRows(entries, used, now)
<1>1. \A S : Client!Bytes(S) = Bytes(S)
  BY DEF Client!Bytes, Bytes, Client!SumFunctionOnSet, SumFunctionOnSet,
         Client!FoldFunctionOnSet, FoldFunctionOnSet, Client!MapThenFoldSet, MapThenFoldSet
<1>2. \A S : Client!Fits(S) = Fits(S)
  <2>1. \A S : Client!Cardinality(S) = Cardinality(S)
    BY DEF Client!Cardinality, Cardinality
  <2>2. QED
    BY <1>1, <2>1 DEF Client!Fits, Fits
<1>3. \A c, u, j, k : Client!Before(c, u, j, k) = Before(c, u, j, k)
  BY DEF Client!Before, Before
<1>4. \A S, c, u : Client!Retained(S, c, u) = Retained(S, c, u)
  BY <1>2, <1>3 DEF Client!Retained, Retained
<1>5. QED
  BY <1>2, <1>4
  DEF Client!Admitted, Admitted, Client!Pruned, Client!Fresh, Pruned, Fresh, FreshRows

(* put_many of the client's table, as the same function of its rows.        *)
LEMMA ClientPut ==
    ASSUME NEW S, NEW ts, Client!PutMany(S, ts)
    PROVE  LET P == Client!Pruned
               B == Admitted(S)
           IN  /\ \E at \in [B \ P -> cNow..cNow'] :
                      /\ cEntries' = PutRows(P, cCreated, cUsed, B, at, ts)
                      /\ cCreated' = Only(cEntries', Dated(P, cCreated, B, at))
               /\ cUsed' = Only(cEntries', Touched(P, cUsed, B, ts))
               /\ cServed' = {}
<1> DEFINE P == Client!Pruned
           B == Admitted(S)
<1>1. Client!Stamped(S, ts) = Touched(P, cUsed, B, ts)
  BY ClientSameTable DEF Client!Stamped, Touched
<1>2. PICK at \in [Client!Admitted(S) \ P -> cNow..cNow'] :
          LET c == Dated(P, cCreated, Client!Admitted(S), at)
              u == Client!Stamped(S, ts)
          IN  /\ cEntries' = Client!Retained(P \cup Client!Admitted(S), c, u)
              /\ cCreated' = Only(cEntries', c)
              /\ cUsed' = Only(cEntries', u)
              /\ cServed' = {}
  BY DEF Client!PutMany, Dated, Only
<1>3. Client!Admitted(S) = B
  BY ClientSameTable
<1> HIDE DEF B, P
<1>4. /\ at \in [B \ P -> cNow..cNow']
      /\ cEntries' = Client!Retained(P \cup B, Dated(P, cCreated, B, at), Touched(P, cUsed, B, ts))
      /\ cCreated' = Only(cEntries', Dated(P, cCreated, B, at))
      /\ cUsed' = Only(cEntries', Touched(P, cUsed, B, ts)) /\ cServed' = {}
  BY <1>1, <1>2, <1>3
<1>5. cEntries' = PutRows(P, cCreated, cUsed, B, at, ts)
  BY <1>4, ClientSameTable DEF PutRows
<1>6. QED
  BY <1>4, <1>5 DEF B, P

(* put_many leaves no row that it neither found nor put.                    *)
LEMMA PutRowsFrom ==
    ASSUME NEW P, NEW C, NEW U, NEW B, NEW at, NEW ts
    PROVE  PutRows(P, C, U, B, at, ts) \subseteq P \cup B
  BY DEF PutRows, Retained

(* What put_many leaves, and the time stamps of it.                         *)
LEMMA ServerPutStamps ==
    ASSUME NEW S, NEW ts, PutMany(S, ts)
    PROVE  /\ entries' \subseteq Pruned \cup Admitted(S)
           /\ used' = Only(entries', Touched(Pruned, used, Admitted(S), ts))
<1>1. PICK at : entries' = PutRows(Pruned, created, used, Admitted(S), at, ts)
  BY ServerPut
<1>2. entries' \subseteq Pruned \cup Admitted(S)
  BY <1>1, PutRowsFrom
<1>3. used' = Only(entries', Touched(Pruned, used, Admitted(S), ts))
  BY ServerPut
<1>4. QED
  BY <1>2, <1>3

(* The same of the client's table.                                          *)
LEMMA ClientPutStamps ==
    ASSUME NEW S, NEW ts, Client!PutMany(S, ts)
    PROVE  /\ cEntries' \subseteq Client!Pruned \cup Admitted(S)
           /\ cUsed' = Only(cEntries', Touched(Client!Pruned, cUsed, Admitted(S), ts))
<1>1. PICK at : cEntries' = PutRows(Client!Pruned, cCreated, cUsed, Admitted(S), at, ts)
  BY ClientPut
<1>2. cEntries' \subseteq Client!Pruned \cup Admitted(S)
  BY <1>1, PutRowsFrom
<1>3. cUsed' = Only(cEntries', Touched(Client!Pruned, cUsed, Admitted(S), ts))
  BY ClientPut
<1>4. QED
  BY <1>2, <1>3

(* contains_many of the client's table, as a function of its rows.          *)
LEMMA ClientLooks ==
    ASSUME NEW S, Client!Lookup(S)
    PROVE  /\ cEntries' = Client!Pruned
           /\ cCreated' = Only(Client!Pruned, cCreated)
           /\ cUsed' = Only(Client!Pruned, cUsed)
           /\ cServed' = S \cap Client!Pruned /\ cNow' = cNow
  BY DEF Client!Lookup, Client!Keep, Only

(* Times and time stamps are integers.                                      *)
LEMMA StampInts == Times \subseteq Int /\ Stamps \subseteq Int
  BY CacheAssumption DEF Times, Stamps

(* Every reading of either clock is a time stamp.                           *)
LEMMA StampFacts ==
    /\ Times \subseteq Int /\ Stamps \subseteq Int /\ Times \subseteq Stamps
    /\ 0 \in Times /\ 0 \in Stamps
    /\ \A t \in Times : \A d \in -Skew..Skew : t + d \in Stamps
    /\ \A m, n \in Times : m..n \subseteq Times
    /\ \A m, n \in Stamps : m..n \subseteq Stamps
    /\ \A n \in Times : n..MaxTime \subseteq Times /\ \A m \in n..MaxTime : n <= m
  BY CacheAssumption DEF Times, Stamps

(* Clearing the columns of the rows that are gone keeps their type.         *)
LEMMA RowTypes ==
    ASSUME NEW T, 0 \in T, NEW f \in [Keys -> T], NEW S
    PROVE  Only(S, f) \in [Keys -> T]
  BY DEF Only

(* What put_many computes has the types of the columns.                     *)
LEMMA PutTypes ==
    ASSUME NEW T, NEW P \in SUBSET Keys, NEW C \in [Keys -> T], NEW U \in [Keys -> Stamps],
           NEW S \in SUBSET Keys, NEW at \in [Admitted(S) \ P -> T], NEW ts \in Stamps
    PROVE  /\ Admitted(S) \in SUBSET Keys
           /\ Dated(P, C, Admitted(S), at) \in [Keys -> T]
           /\ Touched(P, U, Admitted(S), ts) \in [Keys -> Stamps]
           /\ PutRows(P, C, U, Admitted(S), at, ts) \in SUBSET Keys
  BY DEF Admitted, Dated, Touched, PutRows, Retained

(* Every operation of the table keeps its types. *)
LEMMA ServeTypes ==
    ASSUME TypeOK, Serve
    PROVE  TypeOK'
<1>1. /\ Pruned \in SUBSET Keys /\ created \in [Keys -> Times] /\ used \in [Keys -> Stamps]
      /\ now \in Times /\ 0 \in Times /\ 0 \in Stamps
  BY StampFacts DEF TypeOK, Pruned
<1>2. ASSUME NEW S \in SUBSET Keys, NEW u \in [Keys -> Stamps], Keep(S, u)
      PROVE  /\ entries' \in SUBSET Keys
             /\ created' \in [Keys -> Times] /\ used' \in [Keys -> Stamps]
  BY <1>1, <1>2 DEF Keep
<1>3. ASSUME NEW S \in SUBSET Keys, Lookup(S)
      PROVE  TypeOK'
  BY <1>1, <1>2, <1>3 DEF Lookup, TypeOK
<1>4. ASSUME NEW S \in SUBSET Keys, NEW ts \in Stamps, TouchMany(S, ts)
      PROVE  TypeOK'
  <2> DEFINE u == [k \in Keys |-> IF k \in S /\ used[k] < ts THEN ts ELSE used[k]]
  <2>1. u \in [Keys -> Stamps]
    BY <1>1
  <2>2. Keep(Pruned, u) /\ served' = {} /\ now' = now
    BY <1>4 DEF TouchMany
  <2> HIDE DEF u
  <2>3. QED
    BY <1>1, <1>2, <2>1, <2>2 DEF TypeOK
<1>5. ASSUME NEW S \in SUBSET Keys, NEW ts \in Stamps, PutMany(S, ts), now' \in now..MaxTime
      PROVE  TypeOK'
  <2>1. /\ now' \in Times /\ now..now' \subseteq Times
    BY <1>1, <1>5, StampFacts
  <2> DEFINE B == Admitted(S)
  <2>2. PICK at \in [B \ Pruned -> now..now'] :
            /\ entries' = PutRows(Pruned, created, used, B, at, ts)
            /\ created' = Only(entries', Dated(Pruned, created, B, at))
    BY <1>5, ServerPut
  <2>3. at \in [B \ Pruned -> Times]
    BY <2>1, <2>2
  <2> DEFINE E == PutRows(Pruned, created, used, B, at, ts)
             c == Dated(Pruned, created, B, at)
             u == Touched(Pruned, used, B, ts)
  <2>4. E \in SUBSET Keys /\ c \in [Keys -> Times] /\ u \in [Keys -> Stamps]
    BY <1>1, <2>3, PutTypes
  <2>5. /\ entries' = E /\ created' = Only(E, c) /\ used' = Only(E, u)
        /\ served' = {} /\ now' \in Times
    BY <1>5, <2>1, <2>2, ServerPut
  <2> HIDE DEF E, c, u
  <2>6. QED
    BY <1>1, <2>4, <2>5, RowTypes DEF TypeOK
<1>6. CASE Prune
  <2>1. Retained(Pruned, created, used) \in SUBSET Keys
    BY <1>1 DEF Retained
  <2>2. QED
    BY <1>1, <1>2, <1>6, <2>1 DEF Prune, TypeOK
<1>7. CASE now' \in now..MaxTime /\ served' = {} /\ UNCHANGED <<entries, created, used>>
  <2>1. now' \in Times
    BY <1>1, <1>7, StampFacts
  <2>2. QED
    BY <1>7, <2>1 DEF TypeOK
<1>8. CASE Keep({}, used) /\ served' = {} /\ UNCHANGED now
  BY <1>1, <1>2, <1>8 DEF TypeOK
<1>9. CASE UNCHANGED <<now, serverTable>>
  BY <1>9 DEF serverTable, TypeOK
<1>10. QED
  BY <1>3, <1>4, <1>5, <1>6, <1>7, <1>8, <1>9 DEF Serve

ClientTableOK ==
    /\ cEntries \subseteq Keys
    /\ cCreated \in [Keys -> Stamps]
    /\ cUsed \in [Keys -> Stamps]
    /\ cServed \subseteq Keys

(* Every operation of the client's table keeps its types.                   *)
LEMMA ClientServeTypes ==
    ASSUME ClientTableOK, cNow \in Stamps, cNow' \in Stamps, ClientServe
    PROVE  ClientTableOK'
<1>1. Client!Pruned \in SUBSET Keys /\ 0 \in Stamps
  BY StampFacts DEF ClientTableOK, Client!Pruned
<1>2. ASSUME NEW S \in SUBSET Keys, Client!Lookup(S)
      PROVE  ClientTableOK'
  <2>1. /\ cEntries' \in SUBSET Keys /\ cServed' \in SUBSET Keys
        /\ cCreated' = Only(Client!Pruned, cCreated) /\ cUsed' = Only(Client!Pruned, cUsed)
    BY <1>1, <1>2, ClientLooks
  <2>2. cCreated' \in [Keys -> Stamps] /\ cUsed' \in [Keys -> Stamps]
    BY <1>1, <2>1, RowTypes DEF ClientTableOK
  <2>3. QED
    BY <2>1, <2>2 DEF ClientTableOK
<1>3. ASSUME NEW S \in SUBSET Keys, NEW ts \in Stamps, Client!PutMany(S, ts)
      PROVE  ClientTableOK'
  <2> DEFINE P == Client!Pruned
             B == Admitted(S)
  <2>1. PICK at \in [B \ P -> cNow..cNow'] :
            /\ cEntries' = PutRows(P, cCreated, cUsed, B, at, ts)
            /\ cCreated' = Only(cEntries', Dated(P, cCreated, B, at))
    BY <1>3, ClientPut
  <2>2. at \in [B \ P -> Stamps]
    <3>1. cNow..cNow' \subseteq Stamps
      BY StampFacts
    <3>2. QED
      BY <2>1, <3>1
  <2> DEFINE E == PutRows(P, cCreated, cUsed, B, at, ts)
             c == Dated(P, cCreated, B, at)
             u == Touched(P, cUsed, B, ts)
  <2>3. E \in SUBSET Keys /\ c \in [Keys -> Stamps] /\ u \in [Keys -> Stamps]
    <3>1. P \in SUBSET Keys /\ cCreated \in [Keys -> Stamps] /\ cUsed \in [Keys -> Stamps]
      BY <1>1 DEF ClientTableOK
    <3>2. B \in SUBSET Keys
      BY <1>3 DEF Admitted
    <3>3. c \in [Keys -> Stamps]
      BY <2>2, <3>1 DEF Dated
    <3>4. u \in [Keys -> Stamps]
      BY <1>3, <3>1 DEF Touched
    <3>5. E \in SUBSET Keys
      BY <3>1, <3>2 DEF PutRows, Retained
    <3>6. QED
      BY <3>3, <3>4, <3>5
  <2>4. /\ cEntries' = E /\ cCreated' = Only(E, c) /\ cUsed' = Only(E, u) /\ cServed' = {}
    BY <1>3, <2>1, ClientPut
  <2> HIDE DEF E, c, u
  <2>5. QED
    BY <1>1, <2>3, <2>4, RowTypes DEF ClientTableOK
<1>4. CASE UNCHANGED clientTable
  BY <1>4 DEF clientTable, ClientTableOK
<1>5. QED
  BY <1>2, <1>3, <1>4 DEF ClientServe

-----------------------------------------------------------------------------
(* What each operation of the table keeps. *)
LEMMA ServeLimits ==
    ASSUME TypeOK, WithinLimits, Serve
    PROVE  WithinLimits'
<1>1. /\ Pruned \in SUBSET entries /\ entries \in SUBSET Keys
      /\ created \in [Keys -> Int] /\ used \in [Keys -> Int]
  BY StampFacts DEF TypeOK, Pruned
<1>2. ASSUME NEW S \in SUBSET entries, entries' = S
      PROVE  WithinLimits'
  <2>1. Fits(S)
    BY <1>1, FitsMonotone DEF WithinLimits
  <2>2. QED
    BY <1>2, <2>1 DEF WithinLimits, Fits
<1>3. ASSUME NEW S \in SUBSET Keys, NEW ts \in Stamps, PutMany(S, ts), now' \in now..MaxTime
      PROVE  WithinLimits'
  <2> DEFINE B == Admitted(S)
  <2>6. PICK at \in [B \ Pruned -> now..now'] :
            entries' = PutRows(Pruned, created, used, B, at, ts)
    BY <1>3, ServerPut
  <2>7. at \in [B \ Pruned -> Times]
    <3>1. now..now' \subseteq Times
      BY <1>3, StampFacts DEF TypeOK
    <3>2. QED
      BY <2>6, <3>1
  <2> DEFINE c == Dated(Pruned, created, B, at)
             u == Touched(Pruned, used, B, ts)
  <2>1. c \in [Keys -> Times] /\ u \in [Keys -> Stamps] /\ B \in SUBSET Keys
    <3>1. /\ Pruned \in SUBSET Keys /\ created \in [Keys -> Times] /\ used \in [Keys -> Stamps]
          /\ now \in Times
      BY <1>1 DEF TypeOK
    <3>2. B \in SUBSET Keys
      BY <1>3 DEF Admitted
    <3>3. c \in [Keys -> Times]
      BY <2>7, <3>1 DEF Dated
    <3>4. u \in [Keys -> Stamps]
      BY <1>3, <3>1 DEF Touched
    <3>5. QED
      BY <3>2, <3>3, <3>4
  <2>2. /\ c \in [Keys -> Int] /\ u \in [Keys -> Int] /\ Pruned \cup B \in SUBSET Keys
    BY <1>1, <2>1, StampFacts
  <2>3. entries' = Retained(Pruned \cup B, c, u)
    BY <2>6 DEF PutRows
  <2> HIDE DEF c, u
  <2>4. Fits(Retained(Pruned \cup B, c, u))
    BY <2>1, <2>2, RetainedFits
  <2>5. QED
    BY <2>3, <2>4 DEF WithinLimits, Fits
<1>4. QED
  BY <1>1, <1>2, <1>3 DEF Serve, Lookup, TouchMany, Prune, Keep, Retained, serverTable

(* What get and contains_many find is in the table, and fresh.              *)
LEMMA ServeServes ==
    ASSUME TypeOK, ServedFresh, Serve
    PROVE  ServedFresh'
<1>1. ASSUME NEW S \in SUBSET Keys, Lookup(S)
      PROVE  ServedFresh'
  <2>1. /\ served' = S \cap Pruned /\ entries' = Pruned /\ now' = now
        /\ \A k \in Keys : k \in Pruned => used'[k] = used[k]
    BY <1>1 DEF Lookup, Keep
  <2>2. QED
    BY <2>1 DEF ServedFresh, Pruned, Fresh, TypeOK
<1>2. CASE UNCHANGED <<now, serverTable>>
  BY <1>2 DEF ServedFresh, Fresh, serverTable
<1>3. CASE served' = {}
  BY <1>3 DEF ServedFresh
<1>4. QED
  BY <1>1, <1>2, <1>3 DEF Serve, TouchMany, PutMany, Prune

(* A row that stays is not aged.                                            *)
LEMMA ServeAges ==
    ASSUME TypeOK, Serve
    PROVE  \A k \in Pruned \cap entries' : used'[k] >= used[k]
<1> SUFFICES ASSUME NEW k \in Pruned, k \in entries'
             PROVE  used'[k] >= used[k]
  OBVIOUS
<1>1. k \in Keys /\ used[k] \in Int
  BY StampFacts DEF Pruned, TypeOK
<1>2. ASSUME NEW S \in SUBSET Keys, NEW ts \in Stamps, TouchMany(S, ts)
      PROVE  used'[k] >= used[k]
  <2>1. used'[k] = IF k \in S /\ used[k] < ts THEN ts ELSE used[k]
    BY <1>1, <1>2 DEF TouchMany, Keep
  <2>2. QED
    BY <1>1, <2>1, StampFacts
<1>3. ASSUME NEW S \in SUBSET Keys, NEW ts \in Stamps, PutMany(S, ts)
      PROVE  used'[k] >= used[k]
  <2>1. used'[k] = Touched(Pruned, used, Admitted(S), ts)[k]
    BY <1>1, <1>3, ServerPutStamps DEF Only
  <2>2. QED
    BY <1>1, <2>1, StampFacts DEF Touched
<1>4. CASE used'[k] = used[k]
  BY <1>1, <1>4
<1>5. CASE \E S \in SUBSET Keys : Keep(S, used)
  <2>1. used'[k] = used[k]
    BY <1>1, <1>5 DEF Keep
  <2>2. QED
    BY <1>1, <2>1
<1>6. QED
  <2>1. Pruned \in SUBSET Keys /\ Retained(Pruned, created, used) \in SUBSET Keys
    BY DEF TypeOK, Pruned, Retained
  <2>2. QED
    BY <1>2, <1>3, <1>4, <1>5, <2>1 DEF Serve, Lookup, Prune, serverTable

-----------------------------------------------------------------------------
(* A body on the wire: its values stay what they are, and references stand  *)
(* for values that have a key.                                              *)
Carries(w, b) ==
    /\ Sent(w) = b
    /\ \A p \in Places : w[p].ref => p \in Candidates(b)

Carried == \A r \in R : Carries(wire[r], body[r])

(* The candidates of a body are keys.                                       *)
LEMMA BodyKeys ==
    ASSUME NEW b \in Body
    PROVE  CandidateKeys(b) \in SUBSET Keys
  BY PairAssumption DEF CandidateKeys, Candidates

(* The full envelope carries the body, and no reference.                    *)
LEMMA PlainCarries ==
    ASSUME NEW b \in Body
    PROVE  Plain(b) \in Wire /\ Carries(Plain(b), b) /\ References(Plain(b)) = {}
<1>1. /\ Plain(b) \in Wire
      /\ \A p \in Places : Plain(b)[p].ref = FALSE /\ Plain(b)[p].value = b[p]
  BY DEF Plain, Wire, Slot, Body
<1>2. Sent(Plain(b)) = b
  BY <1>1 DEF Sent, Body
<1>3. References(Plain(b)) = {}
  BY <1>1 DEF References
<1>4. QED
  BY <1>1, <1>2, <1>3 DEF Carries

(* An envelope with references carries the body, and refers to known keys.  *)
LEMMA CompressCarries ==
    ASSUME NEW b \in Body, NEW known
    PROVE  /\ Compress(b, known) \in Wire /\ Carries(Compress(b, known), b)
           /\ References(Compress(b, known)) \subseteq known
<1> DEFINE w == Compress(b, known)
<1>1. /\ w \in Wire
      /\ \A p \in Places : /\ w[p].ref = (p \in Candidates(b) /\ b[p] \in known)
                           /\ w[p].value = b[p]
  BY DEF Compress, Wire, Slot, Body
<1> HIDE DEF w
<1>2. Sent(w) = b
  BY <1>1 DEF Sent, Body
<1>3. References(w) \subseteq known
  BY <1>1 DEF References
<1>4. QED
  BY <1>1, <1>2, <1>3 DEF Carries, w

(* Restoring every reference gives the full envelope.                       *)
LEMMA RestoreCarries ==
    ASSUME NEW b \in Body, NEW w \in Wire, Carries(w, b)
    PROVE  Restore(w, References(w)) = Plain(b)
<1>1. \A p \in Places : /\ w[p] \in Slot /\ w[p].value = b[p]
                        /\ w[p].ref => w[p].value \in References(w)
  BY DEF Wire, Carries, Sent, References
<1>2. ASSUME NEW p \in Places
      PROVE  Restore(w, References(w))[p] = [ref |-> FALSE, value |-> b[p]]
  <2>1. CASE w[p].value \in References(w)
    <3>1. Restore(w, References(w))[p] = [w[p] EXCEPT !.ref = FALSE]
      BY <2>1 DEF Restore
    <3>2. QED
      BY <1>1, <3>1 DEF Slot
  <2>2. CASE w[p].value \notin References(w)
    <3>1. Restore(w, References(w))[p] = w[p]
      BY <2>2 DEF Restore
    <3>2. w[p].ref = FALSE
      BY <1>1, <2>2 DEF Slot
    <3>3. QED
      BY <1>1, <3>1, <3>2 DEF Slot
  <2>3. QED
    BY <2>1, <2>2
<1>3. QED
  BY <1>2 DEF Restore, Plain

(* The references of an envelope are candidates of its body.                *)
LEMMA CarriedKeys ==
    ASSUME NEW b \in Body, NEW w, Carries(w, b)
    PROVE  /\ References(w) \subseteq CandidateKeys(b)
           /\ References(w) = {} /\ w \in Wire => w = Plain(b)
<1>1. \A p \in Places : w[p].value = b[p] /\ (w[p].ref => p \in Candidates(b))
  BY DEF Carries, Sent
<1>2. References(w) \subseteq CandidateKeys(b)
  BY <1>1 DEF References, CandidateKeys
<1>3. ASSUME References(w) = {}, w \in Wire
      PROVE  w = Plain(b)
  <2>1. ASSUME NEW p \in Places
        PROVE  w[p] = [ref |-> FALSE, value |-> b[p]]
    <3>1. w[p] \in Slot /\ w[p].ref # TRUE
      BY <1>3 DEF Wire, References
    <3>2. w[p].ref = FALSE /\ w[p].value = b[p] /\ w[p] = [ref |-> w[p].ref, value |-> w[p].value]
      BY <1>1, <3>1 DEF Slot
    <3>3. QED
      BY <3>2
  <2>2. QED
    BY <1>3, <2>1 DEF Plain, Wire
<1>4. QED
  BY <1>2, <1>3

-----------------------------------------------------------------------------
(* A step of the pair is an operation of each table, or leaves it alone. *)
LEMMA PairServes ==
    ASSUME PairTypeOK, Carried, [PairNext]_pairVars
    PROVE  Serve /\ ClientServe /\ offset' = offset
<1>1. \A r \in R : /\ CandidateKeys(body[r]) \in SUBSET Keys
                   /\ References(wire[r]) \in SUBSET Keys
                   /\ CandidateKeys(Sent(wire[r])) \in SUBSET Keys
                   /\ cacheTs[r] \in Stamps
  <2> SUFFICES ASSUME NEW r \in R
               PROVE  /\ CandidateKeys(body[r]) \in SUBSET Keys
                      /\ References(wire[r]) \in SUBSET Keys
                      /\ CandidateKeys(Sent(wire[r])) \in SUBSET Keys
                      /\ cacheTs[r] \in Stamps
    OBVIOUS
  <2>1. body[r] \in Body /\ Carries(wire[r], body[r]) /\ cacheTs[r] \in Stamps
    BY DEF PairTypeOK, Carried
  <2>2. CandidateKeys(body[r]) \in SUBSET Keys /\ Sent(wire[r]) = body[r]
    BY <2>1, BodyKeys DEF Carries
  <2>3. References(wire[r]) \subseteq CandidateKeys(body[r])
    BY <2>1, CarriedKeys
  <2>4. QED
    BY <2>1, <2>2, <2>3
<1>2. ASSUME NEW r \in R, Plan(r)
      PROVE  UNCHANGED <<now, serverTable>> /\ ClientServe /\ offset' = offset
  <2>1. PICK b \in Bodies : Client!Lookup(CandidateKeys(b))
    BY <1>2 DEF Plan
  <2>2. CandidateKeys(b) \in SUBSET Keys
    BY BodyKeys, PairAssumption
  <2>3. QED
    BY <1>2, <2>1, <2>2 DEF Plan, ClientServe
<1>3. ASSUME NEW r \in R, StorePlanned(r)
      PROVE  Serve /\ ClientServe /\ offset' = offset
  BY <1>1, <1>3 DEF StorePlanned, Serve, ClientServe
<1>4. ASSUME NEW r \in R, Lost(r) \/ TakeFull(r) \/ Replay(r) \/ DenyReplay(r)
      PROVE  UNCHANGED <<now, serverTable>> /\ UNCHANGED clientTable /\ offset' = offset
  BY <1>4 DEF Lost, TakeFull, Replay, DenyReplay
<1>5. ASSUME NEW r \in R, RestoreBody(r) \/ TouchRestored(r) \/ Forward(r)
      PROVE  Serve /\ UNCHANGED clientTable /\ offset' = offset
  BY <1>1, <1>5 DEF RestoreBody, TouchRestored, Forward, Serve
<1>6. CASE EmptyServer \/ TimePasses \/ Maintain
  <2>1. Tick => now' \in now..MaxTime
    BY StampInts, CacheAssumption DEF PairTypeOK, TypeOK, Tick, Times
  <2>2. QED
    BY <1>6, <2>1 DEF EmptyServer, TimePasses, Maintain, Serve, ClientServe, Tick
<1>7. CASE UNCHANGED pairVars
  BY <1>7 DEF pairVars, Serve, ClientServe
<1>8. QED
  BY <1>2, <1>3, <1>4, <1>5, <1>6, <1>7 DEF PairNext, Serve, ClientServe

(* What a request carries, and its types. *)
RequestTypeOK ==
    /\ pc \in [R -> Pcs]
    /\ body \in [R -> Body]
    /\ wire \in [R -> Wire]
    /\ cacheTs \in [R -> Stamps]
    /\ replays \in 0..MaxReplays
    /\ disturbed \in BOOLEAN

(* Every step keeps the types of the requests, and what they carry.         *)
LEMMA RequestSteps ==
    ASSUME PairTypeOK, Carried, [PairNext]_pairVars
    PROVE  RequestTypeOK' /\ Carried'
<1> DEFINE Types(q) == /\ pc'[q] \in Pcs /\ body'[q] \in Body /\ wire'[q] \in Wire
                       /\ cacheTs'[q] \in Stamps /\ Carries(wire'[q], body'[q])
<1>1. \A q \in R : /\ pc[q] \in Pcs /\ body[q] \in Body /\ wire[q] \in Wire
                   /\ cacheTs[q] \in Stamps /\ Carries(wire[q], body[q])
  BY DEF PairTypeOK, Carried
<1>2. /\ pc \in [R -> Pcs] /\ body \in [R -> Body] /\ wire \in [R -> Wire]
      /\ cacheTs \in [R -> Stamps] /\ replays \in 0..MaxReplays /\ disturbed \in BOOLEAN
      /\ cNow \in Stamps
  BY StampFacts DEF PairTypeOK, TypeOK, cNow
<1>3. ASSUME NEW r \in R, NEW c \in Pcs, NEW b \in Body, NEW w \in Wire, NEW t \in Stamps,
             Carries(w, b), pc' = [pc EXCEPT ![r] = c], body' = [body EXCEPT ![r] = b],
             wire' = [wire EXCEPT ![r] = w], cacheTs' = [cacheTs EXCEPT ![r] = t],
             replays' \in 0..MaxReplays, disturbed' \in BOOLEAN
      PROVE  RequestTypeOK' /\ Carried'
  <2>1. \A q \in R : Carries(wire'[q], body'[q])
    <3>1. \A q \in R : /\ wire'[q] = IF q = r THEN w ELSE wire[q]
                       /\ body'[q] = IF q = r THEN b ELSE body[q]
      BY <1>2, <1>3
    <3>2. QED
      BY <1>1, <1>3, <3>1
  <2>2. QED
    BY <1>2, <1>3, <2>1 DEF RequestTypeOK, Carried
<1> HIDE DEF Types
<1>4. ASSUME NEW r \in R, Plan(r)
      PROVE  RequestTypeOK' /\ Carried'
  <2>1. PICK b \in Bodies, known \in {cServed', {}} :
            /\ body' = [body EXCEPT ![r] = b]
            /\ wire' = [wire EXCEPT ![r] = Compress(b, known)]
    BY <1>4 DEF Plan
  <2>2. b \in Body /\ Compress(b, known) \in Wire /\ Carries(Compress(b, known), b)
    BY CompressCarries, PairAssumption
  <2>3. /\ pc' = [pc EXCEPT ![r] = "planned"] /\ cacheTs' = [cacheTs EXCEPT ![r] = cNow]
        /\ replays' = replays /\ disturbed' \in BOOLEAN
    BY <1>2, <1>4 DEF Plan, Move, Disturb
  <2>4. "planned" \in Pcs
    BY DEF Pcs
  <2>5. QED
    BY <1>2, <1>3, <2>1, <2>2, <2>3, <2>4
<1>5. ASSUME NEW r \in R, NEW c \in Pcs, pc' = [pc EXCEPT ![r] = c],
             UNCHANGED <<body, wire, cacheTs, replays>>, disturbed' \in BOOLEAN
      PROVE  RequestTypeOK' /\ Carried'
  BY <1>1, <1>2, <1>5 DEF RequestTypeOK, Carried
<1>6. ASSUME NEW r \in R, Over(r), replays' = replays, disturbed' \in BOOLEAN
      PROVE  RequestTypeOK' /\ Carried'
  <2>1. NoBody \in Body /\ Plain(NoBody) \in Wire /\ Carries(Plain(NoBody), NoBody)
    BY PlainCarries, PairAssumption
  <2>2. "done" \in Pcs /\ 0 \in Stamps /\ replays' \in 0..MaxReplays
    BY <1>2, <1>6, StampFacts DEF Pcs
  <2>3. QED
    BY <1>3, <1>6, <2>1, <2>2 DEF Over
<1>7. ASSUME NEW r \in R, TouchRestored(r)
      PROVE  RequestTypeOK' /\ Carried'
  <2>1. /\ wire' = [wire EXCEPT ![r] = Plain(body[r])]
        /\ pc' = [pc EXCEPT ![r] = "stored"]
        /\ UNCHANGED <<body, cacheTs, replays, disturbed>>
    <3>1. Restore(wire[r], References(wire[r])) = Plain(body[r])
      BY <1>1, RestoreCarries
    <3>2. QED
      BY <1>7, <3>1 DEF TouchRestored, Move
  <2>2. Plain(body[r]) \in Wire /\ Carries(Plain(body[r]), body[r]) /\ "stored" \in Pcs
    BY <1>1, PlainCarries DEF Pcs
  <2>3. body' = [body EXCEPT ![r] = body[r]] /\ cacheTs' = [cacheTs EXCEPT ![r] = cacheTs[r]]
    BY <1>2, <2>1
  <2>4. QED
    BY <1>1, <1>2, <1>3, <2>1, <2>2, <2>3
<1>8. ASSUME NEW r \in R, Replay(r)
      PROVE  RequestTypeOK' /\ Carried'
  <2>1. Plain(body[r]) \in Wire /\ Carries(Plain(body[r]), body[r]) /\ "sent" \in Pcs
    BY <1>1, PlainCarries DEF Pcs
  <2>2. body' = [body EXCEPT ![r] = body[r]] /\ cacheTs' = [cacheTs EXCEPT ![r] = cacheTs[r]]
    BY <1>2, <1>8 DEF Replay
  <2>3. replays' \in 0..MaxReplays /\ disturbed' \in BOOLEAN
    BY <1>2, <1>8, PairAssumption DEF Replay
  <2>4. wire' = [wire EXCEPT ![r] = Plain(body[r])] /\ pc' = [pc EXCEPT ![r] = "sent"]
    BY <1>8 DEF Replay, Move
  <2>5. QED
    BY <1>1, <1>3, <2>1, <2>2, <2>3, <2>4
<1>9. ASSUME NEW r \in R, StorePlanned(r) \/ RestoreBody(r) \/ TakeFull(r)
      PROVE  RequestTypeOK' /\ Carried'
  <2>1. disturbed' \in BOOLEAN /\ UNCHANGED <<body, wire, cacheTs, replays>>
    BY <1>2, <1>9 DEF StorePlanned, RestoreBody, TakeFull, Disturb
  <2>2. QED
    BY <1>5, <1>9, <2>1 DEF StorePlanned, RestoreBody, TakeFull, Move, Pcs
<1>10. ASSUME NEW r \in R, Lost(r) \/ Forward(r) \/ DenyReplay(r)
       PROVE  RequestTypeOK' /\ Carried'
  BY <1>2, <1>6, <1>10 DEF Lost, Forward, DenyReplay, Disturb
<1>11. CASE UNCHANGED requestVars /\ disturbed' \in BOOLEAN
  BY <1>1, <1>2, <1>11 DEF requestVars, RequestTypeOK, Carried
<1>12. CASE EmptyServer \/ TimePasses \/ Maintain
  BY <1>2, <1>11, <1>12 DEF EmptyServer, TimePasses, Maintain, Disturb
<1>13. CASE UNCHANGED pairVars
  BY <1>2, <1>11, <1>13 DEF pairVars
<1>14. QED
  BY <1>4, <1>7, <1>8, <1>9, <1>10, <1>12, <1>13 DEF PairNext

(* The type invariant of the pair, its parts kept by each step. *)
LEMMA PairTypes ==
    ASSUME PairTypeOK, Carried, [PairNext]_pairVars
    PROVE  PairTypeOK'
<1>1. Serve /\ ClientServe /\ offset' = offset
  BY PairServes
<1>2. TypeOK'
  BY <1>1, ServeTypes DEF PairTypeOK
<1>3. ClientTableOK'
  <2>1. ClientTableOK /\ cNow \in Stamps /\ cNow' \in Stamps
    BY <1>1, <1>2, StampFacts DEF PairTypeOK, ClientTableOK, TypeOK, cNow
  <2>2. QED
    BY <1>1, <2>1, ClientServeTypes
<1>4. RequestTypeOK'
  BY RequestSteps
<1>5. QED
  BY <1>1, <1>2, <1>3, <1>4 DEF PairTypeOK, ClientTableOK, RequestTypeOK

(* What is about to be forwarded. *)
LEMMA OriginalSteps ==
    ASSUME PairTypeOK, Carried, ForwardedOriginal, [PairNext]_pairVars
    PROVE  ForwardedOriginal'
<1> DEFINE Original(q) == pc'[q] = "stored" => wire'[q] = Plain(body'[q])
<1>1. SUFFICES \A q \in R : Original(q)
  BY DEF ForwardedOriginal, Plain
<1>2. /\ pc \in [R -> Pcs] /\ body \in [R -> Body] /\ wire \in [R -> Wire]
      /\ \A q \in R : /\ Carries(wire[q], body[q]) /\ body[q] \in Body /\ wire[q] \in Wire
                      /\ pc[q] = "stored" => wire[q] = Plain(body[q])
  BY DEF PairTypeOK, Carried, ForwardedOriginal
<1>3. ASSUME NEW r \in R, TouchRestored(r), NEW q \in R
      PROVE  Original(q)
  <2>1. Restore(wire[r], References(wire[r])) = Plain(body[r])
    BY <1>2, RestoreCarries
  <2>2. QED
    BY <1>2, <1>3, <2>1 DEF TouchRestored, Move
<1>4. ASSUME NEW r \in R, TakeFull(r), NEW q \in R
      PROVE  Original(q)
  <2>1. wire[r] = Plain(body[r])
    BY <1>2, <1>4, CarriedKeys DEF TakeFull
  <2>2. QED
    BY <1>2, <1>4, <2>1 DEF TakeFull, Move
<1>5. ASSUME NEW r \in R, NEW q \in R,
             \/ Plan(r) \/ StorePlanned(r) \/ RestoreBody(r) \/ Replay(r)
             \/ Lost(r) \/ Forward(r) \/ DenyReplay(r)
      PROVE  Original(q)
  <2>1. pc'[r] # "stored"
    BY <1>2, <1>5
    DEF Plan, StorePlanned, RestoreBody, Replay, Lost, Forward, DenyReplay, Over, Move
  <2>2. q # r => pc'[q] = pc[q] /\ wire'[q] = wire[q] /\ body'[q] = body[q]
    BY <1>2, <1>5
    DEF Plan, StorePlanned, RestoreBody, Replay, Lost, Forward, DenyReplay, Over, Move
  <2>3. QED
    BY <1>2, <2>1, <2>2
<1>6. CASE UNCHANGED requestVars
  BY <1>2, <1>6 DEF requestVars
<1>7. QED
  BY <1>3, <1>4, <1>5, <1>6
  DEF PairNext, EmptyServer, TimePasses, Maintain, pairVars

-----------------------------------------------------------------------------
(* The time stamps.  A request that the client has stored keeps its mark in *)
(* the client's table, and the one being stored is the youngest of all.     *)
OnTheWay == {"sent", "restored", "stored", "missed"}

Behind ==
    /\ \A k \in entries : used[k] <= cNow
    /\ \A k \in cEntries : SizeOf[k] <= MaxBytes
    /\ \A q \in R : UnderWay(q) => cacheTs[q] <= cNow
    /\ \A r \in R : pc[r] = "planned" =>
           /\ \A k \in entries : used[k] <= cacheTs[r]
           /\ \A q \in R : UnderWay(q) => cacheTs[q] <= cacheTs[r]
    /\ \A r \in R : pc[r] \in OnTheWay =>
           \A k \in CandidateKeys(body[r]) \cap cEntries : cacheTs[r] <= cUsed[k]
    /\ StampsBehind

(* A row of the server keeps its stamp, or gets that of a request. *)
LEMMA ServerRowsStay ==
    ASSUME TypeOK,
           \/ \E S : Lookup(S)
           \/ Prune
           \/ Keep({}, used)
           \/ UNCHANGED <<entries, used>>
    PROVE  \A k \in entries' : k \in entries /\ used'[k] = used[k]
<1>1. ASSUME NEW S \in SUBSET Keys, S \subseteq entries, Keep(S, used)
      PROVE  \A k \in entries' : k \in entries /\ used'[k] = used[k]
  BY <1>1 DEF Keep
<1>2. /\ Pruned \in SUBSET Keys /\ {} \in SUBSET Keys
      /\ Retained(Pruned, created, used) \in SUBSET Keys
      /\ Retained(Pruned, created, used) \subseteq entries /\ Pruned \subseteq entries
  BY DEF TypeOK, Pruned, Retained
<1>3. QED
  BY <1>1, <1>2 DEF Lookup, Prune

(* What the server touches or puts gets the stamp of the request.           *)
LEMMA ServerUses ==
    ASSUME TypeOK, NEW S \in SUBSET Keys, NEW ts \in Stamps, TouchMany(S, ts) \/ PutMany(S, ts)
    PROVE  \A k \in entries' : \/ k \in entries /\ used'[k] = used[k]
                               \/ k \in S /\ used'[k] = ts
<1>1. CASE TouchMany(S, ts)
  BY <1>1 DEF TouchMany, Keep, Pruned, TypeOK
<1>2. ASSUME PutMany(S, ts), NEW k \in entries'
      PROVE  \/ k \in entries /\ used'[k] = used[k]
             \/ k \in S /\ used'[k] = ts
  <2>1. k \in Pruned \cup Admitted(S)
    BY <1>2, ServerPutStamps
  <2>2. k \in Keys
    BY <2>1 DEF Pruned, Admitted, TypeOK
  <2>3. used'[k] = Touched(Pruned, used, Admitted(S), ts)[k]
    BY <1>2, <2>2, ServerPutStamps DEF Only
  <2>4. QED
    BY <2>1, <2>2, <2>3 DEF Touched, Admitted, Pruned
<1>3. QED
  BY <1>1, <1>2

(* A row that the client puts, or keeps, never gets an older stamp. *)
LEMMA ClientStamps ==
    ASSUME ClientTableOK, NEW S \in SUBSET Keys, NEW ts \in Stamps, Client!PutMany(S, ts),
           NEW k \in cEntries'
    PROVE  /\ k \in S => cUsed'[k] >= ts \/ SizeOf[k] > MaxBytes
           /\ \/ k \in cEntries /\ cUsed'[k] >= cUsed[k]
              \/ k \in S /\ SizeOf[k] <= MaxBytes /\ cUsed'[k] = ts
<1>1. k \in Client!Pruned \cup Admitted(S) /\ k \in Keys /\ Client!Pruned \subseteq cEntries
  <2>1. k \in Client!Pruned \cup Admitted(S)
    BY ClientPutStamps
  <2>2. QED
    BY <2>1 DEF Client!Pruned, Admitted, ClientTableOK
<1>2. cUsed'[k] = Touched(Client!Pruned, cUsed, Admitted(S), ts)[k]
  BY <1>1, ClientPutStamps DEF Only
<1>3. cUsed[k] \in Int /\ ts \in Int /\ SizeOf[k] \in Int /\ MaxBytes \in Int
  <2>1. cUsed[k] \in Stamps /\ SizeOf[k] \in Nat
    BY <1>1, CacheAssumption DEF ClientTableOK
  <2>2. MaxBytes \in Nat
    BY CacheAssumption
  <2>3. SizeOf[k] \in Int /\ MaxBytes \in Int
    BY <2>1, <2>2
  <2>4. cUsed[k] \in Int /\ ts \in Int
    BY <2>1, StampInts
  <2>5. QED
    BY <2>3, <2>4
<1>4. QED
  BY <1>1, <1>2, <1>3 DEF Touched, Admitted

(* A row of the client that is only looked up keeps its stamp.              *)
LEMMA ClientRowsStay ==
    ASSUME ClientTableOK, \/ UNCHANGED clientTable \/ \E S : Client!Lookup(S)
    PROVE  \A k \in cEntries' : k \in cEntries /\ cUsed'[k] = cUsed[k]
<1>1. CASE UNCHANGED clientTable
  BY <1>1 DEF clientTable
<1>2. ASSUME NEW S, Client!Lookup(S)
      PROVE  \A k \in cEntries' : k \in cEntries /\ cUsed'[k] = cUsed[k]
  <2>1. cEntries' = Client!Pruned /\ cUsed' = Only(Client!Pruned, cUsed)
    BY <1>2, ClientLooks
  <2>2. QED
    BY <2>1 DEF Client!Pruned, ClientTableOK, Only
<1>3. QED
  BY <1>1, <1>2

(* Steps that begin nothing: the server may use the stamp of a request that *)
(* it has restored; requests go on, or end.                                 *)
LEMMA LaterBehind ==
    ASSUME PairTypeOK, Behind, cNow <= cNow', cNow' \in Int,
           \A k \in cEntries' : k \in cEntries /\ cUsed'[k] = cUsed[k],
           \A k \in entries' : \/ k \in entries /\ used'[k] = used[k]
                               \/ \E r \in R : /\ pc[r] \in {"restored", "stored"}
                                               /\ k \in CandidateKeys(body[r])
                                               /\ used'[k] = cacheTs[r],
           \A q \in R : UnderWay(q)' =>
               /\ UnderWay(q) /\ cacheTs'[q] = cacheTs[q] /\ body'[q] = body[q]
               /\ pc'[q] = "planned" => pc[q] = "planned"
               /\ pc'[q] \in OnTheWay => pc[q] \in OnTheWay
    PROVE  Behind'
<1>1. /\ cNow \in Int /\ \A k \in Keys : used[k] \in Int /\ cUsed[k] \in Int
      /\ \A r \in R : cacheTs[r] \in Int
      /\ entries \subseteq Keys /\ cEntries \subseteq Keys
  BY StampFacts DEF PairTypeOK, TypeOK, cNow
<1>2. \A r \in R : pc[r] \in {"restored", "stored"} => UnderWay(r) /\ pc[r] \in OnTheWay
  BY DEF UnderWay, OnTheWay
<1>3. \A k \in entries' : used'[k] \in Int /\ used'[k] <= cNow'
  BY <1>1, <1>2 DEF Behind
<1>4. \A k \in cEntries' : SizeOf[k] <= MaxBytes
  BY DEF Behind
<1>5. \A q \in R : UnderWay(q)' => cacheTs'[q] <= cNow'
  BY <1>1 DEF Behind
<1>6. ASSUME NEW r \in R, pc'[r] = "planned"
      PROVE  /\ \A k \in entries' : used'[k] <= cacheTs'[r]
             /\ \A q \in R : UnderWay(q)' => cacheTs'[q] <= cacheTs'[r]
  <2>1. pc[r] = "planned" /\ cacheTs'[r] = cacheTs[r]
    BY <1>6 DEF UnderWay
  <2>2. QED
    BY <1>1, <1>2, <2>1 DEF Behind
<1>7. ASSUME NEW r \in R, pc'[r] \in OnTheWay,
             NEW k \in CandidateKeys(body'[r]) \cap cEntries'
      PROVE  cacheTs'[r] <= cUsed'[k]
  <2>1. UnderWay(r)'
    BY <1>7 DEF UnderWay, OnTheWay
  <2>2. QED
    BY <1>7, <2>1 DEF Behind
<1>8. ASSUME NEW k \in entries', k \in cEntries'
      PROVE  used'[k] <= cUsed'[k]
  BY <1>1, <1>2, <1>8 DEF Behind, StampsBehind
<1>9. QED
  BY <1>3, <1>4, <1>5, <1>6, <1>7, <1>8 DEF Behind, StampsBehind, CandidateKeys, Candidates

(* The client's clock runs when the server's does.                          *)
LEMMA ClockRuns ==
    ASSUME now \in Int, offset \in Int, now' \in now..MaxTime, offset' = offset
    PROVE  cNow <= cNow' /\ cNow' \in Int
<1>1. now' \in Int /\ now <= now'
  <2>1. MaxTime \in Int
    BY CacheAssumption
  <2>2. \A m, n \in Int : \A i \in m..n : i \in Int /\ m <= i
    OBVIOUS
  <2>3. QED
    BY <2>1, <2>2
<1>2. \A m, n, d \in Int : m <= n => m + d <= n + d /\ n + d \in Int
  OBVIOUS
<1>3. now + offset <= now' + offset /\ now' + offset \in Int
  BY <1>1, <1>2
<1>4. QED
  BY <1>3 DEF cNow

(* The client stores what it has planned. *)
LEMMA StoreBehind ==
    ASSUME PairTypeOK, PairTypeOK', Behind, NEW r \in R, StorePlanned(r)
    PROVE  Behind'
<1>1. /\ cNow \in Int /\ cNow' \in Int /\ \A k \in Keys : used[k] \in Int /\ cUsed[k] \in Int
      /\ \A q \in R : cacheTs[q] \in Int
      /\ entries \subseteq Keys /\ cEntries \subseteq Keys
  BY StampFacts DEF PairTypeOK, TypeOK, cNow
<1>2. /\ pc[r] = "planned" /\ UnderWay(r) /\ pc' = [pc EXCEPT ![r] = "sent"]
      /\ entries' = entries /\ used' = used
      /\ body' = body /\ cacheTs' = cacheTs
  BY DEF StorePlanned, Move, UnderWay
<1>11. cNow <= cNow'
  <2>1. now' \in now..MaxTime /\ offset' = offset /\ now \in Int /\ offset \in Int
    BY StampFacts, CacheAssumption DEF StorePlanned, PairTypeOK, TypeOK
  <2>2. QED
    BY <2>1, ClockRuns
<1>12. /\ \A k \in entries' : used'[k] <= cNow'
       /\ \A q \in R : UnderWay(q) => cacheTs'[q] <= cNow'
  <2>1. /\ \A k \in entries : used[k] <= cNow
        /\ \A q \in R : UnderWay(q) => cacheTs[q] <= cNow
    BY DEF Behind
  <2>2. QED
    BY <1>1, <1>2, <1>11, <2>1
<1>3. /\ ClientTableOK /\ CandidateKeys(body[r]) \in SUBSET Keys /\ cacheTs[r] \in Stamps
      /\ Client!PutMany(CandidateKeys(body[r]), cacheTs[r])
  <2>1. body[r] \in Body
    BY DEF PairTypeOK
  <2>2. QED
    BY <2>1, BodyKeys DEF StorePlanned, PairTypeOK, ClientTableOK
<1> DEFINE S == CandidateKeys(body[r])
           ts == cacheTs[r]
<1>4. \A k \in cEntries' :
          /\ k \in S => cUsed'[k] >= ts \/ SizeOf[k] > MaxBytes
          /\ \/ k \in cEntries /\ cUsed'[k] >= cUsed[k]
             \/ k \in S /\ SizeOf[k] <= MaxBytes /\ cUsed'[k] = ts
  <2> HIDE DEF S, ts
  <2>1. S \in SUBSET Keys /\ ts \in Stamps /\ Client!PutMany(S, ts)
    BY <1>3 DEF S, ts
  <2>2. QED
    BY <1>3, <2>1, ClientStamps
<1>5. /\ \A k \in entries : used[k] <= ts
      /\ \A q \in R : UnderWay(q) => cacheTs[q] <= ts
  BY <1>2 DEF Behind
<1>6. \A k \in cEntries' : /\ SizeOf[k] <= MaxBytes /\ k \in Keys /\ cUsed'[k] \in Int
                           /\ SizeOf[k] \in Int
  <2>1. cEntries' \subseteq Keys /\ cUsed' \in [Keys -> Stamps]
    BY DEF PairTypeOK
  <2>2. \A k \in cEntries' : SizeOf[k] <= MaxBytes
    BY <1>4 DEF Behind
  <2>3. \A k \in cEntries' : k \in Keys /\ cUsed'[k] \in Stamps /\ SizeOf[k] \in Nat
    BY <2>1, CacheAssumption
  <2>4. \A k \in cEntries' : SizeOf[k] \in Int
    BY <2>3
  <2>5. \A k \in cEntries' : cUsed'[k] \in Int
    BY <2>3, StampInts
  <2>6. QED
    BY <2>2, <2>3, <2>4, <2>5
<1>7. ASSUME NEW q \in R, pc'[q] \in OnTheWay,
             NEW k \in CandidateKeys(body[q]) \cap cEntries'
      PROVE  cacheTs[q] <= cUsed'[k]
  <2>1. CASE q = r
    BY <1>1, <1>4, <1>6, <1>7, <2>1, CacheAssumption
  <2>2. CASE q # r
    <3>1. pc[q] \in OnTheWay /\ UnderWay(q)
      BY <1>2, <1>7, <2>2 DEF PairTypeOK, OnTheWay, UnderWay
    <3>2. cacheTs[q] <= ts
      BY <1>5, <3>1
    <3>3. CASE k \in cEntries /\ cUsed'[k] >= cUsed[k]
      <4>1. cacheTs[q] <= cUsed[k]
        BY <1>7, <3>1, <3>3 DEF Behind
      <4>2. QED
        BY <1>1, <1>6, <1>7, <3>3, <4>1
    <3>4. QED
      BY <1>1, <1>4, <1>6, <1>7, <3>2, <3>3
  <2>3. QED
    BY <2>1, <2>2
<1>8. ASSUME NEW k \in entries, k \in cEntries'
      PROVE  used[k] <= cUsed'[k]
  <2>1. CASE k \in cEntries /\ cUsed'[k] >= cUsed[k]
    <3>1. used[k] <= cUsed[k]
      BY <2>1 DEF Behind, StampsBehind
    <3>2. QED
      BY <1>1, <1>6, <1>8, <2>1, <3>1
  <2>2. QED
    BY <1>1, <1>4, <1>5, <1>6, <1>8, <2>1
<1>9. \A q \in R : (UnderWay(q)' => UnderWay(q)) /\ (pc'[q] = "planned" => pc[q] = "planned")
  BY <1>2 DEF PairTypeOK, UnderWay
<1>10. QED
  BY <1>2, <1>6, <1>7, <1>8, <1>9, <1>12 DEF Behind, StampsBehind

(* The client plans the next request. *)
LEMMA PlanBehind ==
    ASSUME PairTypeOK, Behind, NEW r \in R, Plan(r)
    PROVE  Behind'
<1>1. /\ cNow \in Int /\ \A k \in Keys : used[k] \in Int /\ cUsed[k] \in Int
      /\ \A q \in R : cacheTs[q] \in Int
      /\ entries \subseteq Keys /\ cEntries \subseteq Keys
  BY StampFacts DEF PairTypeOK, TypeOK, cNow
<1>2. /\ pc[r] = "idle" /\ ClientFree /\ pc' = [pc EXCEPT ![r] = "planned"]
      /\ cacheTs' = [cacheTs EXCEPT ![r] = cNow]
      /\ cNow' = cNow /\ entries' = entries /\ used' = used
      /\ \A q \in R \ {r} : body'[q] = body[q]
      /\ \E b : Client!Lookup(CandidateKeys(b))
  BY DEF Plan, Move, serverTable, cNow, PairTypeOK
<1>3. \A k \in cEntries' : k \in cEntries /\ cUsed'[k] = cUsed[k]
  <2>1. ClientTableOK
    BY DEF PairTypeOK, ClientTableOK
  <2>2. QED
    BY <1>2, <2>1, ClientRowsStay
<1>4. \A q \in R : q # r => /\ pc'[q] = pc[q] /\ cacheTs'[q] = cacheTs[q] /\ body'[q] = body[q]
                            /\ pc[q] # "planned"
  BY <1>2 DEF PairTypeOK, ClientFree
<1>5. pc'[r] = "planned" /\ cacheTs'[r] = cNow
  BY <1>2 DEF PairTypeOK
<1>6. \A q \in R : UnderWay(q)' => cacheTs'[q] <= cNow
  BY <1>1, <1>4, <1>5 DEF Behind, UnderWay
<1>7. \A k \in cEntries' : SizeOf[k] <= MaxBytes
  BY <1>3 DEF Behind
<1>8. ASSUME NEW q \in R, pc'[q] = "planned"
      PROVE  /\ \A k \in entries : used[k] <= cacheTs'[q]
             /\ \A p \in R : UnderWay(p)' => cacheTs'[p] <= cacheTs'[q]
  BY <1>4, <1>5, <1>6, <1>8 DEF Behind
<1>9. ASSUME NEW q \in R, pc'[q] \in OnTheWay,
             NEW k \in CandidateKeys(body'[q]) \cap cEntries'
      PROVE  cacheTs'[q] <= cUsed'[k]
  <2>1. q # r
    BY <1>5, <1>9 DEF OnTheWay
  <2>2. QED
    BY <1>3, <1>4, <1>9, <2>1 DEF Behind
<1>10. \A k \in entries \cap cEntries' : used[k] <= cUsed'[k]
  BY <1>3 DEF Behind, StampsBehind
<1>11. QED
  BY <1>2, <1>6, <1>7, <1>8, <1>9, <1>10 DEF Behind, StampsBehind, CandidateKeys, Candidates

(* A request that ends, and one that goes on. *)
LEMMA RequestMoves ==
    ASSUME PairTypeOK, NEW r \in R,
           \/ Over(r)
           \/ /\ UNCHANGED <<body, cacheTs>>
              /\ \E from, to \in OnTheWay : Move(r, from, to)
    PROVE  \A q \in R : UnderWay(q)' =>
               /\ UnderWay(q) /\ cacheTs'[q] = cacheTs[q] /\ body'[q] = body[q]
               /\ pc'[q] = "planned" => pc[q] = "planned"
               /\ pc'[q] \in OnTheWay => pc[q] \in OnTheWay
  BY DEF PairTypeOK, Over, Move, UnderWay, OnTheWay

(* Every step keeps the time stamps of the server behind the client's.      *)
LEMMA BehindSteps ==
    ASSUME PairTypeOK, PairTypeOK', Carried, Behind, [PairNext]_pairVars
    PROVE  Behind'
<1> DEFINE Quiet == \A k \in entries' : k \in entries /\ used'[k] = used[k]
           ClientQuiet == \A k \in cEntries' : k \in cEntries /\ cUsed'[k] = cUsed[k]
           Use(r) == \A k \in entries' : \/ k \in entries /\ used'[k] = used[k]
                                         \/ k \in CandidateKeys(body[r]) /\ used'[k] = cacheTs[r]
           GoesOn == \A q \in R : UnderWay(q)' =>
               /\ UnderWay(q) /\ cacheTs'[q] = cacheTs[q] /\ body'[q] = body[q]
               /\ pc'[q] = "planned" => pc[q] = "planned"
               /\ pc'[q] \in OnTheWay => pc[q] \in OnTheWay
           Clock == cNow <= cNow' /\ cNow' \in Int
<1>1. /\ TypeOK /\ ClientTableOK /\ cNow \in Int /\ now \in Int /\ offset \in Int
      /\ \A q \in R : body[q] \in Body /\ Carries(wire[q], body[q]) /\ cacheTs[q] \in Stamps
  BY StampFacts, CacheAssumption DEF PairTypeOK, ClientTableOK, Carried, TypeOK, cNow
<1>2. UNCHANGED clientTable => ClientQuiet
  BY <1>1, ClientRowsStay
<1>3. UNCHANGED <<entries, used>> => Quiet
  BY <1>1, ServerRowsStay
<1>4. UNCHANGED <<now, offset>> => Clock
  BY <1>1 DEF cNow
<1>5. ClientQuiet /\ Quiet /\ Clock /\ GoesOn => Behind'
  BY LaterBehind
<1>6. ASSUME NEW r \in R, pc[r] \in {"restored", "stored"}, ClientQuiet, Use(r), Clock, GoesOn
      PROVE  Behind'
  BY <1>6, LaterBehind
<1>7. UNCHANGED requestVars => GoesOn
  BY DEF requestVars, UnderWay
<1>8. ASSUME NEW r \in R, RestoreBody(r)
      PROVE  Behind'
  <2>1. Quiet /\ Clock
    BY <1>1, <1>4, <1>8, ServerRowsStay DEF RestoreBody, Lookup
  <2>2. GoesOn
    BY <1>8, RequestMoves DEF RestoreBody, OnTheWay
  <2>3. QED
    BY <1>2, <1>5, <1>8, <2>1, <2>2 DEF RestoreBody
<1>9. ASSUME NEW r \in R, TakeFull(r) \/ Replay(r)
      PROVE  Behind'
  <2>1. GoesOn
    BY <1>9, RequestMoves DEF TakeFull, Replay, OnTheWay
  <2>2. UNCHANGED <<now, serverTable, clientTable, offset>>
    BY <1>9 DEF TakeFull, Replay
  <2>3. QED
    BY <1>2, <1>3, <1>4, <1>5, <2>1, <2>2 DEF serverTable
<1>10. ASSUME NEW r \in R, Lost(r) \/ DenyReplay(r)
       PROVE  Behind'
  <2>1. GoesOn
    BY <1>10, RequestMoves DEF Lost, DenyReplay
  <2>2. UNCHANGED <<now, serverTable, clientTable, offset>>
    BY <1>10 DEF Lost, DenyReplay
  <2>3. QED
    BY <1>2, <1>3, <1>4, <1>5, <2>1, <2>2 DEF serverTable
<1>11. ASSUME NEW r \in R, TouchRestored(r)
       PROVE  Behind'
  <2>1. References(wire[r]) \subseteq CandidateKeys(body[r]) /\ CandidateKeys(body[r]) \in SUBSET Keys
    BY <1>1, CarriedKeys, BodyKeys
  <2>2. \A k \in entries' : \/ k \in entries /\ used'[k] = used[k]
                            \/ k \in References(wire[r]) /\ used'[k] = cacheTs[r]
    <3>1. /\ References(wire[r]) \in SUBSET Keys /\ cacheTs[r] \in Stamps
          /\ TouchMany(References(wire[r]), cacheTs[r])
      BY <1>1, <1>11, <2>1 DEF TouchRestored
    <3>2. QED
      BY <1>1, <3>1, ServerUses
  <2>3. Use(r)
    BY <2>1, <2>2
  <2>4. GoesOn
    BY <1>11, RequestMoves DEF TouchRestored, OnTheWay
  <2>5. /\ pc[r] = "restored" /\ UNCHANGED <<now, offset>> /\ UNCHANGED clientTable
    BY <1>11 DEF TouchRestored, TouchMany, Move
  <2>6. QED
    BY <1>2, <1>4, <1>6, <2>3, <2>4, <2>5
<1>12. ASSUME NEW r \in R, Forward(r)
       PROVE  Behind'
  <2>1. Sent(wire[r]) = body[r] /\ CandidateKeys(body[r]) \in SUBSET Keys
    BY <1>1, BodyKeys DEF Carries
  <2>2. Use(r)
    <3>1. cacheTs[r] \in Stamps /\ PutMany(CandidateKeys(body[r]), cacheTs[r])
      BY <1>1, <1>12, <2>1 DEF Forward
    <3>2. QED
      BY <1>1, <2>1, <3>1, ServerUses
  <2>3. GoesOn
    BY <1>12, RequestMoves DEF Forward
  <2>4. /\ pc[r] = "stored" /\ UNCHANGED clientTable
        /\ now' \in now..MaxTime /\ offset' = offset
    BY <1>12 DEF Forward
  <2>5. Clock
    BY <1>1, <2>4, ClockRuns
  <2>6. QED
    BY <1>2, <1>6, <2>2, <2>3, <2>4, <2>5
<1>13. CASE EmptyServer \/ Maintain
  <2>1. /\ Keep({}, used) \/ Prune
        /\ UNCHANGED <<now, offset>> /\ UNCHANGED clientTable /\ UNCHANGED requestVars
    BY <1>13 DEF EmptyServer, Maintain, Prune
  <2>2. Quiet
    BY <1>1, <2>1, ServerRowsStay
  <2>3. QED
    BY <1>2, <1>4, <1>5, <1>7, <2>1, <2>2
<1>14. CASE TimePasses
  <2>1. /\ now' = now + 1 /\ offset' = offset /\ UNCHANGED clientTable /\ UNCHANGED requestVars
        /\ UNCHANGED <<entries, used>>
    BY <1>14 DEF TimePasses, Tick
  <2>2. Quiet
    BY <1>1, <2>1, ServerRowsStay
  <2>3. Clock
    BY <1>1, <2>1 DEF cNow
  <2>4. QED
    BY <1>2, <1>5, <1>7, <2>1, <2>2, <2>3
<1>15. CASE UNCHANGED pairVars
  <2>1. UNCHANGED <<entries, used>> /\ UNCHANGED clientTable /\ UNCHANGED <<now, offset>>
        /\ UNCHANGED requestVars
    BY <1>15 DEF pairVars, serverTable
  <2>2. QED
    BY <1>2, <1>3, <1>4, <1>5, <1>7, <2>1
<1>16. QED
  BY <1>8, <1>9, <1>10, <1>11, <1>12, <1>13, <1>14, <1>15, PlanBehind, StoreBehind DEF PairNext

(* Every operation of the client's table keeps it within the limits.        *)
LEMMA ClientServeLimits ==
    ASSUME ClientTableOK, cNow \in Stamps, cNow' \in Stamps, Client!WithinLimits, ClientServe
    PROVE  Client!WithinLimits'
<1>1. /\ Client!Pruned \in SUBSET cEntries /\ cEntries \in SUBSET Keys /\ Fits(cEntries)
      /\ Client!Pruned \in SUBSET Keys
  BY ClientSameTable DEF ClientTableOK, Client!Pruned, Client!WithinLimits
<1>2. ASSUME NEW S \in SUBSET cEntries, cEntries' = S
      PROVE  Client!WithinLimits'
  <2>1. Client!Fits(S)
    BY <1>1, FitsMonotone, ClientSameTable
  <2>2. QED
    BY <1>2, <2>1 DEF Client!WithinLimits, Client!Fits
<1>3. ASSUME NEW S \in SUBSET Keys, NEW ts \in Stamps, Client!PutMany(S, ts)
      PROVE  Client!WithinLimits'
  <2> DEFINE P == Client!Pruned
             B == Admitted(S)
  <2>6. PICK at \in [B \ P -> cNow..cNow'] : cEntries' = PutRows(P, cCreated, cUsed, B, at, ts)
    BY <1>3, ClientPut
  <2>7. at \in [B \ P -> Stamps]
    <3>1. cNow..cNow' \subseteq Stamps
      BY StampFacts
    <3>2. QED
      BY <2>6, <3>1
  <2> DEFINE c == Dated(P, cCreated, B, at)
             u == Touched(P, cUsed, B, ts)
  <2>1. c \in [Keys -> Stamps] /\ u \in [Keys -> Stamps] /\ B \in SUBSET Keys
    <3>1. P \in SUBSET Keys /\ cCreated \in [Keys -> Stamps] /\ cUsed \in [Keys -> Stamps]
      BY <1>1 DEF ClientTableOK
    <3>2. B \in SUBSET Keys
      BY <1>3 DEF Admitted
    <3>3. c \in [Keys -> Stamps]
      BY <2>7, <3>1 DEF Dated
    <3>4. u \in [Keys -> Stamps]
      BY <1>3, <3>1 DEF Touched
    <3>5. QED
      BY <3>2, <3>3, <3>4
  <2>2. c \in [Keys -> Int] /\ u \in [Keys -> Int] /\ P \cup B \in SUBSET Keys
    BY <1>1, <2>1, StampInts
  <2>3. cEntries' = Retained(P \cup B, c, u)
    BY <2>6 DEF PutRows
  <2> HIDE DEF c, u
  <2>4. Client!Fits(Retained(P \cup B, c, u))
    BY <2>2, RetainedFits, ClientSameTable
  <2>5. QED
    BY <2>3, <2>4 DEF Client!WithinLimits, Client!Fits
<1>4. ASSUME NEW S \in SUBSET Keys, Client!Lookup(S)
      PROVE  Client!WithinLimits'
  BY <1>1, <1>2, <1>4, ClientLooks
<1>5. QED
  BY <1>2, <1>3, <1>4 DEF ClientServe, clientTable

-----------------------------------------------------------------------------
(* Two tables agree above F: on the rows used later than that, and on when. *)
Agree(E1, U1, E2, U2, F) ==
    \A k \in Keys : (k \in E1 /\ U1[k] > F) \/ (k \in E2 /\ U2[k] > F)
                        => k \in E1 /\ k \in E2 /\ U1[k] = U2[k]

(* What an eviction leaves that keeps the rows of one time stamp together.  *)
ByStamp(S, u) == {k \in S : Fits({j \in S : u[j] >= u[k]})}

(* Agreement is symmetric and transitive, and holds above all the more.     *)
LEMMA AgreeSymmetric ==
    ASSUME NEW E1, NEW U1, NEW E2, NEW U2, NEW F, Agree(E1, U1, E2, U2, F)
    PROVE  Agree(E2, U2, E1, U1, F)
  BY DEF Agree

LEMMA AgreeTransitive ==
    ASSUME NEW E1, NEW U1, NEW E2, NEW U2, NEW E3, NEW U3, NEW F,
           Agree(E1, U1, E2, U2, F), Agree(E2, U2, E3, U3, F)
    PROVE  Agree(E1, U1, E3, U3, F)
  BY DEF Agree

LEMMA AgreeLater ==
    ASSUME NEW E1, NEW U1 \in [Keys -> Int], NEW E2, NEW U2 \in [Keys -> Int],
           NEW F \in Int, NEW G \in Int, F <= G, Agree(E1, U1, E2, U2, F)
    PROVE  Agree(E1, U1, E2, U2, G)
  BY DEF Agree

(* A table agrees with what is left of it when expired rows are deleted.    *)
LEMMA FreshAgrees ==
    ASSUME NEW E \in SUBSET Keys, NEW U \in [Keys -> Int], NEW n \in Int, NEW F \in Int,
           n - Ttl <= F
    PROVE  /\ Agree(E, U, FreshRows(E, U, n), U, F)
           /\ Agree(E, U, FreshRows(E, U, n), Only(FreshRows(E, U, n), U), F)
<1>1. n - Ttl \in Int
  BY CacheAssumption
<1>2. \A k \in Keys : U[k] \in Int
  OBVIOUS
<1> DEFINE m == n - Ttl
<1>3. \A k \in Keys : U[k] > F => U[k] > m
  <2> HIDE DEF m
  <2>1. m \in Int /\ m <= F
    BY <1>1 DEF m
  <2>2. QED
    BY <1>2, <2>1
<1>4. FreshRows(E, U, n) = {k \in E : U[k] > m}
  BY DEF FreshRows
<1> HIDE DEF m
<1>5. QED
  BY <1>3, <1>4 DEF Agree, Only

(* Clearing the columns of absent rows changes nothing. *)
LEMMA OnlyAgrees ==
    ASSUME NEW E, NEW U, NEW F
    PROVE  Agree(E, U, E, Only(E, U), F)
  BY DEF Agree, Only

(* Tables that agree do so when the same keys are put into both.            *)
LEMMA PutAgrees ==
    ASSUME NEW E1, NEW U1 \in [Keys -> Int], NEW E2, NEW U2 \in [Keys -> Int],
           NEW B \in SUBSET Keys, NEW ts \in Int, NEW F \in Int, Agree(E1, U1, E2, U2, F)
    PROVE  Agree(E1 \cup B, Touched(E1, U1, B, ts), E2 \cup B, Touched(E2, U2, B, ts), F)
<1> DEFINE u1 == Touched(E1, U1, B, ts)
           u2 == Touched(E2, U2, B, ts)
<1> SUFFICES ASSUME NEW k \in Keys,
                    (k \in E1 \cup B /\ u1[k] > F) \/ (k \in E2 \cup B /\ u2[k] > F)
             PROVE  k \in E1 \cup B /\ k \in E2 \cup B /\ u1[k] = u2[k]
  BY DEF Agree
<1>1. /\ u1[k] = IF k \notin B THEN U1[k] ELSE IF k \notin E1 \/ U1[k] < ts THEN ts ELSE U1[k]
      /\ u2[k] = IF k \notin B THEN U2[k] ELSE IF k \notin E2 \/ U2[k] < ts THEN ts ELSE U2[k]
  BY DEF Touched
<1>2. /\ U1[k] \in Int /\ U2[k] \in Int
      /\ (k \in E1 /\ U1[k] > F) \/ (k \in E2 /\ U2[k] > F)
             => k \in E1 /\ k \in E2 /\ U1[k] = U2[k]
  BY DEF Agree
<1> HIDE DEF u1, u2
<1>3. CASE k \notin B
  BY <1>1, <1>2, <1>3
<1>4. CASE k \in B /\ ((k \in E1 /\ U1[k] > F) \/ (k \in E2 /\ U2[k] > F))
  BY <1>1, <1>2, <1>4
<1>5. CASE k \in B /\ (k \in E1 => U1[k] <= F) /\ (k \in E2 => U2[k] <= F)
  <2>1. ts > F
    BY <1>1, <1>2, <1>5
  <2>2. u1[k] = ts /\ u2[k] = ts
    BY <1>1, <1>2, <1>5, <2>1
  <2>3. QED
    BY <1>5, <2>2
<1>6. QED
  BY <1>2, <1>3, <1>4, <1>5

(* ... and when both evict, by the time stamps only: what becomes of a row  *)
(* is decided by the rows that were used no earlier.                        *)
LEMMA EvictAgrees ==
    ASSUME NEW S1 \in SUBSET Keys, NEW u1 \in [Keys -> Int],
           NEW S2 \in SUBSET Keys, NEW u2 \in [Keys -> Int],
           NEW F \in Int, Agree(S1, u1, S2, u2, F)
    PROVE  Agree(ByStamp(S1, u1), u1, ByStamp(S2, u2), u2, F)
<1>1. ASSUME NEW k \in Keys, k \in S1, k \in S2, u1[k] = u2[k], u1[k] > F
      PROVE  {j \in S1 : u1[j] >= u1[k]} = {j \in S2 : u2[j] >= u2[k]}
  <2>1. \A j \in Keys : (j \in S1 /\ u1[j] >= u1[k]) => (j \in S2 /\ u1[j] = u2[j])
    <3>1. \A j \in Keys : u1[j] \in Int
      OBVIOUS
    <3>2. \A j \in Keys : u1[j] >= u1[k] => u1[j] > F
      BY <1>1, <3>1
    <3>3. QED
      BY <3>2 DEF Agree
  <2>2. \A j \in Keys : (j \in S2 /\ u2[j] >= u2[k]) => (j \in S1 /\ u1[j] = u2[j])
    <3>1. \A j \in Keys : u2[j] \in Int
      OBVIOUS
    <3>2. \A j \in Keys : u2[j] >= u2[k] => u2[j] > F
      BY <1>1, <3>1
    <3>3. QED
      BY <3>2 DEF Agree
  <2>3. QED
    BY <1>1, <2>1, <2>2
<1>2. ASSUME NEW k \in Keys,
             (k \in ByStamp(S1, u1) /\ u1[k] > F) \/ (k \in ByStamp(S2, u2) /\ u2[k] > F)
      PROVE  k \in ByStamp(S1, u1) /\ k \in ByStamp(S2, u2) /\ u1[k] = u2[k]
  <2>1. k \in S1 /\ k \in S2 /\ u1[k] = u2[k] /\ u1[k] > F
    BY <1>2 DEF Agree, ByStamp
  <2>2. {j \in S1 : u1[j] >= u1[k]} = {j \in S2 : u2[j] >= u2[k]}
    BY <1>1, <2>1
  <2>3. k \in ByStamp(S1, u1) <=> k \in ByStamp(S2, u2)
    BY <2>1, <2>2 DEF ByStamp
  <2>4. QED
    BY <1>2, <2>1, <2>3
<1>3. QED
  BY <1>2 DEF Agree

(* An eviction that splits no rows of one time stamp goes by the stamps.    *)
LEMMA RetainedByStamp ==
    ASSUME NEW c \in [Keys -> Int], NEW u \in [Keys -> Int], NEW S \in SUBSET Keys,
           \A j \in S \ Retained(S, c, u), k \in Retained(S, c, u) : u[j] # u[k]
    PROVE  Retained(S, c, u) = ByStamp(S, u)
<1>1. \A j, k \in Keys : /\ Before(c, u, k, j) => u[j] >= u[k]
                         /\ u[j] > u[k] => Before(c, u, k, j)
                         /\ u[j] >= u[k] => u[j] > u[k] \/ u[j] = u[k]
  <2>1. \A k \in Keys : u[k] \in Int
    OBVIOUS
  <2>2. QED
    BY <2>1 DEF Before
<1>2. ASSUME NEW k \in ByStamp(S, u)
      PROVE  k \in Retained(S, c, u)
  <2> DEFINE T == {j \in S : u[j] >= u[k]}
             L == {k} \cup {j \in S : Before(c, u, k, j)}
  <2>1. k \in S /\ Fits(T) /\ T \in SUBSET Keys /\ u[k] >= u[k]
    <3>1. k \in S /\ Fits(T) /\ T \in SUBSET Keys
      BY DEF ByStamp
    <3>2. u[k] \in Int
      BY <3>1
    <3>3. QED
      BY <3>1, <3>2
  <2>2. L \in SUBSET T
    BY <1>1, <2>1
  <2> HIDE DEF T, L
  <2>3. Fits(L)
    BY <2>1, <2>2, FitsMonotone
  <2>4. QED
    BY <2>1, <2>3 DEF Retained, L
<1>3. ASSUME NEW k \in Retained(S, c, u)
      PROVE  k \in ByStamp(S, u)
  <2> DEFINE G == {j \in S : u[j] = u[k]}
             T == {j \in S : u[j] >= u[k]}
  <2>1. k \in S /\ k \in G /\ G \in SUBSET Keys /\ G \subseteq Retained(S, c, u)
    BY DEF Retained
  <2>2. PICK m \in G : \A j \in G \ {m} : Before(c, u, m, j)
    <3> HIDE DEF G
    <3>1. QED
      BY <2>1, Oldest
  <2> DEFINE L == {m} \cup {j \in S : Before(c, u, m, j)}
  <2>3. Fits(L) /\ L \in SUBSET Keys
    <3>1. m \in Retained(S, c, u) /\ m \in Keys
      BY <2>1, <2>2
    <3>2. QED
      BY <3>1 DEF Retained
  <2>4. T \in SUBSET L
    BY <1>1, <2>1, <2>2
  <2> HIDE DEF T, L, G
  <2>5. Fits(T)
    BY <2>3, <2>4, FitsMonotone
  <2>6. QED
    BY <2>1, <2>5 DEF ByStamp, T
<1>4. QED
  BY <1>2, <1>3

(* put_many of the server's table, when it splits no rows of one stamp.     *)
LEMMA ServerPutByStamp ==
    ASSUME TypeOK, NEW S \in SUBSET Keys, NEW ts \in Stamps, PutMany(S, ts),
           now' \in now..MaxTime, ~Splits(S, ts)
    PROVE  LET B == Admitted(S)
               u == Touched(Pruned, used, B, ts)
           IN  /\ entries' = ByStamp(Pruned \cup B, u)
               /\ used' = Only(entries', u)
<1> DEFINE B == Admitted(S)
           u == Touched(Pruned, used, B, ts)
<1>1. PICK at \in [B \ Pruned -> now..now'] : entries' = PutRows(Pruned, created, used, B, at, ts)
  BY ServerPut
<1>2. at \in [B \ Pruned -> Times] /\ B \in SUBSET Keys /\ Pruned \in SUBSET Keys
      /\ created \in [Keys -> Times] /\ used \in [Keys -> Stamps]
  <2>1. now..now' \subseteq Times
    BY StampFacts DEF TypeOK
  <2>2. QED
    BY <1>1, <2>1 DEF TypeOK, Pruned, Admitted
<1> DEFINE c == Dated(Pruned, created, B, at)
<1>3. c \in [Keys -> Times] /\ u \in [Keys -> Stamps]
  BY <1>2, PutTypes
<1>4. c \in [Keys -> Int] /\ u \in [Keys -> Int] /\ Pruned \cup B \in SUBSET Keys
  BY <1>2, <1>3, StampFacts
<1>5. entries' = Retained(Pruned \cup B, c, u)
  BY <1>1 DEF PutRows
<1>6. Stamped(S, ts) = u
  BY DEF Stamped, Touched
<1>7. \A j \in (Pruned \cup B) \ entries', k \in entries' : u[j] # u[k]
  BY <1>6 DEF Splits
<1>8. used' = Only(entries', u)
  BY ServerPutStamps
<1> HIDE DEF c, u, B
<1>9. entries' = ByStamp(Pruned \cup B, u)
  BY <1>4, <1>5, <1>7, RetainedByStamp
<1>10. QED
  BY <1>8, <1>9 DEF u, B

(* The same of the client's table.                                          *)
LEMMA ClientPutByStamp ==
    ASSUME ClientTableOK, cNow \in Stamps, cNow' \in Stamps,
           NEW S \in SUBSET Keys, NEW ts \in Stamps, Client!PutMany(S, ts), ~Client!Splits(S, ts)
    PROVE  LET P == Client!Pruned
               B == Admitted(S)
               u == Touched(P, cUsed, B, ts)
           IN  /\ cEntries' = ByStamp(P \cup B, u)
               /\ cUsed' = Only(cEntries', u)
<1> DEFINE P == Client!Pruned
           B == Admitted(S)
           u == Touched(P, cUsed, B, ts)
<1>1. PICK at \in [B \ P -> cNow..cNow'] : cEntries' = PutRows(P, cCreated, cUsed, B, at, ts)
  BY ClientPut
<1>2. at \in [B \ P -> Stamps] /\ B \in SUBSET Keys /\ P \in SUBSET Keys
      /\ cCreated \in [Keys -> Stamps] /\ cUsed \in [Keys -> Stamps]
  <2>1. cNow..cNow' \subseteq Stamps
    BY StampFacts
  <2>2. QED
    BY <1>1, <2>1 DEF ClientTableOK, Client!Pruned, Admitted
<1>6. Client!Stamped(S, ts) = u
  BY ClientSameTable DEF Client!Stamped, Touched
<1>7. \A j \in (P \cup B) \ cEntries', k \in cEntries' : u[j] # u[k]
  BY <1>6, ClientSameTable DEF Client!Splits
<1>8. cUsed' = Only(cEntries', u)
  BY ClientPutStamps
<1> HIDE DEF P
<1> DEFINE c == Dated(P, cCreated, B, at)
<1>3. c \in [Keys -> Stamps] /\ u \in [Keys -> Stamps]
  BY <1>2, PutTypes
<1>4. c \in [Keys -> Int] /\ u \in [Keys -> Int] /\ P \cup B \in SUBSET Keys
  BY <1>2, <1>3, StampFacts
<1>5. cEntries' = Retained(P \cup B, c, u)
  BY <1>1 DEF PutRows
<1> HIDE DEF c, u, B
<1>9. cEntries' = ByStamp(P \cup B, u)
  BY <1>4, <1>5, <1>7, RetainedByStamp
<1>10. QED
  BY <1>8, <1>9 DEF u, B, P

-----------------------------------------------------------------------------
(* Undisturbed, the tables agree on the rows that neither clock calls       *)
(* expired, except while the client is one request ahead: then its table is *)
(* what the server's will be after that request.  What a request refers to  *)
(* is there until the server has looked it up.                              *)
Same == Agree(entries, used, cEntries, cUsed, Horizon)

Ahead(q) ==
    LET B == Admitted(CandidateKeys(body[q]))
        u == Touched(entries, used, B, cacheTs[q])
    IN  Agree(ByStamp(entries \cup B, u), u, cEntries, cUsed, Horizon)

Undisturbed ==
    ~disturbed =>
        /\ \A p, q \in R : UnderWay(p) /\ UnderWay(q) => p = q
        /\ \A q \in R : pc[q] # "missed"
        /\ (\A q \in R : pc[q] \in {"idle", "planned", "done"}) => Same
        /\ \A q \in R : pc[q] \in {"sent", "restored", "stored"} => Ahead(q)
        /\ \A q \in R : pc[q] \in {"planned", "sent"} => References(wire[q]) \subseteq Pruned

(* The horizon is beyond what either clock calls expired, and only rises.   *)
LEMMA HorizonFacts ==
    ASSUME PairTypeOK
    PROVE  /\ Horizon \in Int /\ now \in Int /\ cNow \in Int /\ offset \in Int
           /\ now - Ttl <= Horizon /\ cNow - Ttl <= Horizon
           /\ \A t \in Int : t > now - Ttl /\ t > cNow - Ttl => t > Horizon
<1>1. now \in Int /\ offset \in Int /\ Ttl \in Int
  BY StampInts, CacheAssumption DEF PairTypeOK, TypeOK
<1>2. QED
  BY <1>1 DEF Horizon, cNow

LEMMA HorizonRises ==
    ASSUME PairTypeOK, now' \in now..MaxTime, offset' = offset
    PROVE  Horizon <= Horizon' /\ Horizon' \in Int
<1>1. now \in Int /\ offset \in Int /\ Ttl \in Int /\ MaxTime \in Int
  BY StampInts, CacheAssumption DEF PairTypeOK, TypeOK
<1>2. now' \in Int /\ now <= now'
  <2>1. \A m, n \in Int : \A i \in m..n : i \in Int /\ m <= i
    OBVIOUS
  <2>2. QED
    BY <1>1, <2>1
<1> DEFINE t == now'
<1>h. \A m, n, o, d \in Int : m <= n => /\ m - d <= n - d /\ n - d \in Int
                                        /\ (m + o) - d <= (n + o) - d /\ (n + o) - d \in Int
  OBVIOUS
<1>i. t \in Int /\ now <= t
  BY <1>2
<1>j. /\ now - Ttl <= t - Ttl /\ t - Ttl \in Int
      /\ (now + offset) - Ttl <= (t + offset) - Ttl /\ (t + offset) - Ttl \in Int
  <2> HIDE DEF t
  <2> QED BY <1>1, <1>h, <1>i
<1>3. now - Ttl <= now' - Ttl /\ now' - Ttl \in Int
  BY <1>j
<1>4. (now + offset) - Ttl <= (now' + offset) - Ttl /\ (now' + offset) - Ttl \in Int
  BY <1>j
<1>5. CASE offset > 0
  BY <1>4, <1>5 DEF Horizon, cNow
<1>6. CASE ~(offset > 0)
  BY <1>3, <1>6 DEF Horizon, cNow
<1>7. QED
  BY <1>5, <1>6

(* The columns as functions of integers.                                    *)
LEMMA PairColumns ==
    ASSUME PairTypeOK
    PROVE  /\ entries \in SUBSET Keys /\ cEntries \in SUBSET Keys
           /\ used \in [Keys -> Int] /\ cUsed \in [Keys -> Int]
           /\ Pruned \in SUBSET Keys /\ Client!Pruned \in SUBSET Keys
           /\ \A q \in R : /\ cacheTs[q] \in Int
                           /\ Admitted(CandidateKeys(body[q])) \in SUBSET Keys
<1>1. used \in [Keys -> Stamps] /\ cUsed \in [Keys -> Stamps] /\ \A q \in R : cacheTs[q] \in Stamps
  BY DEF PairTypeOK, TypeOK
<1>2. entries \in SUBSET Keys /\ cEntries \in SUBSET Keys
  BY DEF PairTypeOK, TypeOK
<1>3. \A q \in R : Admitted(CandidateKeys(body[q])) \in SUBSET Keys
  <2>1. \A q \in R : CandidateKeys(body[q]) \in SUBSET Keys
    BY BodyKeys DEF PairTypeOK
  <2>2. QED
    BY <2>1 DEF Admitted
<1>4. QED
  BY <1>1, <1>2, <1>3, StampInts DEF Pruned, Client!Pruned

(* The same after a step.                                                   *)
LEMMA NextColumns ==
    ASSUME PairTypeOK'
    PROVE  /\ entries' \in SUBSET Keys /\ used' \in [Keys -> Int] /\ cUsed' \in [Keys -> Int]
           /\ Horizon' \in Int
<1>1. /\ used' \in [Keys -> Stamps] /\ cUsed' \in [Keys -> Stamps] /\ entries' \in SUBSET Keys
      /\ now' \in Times /\ offset' \in -Skew..Skew
  BY DEF PairTypeOK, TypeOK
<1>2. used' \in [Keys -> Int] /\ cUsed' \in [Keys -> Int] /\ now' \in Int
  BY <1>1, StampInts
<1>3. \A m, n \in Int : \A i \in m..n : i \in Int
  OBVIOUS
<1>4. offset' \in Int /\ Ttl \in Int
  BY <1>1, <1>3, CacheAssumption
<1>5. (now' + offset') - Ttl \in Int /\ now' - Ttl \in Int
  BY <1>2, <1>4
<1>6. Horizon' \in Int
  <2>1. CASE offset' > 0
    BY <1>5, <2>1 DEF Horizon, cNow
  <2>2. CASE ~(offset' > 0)
    BY <1>5, <2>2 DEF Horizon, cNow
  <2>3. QED
    BY <2>1, <2>2
<1>7. QED
  BY <1>1, <1>2, <1>6

(* What put_many computes of integers.                                      *)
LEMMA TouchedType ==
    ASSUME NEW E, NEW U \in [Keys -> Int], NEW B, NEW ts \in Int
    PROVE  Touched(E, U, B, ts) \in [Keys -> Int]
  BY DEF Touched

(* A prune leaves the rows that are not expired.                            *)
LEMMA PruneKeepsRows ==
    ASSUME TypeOK, WithinLimits, Prune
    PROVE  Pruned' = Pruned
<1>1. Pruned \in SUBSET entries /\ entries \in SUBSET Keys
  BY DEF TypeOK, Pruned
<1>2. Retained(Pruned, created, used) = Pruned
  BY <1>1, FitsMonotone, RetainedWhole DEF WithinLimits
<1>3. Keep(Pruned, used) /\ now' = now
  BY <1>2 DEF Prune
<1>4. /\ entries' = Pruned
      /\ \A k \in Pruned : used'[k] = used[k]
  BY <1>1, <1>3 DEF Keep
<1>5. QED
  BY <1>3, <1>4 DEF Pruned, Fresh

(* No row is larger than the table. *)
LEMMA EntriesAdmitted ==
    ASSUME TypeOK, WithinLimits, NEW S \in SUBSET Keys
    PROVE  S \cap entries \subseteq Admitted(S)
<1> SUFFICES ASSUME NEW k \in S, k \in entries
             PROVE  SizeOf[k] <= MaxBytes
  BY DEF Admitted
<1>1. {k} \in SUBSET entries /\ entries \in SUBSET Keys /\ {k} \in SUBSET Keys
  BY DEF TypeOK
<1>2. Bytes({k}) <= MaxBytes
  BY <1>1, FitsMonotone DEF WithinLimits, Fits
<1>3. Bytes({k}) = SizeOf[k] + Bytes({k} \ {k}) /\ {k} \ {k} = {}
  BY <1>1, BytesSplits
<1>4. SizeOf[k] \in Nat
  BY CacheAssumption
<1>5. QED
  BY <1>2, <1>3, <1>4, BytesUnfolds

(* Neither table changes above the horizon: they stay alike, and the client *)
(* stays ahead, also when the server touches what it will put.              *)
LEMMA SameStays ==
    ASSUME PairTypeOK, PairTypeOK', Same, Horizon <= Horizon',
           Agree(entries, used, entries', used', Horizon),
           Agree(cEntries, cUsed, cEntries', cUsed', Horizon)
    PROVE  Same'
<1>1. Agree(entries', used', entries, used, Horizon)
  BY AgreeSymmetric
<1>2. Agree(entries', used', cEntries, cUsed, Horizon)
  BY <1>1, AgreeTransitive DEF Same
<1>3. Agree(entries', used', cEntries', cUsed', Horizon)
  BY <1>2, AgreeTransitive
<1>4. used' \in [Keys -> Int] /\ cUsed' \in [Keys -> Int] /\ Horizon \in Int /\ Horizon' \in Int
  BY NextColumns, HorizonFacts
<1>5. Agree(entries', used', cEntries', cUsed', Horizon')
  BY <1>3, <1>4, AgreeLater
<1>6. QED
  BY <1>5 DEF Same

LEMMA AheadStays ==
    ASSUME PairTypeOK, PairTypeOK', NEW q \in R, Ahead(q), Horizon <= Horizon',
           UNCHANGED clientTable, body'[q] = body[q], cacheTs'[q] = cacheTs[q],
           LET B == Admitted(CandidateKeys(body[q]))
               ts == cacheTs[q]
           IN  Agree(entries \cup B, Touched(entries, used, B, ts),
                     entries' \cup B, Touched(entries', used', B, ts), Horizon)
    PROVE  Ahead(q)'
<1> DEFINE B == Admitted(CandidateKeys(body[q]))
           ts == cacheTs[q]
           u == Touched(entries, used, B, ts)
           v == Touched(entries', used', B, ts)
<1>1. /\ entries \cup B \in SUBSET Keys /\ entries' \cup B \in SUBSET Keys
      /\ u \in [Keys -> Int] /\ v \in [Keys -> Int]
      /\ cUsed \in [Keys -> Int] /\ Horizon \in Int /\ Horizon' \in Int
  <2>1. /\ entries \in SUBSET Keys /\ used \in [Keys -> Int] /\ cUsed \in [Keys -> Int]
        /\ B \in SUBSET Keys /\ ts \in Int
    BY PairColumns
  <2>2. entries' \in SUBSET Keys /\ used' \in [Keys -> Int] /\ Horizon' \in Int
    BY NextColumns
  <2> HIDE DEF B, ts
  <2>3. QED
    BY <2>1, <2>2, TouchedType, HorizonFacts
<1>2. /\ Agree(ByStamp(entries \cup B, u), u, cEntries, cUsed, Horizon)
      /\ Agree(entries \cup B, u, entries' \cup B, v, Horizon)
  BY DEF Ahead
<1>3. Ahead(q)' = Agree(ByStamp(entries' \cup B, v), v, cEntries', cUsed', Horizon')
  <2>1. Admitted(CandidateKeys(body'[q])) = B /\ cacheTs'[q] = ts
    OBVIOUS
  <2>2. QED
    BY <2>1 DEF Ahead
<1> HIDE DEF u, v, B, ts
<1>4. Agree(ByStamp(entries \cup B, u), u, ByStamp(entries' \cup B, v), v, Horizon)
  BY <1>1, <1>2, EvictAgrees
<1>5. Agree(ByStamp(entries' \cup B, v), v, ByStamp(entries \cup B, u), u, Horizon)
  BY <1>4, AgreeSymmetric
<1>6. Agree(ByStamp(entries' \cup B, v), v, cEntries, cUsed, Horizon)
  BY <1>2, <1>5, AgreeTransitive
<1>7. Agree(ByStamp(entries' \cup B, v), v, cEntries, cUsed, Horizon')
  BY <1>1, <1>6, AgreeLater
<1>8. cEntries' = cEntries /\ cUsed' = cUsed
  BY DEF clientTable
<1>9. QED
  BY <1>3, <1>7, <1>8

(* The server deletes what is expired, or nothing.                          *)
LEMMA QuietAgrees ==
    ASSUME PairTypeOK, WithinLimits,
           Prune \/ (\E S : Lookup(S)) \/ UNCHANGED <<entries, used>>
    PROVE  Agree(entries, used, entries', used', Horizon)
<1>1. /\ entries \in SUBSET Keys /\ used \in [Keys -> Int] /\ now \in Int
      /\ Horizon \in Int /\ now - Ttl <= Horizon /\ Pruned \in SUBSET entries
  BY PairColumns, HorizonFacts DEF Pruned
<1>2. CASE UNCHANGED <<entries, used>>
  BY <1>2 DEF Agree
<1>3. CASE Prune \/ \E S : Lookup(S)
  <2>1. Retained(Pruned, created, used) = Pruned
    BY <1>1, FitsMonotone, RetainedWhole DEF WithinLimits
  <2>2. Keep(Pruned, used)
    BY <1>3, <2>1 DEF Prune, Lookup
  <2>3. entries' = Pruned /\ used' = Only(Pruned, used) /\ Pruned = FreshRows(entries, used, now)
    BY <2>2, ClientSameTable DEF Keep, Only
  <2>4. QED
    BY <1>1, <2>3, FreshAgrees
<1>4. QED
  BY <1>2, <1>3

LEMMA QuietAhead ==
    ASSUME PairTypeOK, PairTypeOK', NEW q \in R, Ahead(q), Horizon <= Horizon',
           UNCHANGED clientTable, body'[q] = body[q], cacheTs'[q] = cacheTs[q],
           Agree(entries, used, entries', used', Horizon)
    PROVE  Ahead(q)'
<1> DEFINE B == Admitted(CandidateKeys(body[q]))
           ts == cacheTs[q]
<1>1. /\ used \in [Keys -> Int] /\ B \in SUBSET Keys /\ ts \in Int
      /\ Horizon \in Int
  BY PairColumns, HorizonFacts
<1>2. used' \in [Keys -> Int]
  BY NextColumns
<1>3. Agree(entries \cup B, Touched(entries, used, B, ts),
            entries' \cup B, Touched(entries', used', B, ts), Horizon)
  <2> HIDE DEF B, ts
  <2>1. QED
    BY <1>1, <1>2, PutAgrees
<1>4. QED
  BY <1>3, AheadStays

(* A request that is alone under way, with nothing lost. *)
LEMMA AloneUndisturbed ==
    ASSUME NEW r \in R,
           \A q \in R : q # r => pc'[q] \in {"idle", "done"},
           pc'[r] \in {"planned", "sent", "restored", "stored", "done"},
           pc'[r] \in {"planned", "done"} => Same',
           pc'[r] \in {"sent", "restored", "stored"} => Ahead(r)',
           pc'[r] \in {"planned", "sent"} => References(wire'[r]) \subseteq Pruned'
    PROVE  Undisturbed'
<1>1. \A q \in R : q # r => /\ pc'[q] \in {"idle", "done"}
                            /\ ~(UnderWay(q)')
                            /\ pc'[q] \notin {"planned", "sent", "restored", "stored"}
  BY DEF UnderWay
<1>2. UnderWay(r)' => pc'[r] # "done"
  BY DEF UnderWay
<1>3. \A q \in R : pc'[q] \in {"sent", "restored", "stored"} => Ahead(q)'
  <2>1. \A q \in R : pc'[q] \in {"sent", "restored", "stored"} => q = r
    BY <1>1
  <2>2. QED
    BY <2>1 DEF Ahead
<1>4. (\A q \in R : pc'[q] \in {"idle", "planned", "done"}) => Same'
  BY DEF Same
<1>5. QED
  BY <1>1, <1>2, <1>3, <1>4 DEF Undisturbed, UnderWay

(* A request that comes when nothing is under way refers to what both have. *)
LEMMA PlanUndisturbed ==
    ASSUME PairTypeOK, PairTypeOK', Undisturbed, NEW r \in R, Plan(r)
    PROVE  Undisturbed'
<1> SUFFICES ASSUME ~disturbed' PROVE Undisturbed'
  BY DEF Undisturbed
<1>1. /\ ~disturbed /\ \A q \in R : ~UnderWay(q)
      /\ \A k \in References(wire'[r]) : ~(cUsed[k] <= now - Ttl)
  BY DEF Plan, Disturb
<1>2. Same
  BY <1>1 DEF Undisturbed, UnderWay
<1>3. PICK b \in Bodies : /\ Client!Lookup(CandidateKeys(b))
                          /\ \E known \in {cServed', {}} : wire' = [wire EXCEPT ![r] = Compress(b, known)]
  BY DEF Plan
<1>4. UNCHANGED <<now, offset, entries, used>> /\ cNow' = cNow
  BY DEF Plan, serverTable, cNow
<1>5. /\ cEntries' = Client!Pruned /\ cUsed' = Only(Client!Pruned, cUsed)
      /\ cServed' \subseteq Client!Pruned
      /\ Client!Pruned = FreshRows(cEntries, cUsed, cNow)
  BY <1>3, ClientLooks, ClientSameTable
<1>6. /\ cEntries \in SUBSET Keys /\ cUsed \in [Keys -> Int] /\ used \in [Keys -> Int]
      /\ cNow \in Int /\ now \in Int /\ Horizon \in Int /\ cNow - Ttl <= Horizon
      /\ \A t \in Int : t > now - Ttl /\ t > cNow - Ttl => t > Horizon
      /\ now - Ttl \in Int
  BY PairColumns, HorizonFacts, CacheAssumption
<1>7. Horizon' = Horizon /\ Horizon <= Horizon' /\ Pruned' = Pruned
  BY <1>4, <1>6 DEF Horizon, Pruned, Fresh
<1>8. Same'
  <2>1. Agree(cEntries, cUsed, cEntries', cUsed', Horizon)
    BY <1>5, <1>6, FreshAgrees
  <2>2. Agree(entries, used, entries', used', Horizon)
    BY <1>4 DEF Agree
  <2>3. QED
    BY <1>2, <1>7, <2>1, <2>2, SameStays
<1>9. References(wire'[r]) \subseteq Client!Pruned
  <2>1. PICK known \in {cServed', {}} : wire' = [wire EXCEPT ![r] = Compress(b, known)]
    BY <1>3
  <2>2. known \subseteq Client!Pruned /\ wire'[r] = Compress(b, known) /\ b \in Body
    BY <1>5, <2>1, PairAssumption DEF PairTypeOK
  <2>3. QED
    BY <2>2, CompressCarries
<1>10. References(wire'[r]) \subseteq Pruned
  <2> SUFFICES ASSUME NEW k \in References(wire'[r]) PROVE k \in Pruned
    OBVIOUS
  <2>1. k \in Keys /\ k \in cEntries /\ cUsed[k] > cNow - Ttl
    BY <1>5, <1>6, <1>9 DEF FreshRows
  <2>2. cUsed[k] \in Int /\ cUsed[k] > now - Ttl
    BY <1>1, <1>6, <2>1
  <2>3. cUsed[k] > Horizon
    BY <1>6, <2>1, <2>2
  <2>4. k \in entries /\ used[k] = cUsed[k]
    BY <1>2, <2>1, <2>3 DEF Same, Agree
  <2>5. QED
    BY <2>2, <2>4 DEF Pruned, Fresh
<1>11. pc'[r] = "planned" /\ \A q \in R : q # r => pc'[q] \in {"idle", "done"}
  BY <1>1 DEF Plan, Move, PairTypeOK, UnderWay
<1>12. QED
  BY <1>7, <1>8, <1>10, <1>11, AloneUndisturbed

(* A reference that the server had before the clock ran is still there.     *)
LEMMA NotExpiring ==
    ASSUME PairTypeOK, NEW r \in R, pc[r] \in {"planned", "sent"}, ~Expiring,
           now' \in now..MaxTime, UNCHANGED <<entries, used>>, References(wire[r]) \subseteq Pruned
    PROVE  References(wire[r]) \subseteq Pruned'
<1> SUFFICES ASSUME NEW k \in References(wire[r]) PROVE k \in Pruned'
  OBVIOUS
<1>1. k \in entries /\ k \in Keys /\ used[k] \in Int
  BY PairColumns DEF Pruned
<1>2. ~(used[k] <= now' - Ttl)
  BY <1>1 DEF Expiring
<1>3. now' - Ttl \in Int
  <2>1. \A m, n \in Int : \A i \in m..n : i \in Int
    OBVIOUS
  <2>2. now' \in Int /\ Ttl \in Int
    BY <2>1, StampInts, CacheAssumption DEF PairTypeOK, TypeOK
  <2>3. QED
    BY <2>2
<1>4. used[k] > now' - Ttl
  BY <1>1, <1>2, <1>3
<1>5. k \in entries' /\ used'[k] > now' - Ttl
  BY <1>1, <1>4
<1>6. QED
  BY <1>5 DEF Pruned, Fresh

(* The client stores its candidates: now it is one request ahead.           *)
LEMMA StoreUndisturbed ==
    ASSUME PairTypeOK, PairTypeOK', Undisturbed, NEW r \in R, StorePlanned(r)
    PROVE  Undisturbed'
<1> SUFFICES ASSUME ~disturbed' PROVE Undisturbed'
  BY DEF Undisturbed
<1>1. /\ ~disturbed /\ ~Expiring /\ UnderWay(r) /\ pc[r] = "planned"
      /\ ~Client!Splits(CandidateKeys(body[r]), cacheTs[r])
  BY DEF StorePlanned, Move, UnderWay, Disturb
<1>2. \A q \in R : q # r => pc[q] \in {"idle", "done"}
  BY <1>1 DEF Undisturbed, UnderWay
<1>3. Same /\ References(wire[r]) \subseteq Pruned
  BY <1>1, <1>2 DEF Undisturbed
<1>4. /\ UNCHANGED <<offset, entries, used, body, wire, cacheTs>>
      /\ now' \in now..MaxTime
      /\ Client!PutMany(CandidateKeys(body[r]), cacheTs[r])
  BY DEF StorePlanned
<1>5. Horizon <= Horizon' /\ Horizon \in Int /\ Horizon' \in Int /\ cNow \in Int /\ cNow - Ttl <= Horizon
  BY <1>4, HorizonRises, HorizonFacts
<1> DEFINE B == Admitted(CandidateKeys(body[r]))
           ts == cacheTs[r]
           P == Client!Pruned
           u == Touched(entries, used, B, ts)
           v == Touched(P, cUsed, B, ts)
<1>6. /\ entries \in SUBSET Keys /\ cEntries \in SUBSET Keys /\ P \in SUBSET Keys
      /\ used \in [Keys -> Int] /\ cUsed \in [Keys -> Int] /\ B \in SUBSET Keys /\ ts \in Int
      /\ P = FreshRows(cEntries, cUsed, cNow)
  BY PairColumns, ClientSameTable
<1>7. cEntries' = ByStamp(P \cup B, v) /\ cUsed' = Only(cEntries', v)
  <2>1. ClientTableOK /\ cNow \in Stamps /\ CandidateKeys(body[r]) \in SUBSET Keys /\ ts \in Stamps
    <3>1. body[r] \in Body
      BY DEF PairTypeOK
    <3>2. QED
      BY <3>1, BodyKeys, StampFacts DEF PairTypeOK, ClientTableOK, TypeOK, cNow
  <2>2. cNow' \in Stamps
    BY StampFacts DEF PairTypeOK, TypeOK, cNow
  <2>3. QED
    BY <1>1, <1>4, <2>1, <2>2, ClientPutByStamp
<1>8. Ahead(r)' = Agree(ByStamp(entries \cup B, u), u, cEntries', cUsed', Horizon')
  BY <1>4 DEF Ahead
<1> HIDE DEF B, ts, P
<1>9. Agree(entries \cup B, u, P \cup B, v, Horizon)
  <2>1. Agree(cEntries, cUsed, P, cUsed, Horizon)
    BY <1>5, <1>6, FreshAgrees
  <2>2. Agree(entries, used, P, cUsed, Horizon)
    BY <1>3, <2>1, AgreeTransitive DEF Same
  <2>3. QED
    BY <1>5, <1>6, <2>2, PutAgrees
<1>10. /\ u \in [Keys -> Int] /\ v \in [Keys -> Int]
       /\ entries \cup B \in SUBSET Keys /\ P \cup B \in SUBSET Keys
  BY <1>6, TouchedType
<1> HIDE DEF u, v
<1>11. Agree(ByStamp(entries \cup B, u), u, ByStamp(P \cup B, v), v, Horizon)
  BY <1>5, <1>9, <1>10, EvictAgrees
<1>12. Agree(ByStamp(P \cup B, v), v, cEntries', cUsed', Horizon)
  BY <1>7, OnlyAgrees
<1>13. Agree(ByStamp(entries \cup B, u), u, cEntries', cUsed', Horizon)
  BY <1>11, <1>12, AgreeTransitive
<1>14. cUsed' \in [Keys -> Int]
  BY NextColumns
<1>15. Ahead(r)'
  <2>1. Agree(ByStamp(entries \cup B, u), u, cEntries', cUsed', Horizon')
    BY <1>5, <1>10, <1>13, <1>14, AgreeLater
  <2>2. QED
    BY <1>8, <2>1
<1>16. References(wire'[r]) \subseteq Pruned'
  BY <1>1, <1>3, <1>4, NotExpiring
<1>17. pc'[r] = "sent" /\ \A q \in R : q # r => pc'[q] \in {"idle", "done"}
  BY <1>2 DEF StorePlanned, Move, PairTypeOK
<1>18. QED
  BY <1>15, <1>16, <1>17, AloneUndisturbed

(* touch_many of what will be put anyway makes no difference to the put.    *)
LEMMA TouchAgrees ==
    ASSUME PairTypeOK, NEW S, NEW B \in SUBSET Keys, NEW ts \in Int, TouchMany(S, ts),
           S \cap Pruned \subseteq B
    PROVE  Agree(entries \cup B, Touched(entries, used, B, ts),
                 entries' \cup B, Touched(entries', used', B, ts), Horizon)
<1>1. /\ entries \in SUBSET Keys /\ used \in [Keys -> Int] /\ now \in Int
      /\ Horizon \in Int /\ now - Ttl <= Horizon
      /\ Pruned \in SUBSET Keys /\ Pruned = FreshRows(entries, used, now)
  BY PairColumns, HorizonFacts, ClientSameTable
<1>2. Agree(entries, used, Pruned, used, Horizon)
  BY <1>1, FreshAgrees
<1>3. Agree(entries \cup B, Touched(entries, used, B, ts),
            Pruned \cup B, Touched(Pruned, used, B, ts), Horizon)
  BY <1>1, <1>2, PutAgrees
<1>4. /\ entries' = Pruned
      /\ \A k \in Pruned : used'[k] = IF k \in S /\ used[k] < ts THEN ts ELSE used[k]
  BY <1>1 DEF TouchMany, Keep
<1>5. ASSUME NEW k \in Pruned \cup B
      PROVE  Touched(Pruned, used', B, ts)[k] = Touched(Pruned, used, B, ts)[k]
  <2>1. /\ k \in Keys
        /\ Touched(Pruned, used, B, ts)[k] =
               IF k \notin B THEN used[k] ELSE IF k \notin Pruned \/ used[k] < ts THEN ts ELSE used[k]
        /\ Touched(Pruned, used', B, ts)[k] =
               IF k \notin B THEN used'[k] ELSE IF k \notin Pruned \/ used'[k] < ts THEN ts ELSE used'[k]
    BY <1>1 DEF Touched
  <2>2. CASE k \notin Pruned
    BY <1>5, <2>1, <2>2
  <2>3. CASE k \in Pruned
    <3>1. used'[k] = (IF k \in S /\ used[k] < ts THEN ts ELSE used[k]) /\ used[k] \in Int
          /\ (k \in S => k \in B) /\ ~(ts < ts)
      BY <1>1, <1>4, <2>3
    <3>2. QED
      BY <2>1, <2>3, <3>1
  <2>4. QED
    BY <2>2, <2>3
<1>6. Agree(Pruned \cup B, Touched(Pruned, used, B, ts),
            Pruned \cup B, Touched(Pruned, used', B, ts), Horizon)
  BY <1>5 DEF Agree
<1>7. QED
  BY <1>3, <1>4, <1>6, AgreeTransitive

(* The server finds every reference, and then touches them, or finds none. *)
LEMMA RestoreUndisturbed ==
    ASSUME PairTypeOK, PairTypeOK', Carried, WithinLimits, Undisturbed, NEW r \in R,
           RestoreBody(r) \/ TakeFull(r) \/ TouchRestored(r)
    PROVE  Undisturbed'
<1> SUFFICES ASSUME ~disturbed' PROVE Undisturbed'
  BY DEF Undisturbed
<1>1. ~disturbed /\ UnderWay(r) /\ pc[r] \in {"sent", "restored"}
  BY DEF RestoreBody, TakeFull, TouchRestored, Move, UnderWay
<1>2. \A q \in R : q # r => pc[q] \in {"idle", "done"}
  BY <1>1 DEF Undisturbed, UnderWay
<1>3. Ahead(r) /\ (pc[r] = "sent" => References(wire[r]) \subseteq Pruned)
  BY <1>1 DEF Undisturbed
<1>4. UNCHANGED <<now, offset, body, cacheTs>> /\ UNCHANGED clientTable
  BY DEF RestoreBody, TakeFull, TouchRestored, Lookup, TouchMany
<1>5. TypeOK /\ body[r] \in Body /\ Carries(wire[r], body[r]) /\ cacheTs[r] \in Int
  BY StampInts DEF PairTypeOK, Carried
<1>6. Horizon <= Horizon'
  BY <1>4, HorizonFacts DEF Horizon, cNow
<1>7. CASE RestoreBody(r)
  <2>1. served' = References(wire[r]) \cap Pruned /\ Lookup(References(wire[r]))
    BY <1>7 DEF RestoreBody, Lookup
  <2>2. pc'[r] = "restored" /\ \A q \in R : q # r => pc'[q] \in {"idle", "done"}
    BY <1>2, <1>3, <1>7, <2>1 DEF RestoreBody, Move, PairTypeOK
  <2>3. Ahead(r)'
    BY <1>3, <1>4, <1>6, <2>1, QuietAgrees, QuietAhead
  <2>4. QED
    BY <2>2, <2>3, AloneUndisturbed
<1>8. CASE TakeFull(r)
  <2>1. UNCHANGED <<entries, used>>
    BY <1>8 DEF TakeFull, serverTable
  <2>2. pc'[r] = "stored" /\ \A q \in R : q # r => pc'[q] \in {"idle", "done"}
    BY <1>2, <1>8 DEF TakeFull, Move, PairTypeOK
  <2>3. Ahead(r)'
    BY <1>3, <1>4, <1>6, <2>1, QuietAgrees, QuietAhead
  <2>4. QED
    BY <2>2, <2>3, AloneUndisturbed
<1>9. CASE TouchRestored(r)
  <2>1. TouchMany(References(wire[r]), cacheTs[r])
    BY <1>9 DEF TouchRestored
  <2>2. pc'[r] = "stored" /\ \A q \in R : q # r => pc'[q] \in {"idle", "done"}
    BY <1>2, <1>9 DEF TouchRestored, Move, PairTypeOK
  <2>3. References(wire[r]) \cap Pruned \subseteq Admitted(CandidateKeys(body[r]))
    <3>1. References(wire[r]) \subseteq CandidateKeys(body[r]) /\ Pruned \subseteq entries
      BY <1>5, CarriedKeys DEF Pruned
    <3>2. CandidateKeys(body[r]) \cap entries \subseteq Admitted(CandidateKeys(body[r]))
      BY <1>5, BodyKeys, EntriesAdmitted
    <3>3. QED
      BY <3>1, <3>2
  <2>4. Admitted(CandidateKeys(body[r])) \in SUBSET Keys
    BY PairColumns
  <2>5. Ahead(r)'
    BY <1>3, <1>4, <1>5, <1>6, <2>1, <2>3, <2>4, TouchAgrees, AheadStays
  <2>6. QED
    BY <2>2, <2>5, AloneUndisturbed
<1>10. QED
  BY <1>7, <1>8, <1>9

(* The server puts what the client has put: its table is the client's then. *)
LEMMA ForwardUndisturbed ==
    ASSUME PairTypeOK, PairTypeOK', Carried, Undisturbed, NEW r \in R, Forward(r)
    PROVE  Undisturbed'
<1> SUFFICES ASSUME ~disturbed' PROVE Undisturbed'
  BY DEF Undisturbed
<1>1. /\ ~disturbed /\ UnderWay(r) /\ pc[r] = "stored"
      /\ ~Splits(CandidateKeys(Sent(wire[r])), cacheTs[r])
  BY DEF Forward, UnderWay, Disturb
<1>2. \A q \in R : q # r => pc[q] \in {"idle", "done"}
  BY <1>1 DEF Undisturbed, UnderWay
<1>3. Ahead(r)
  BY <1>1 DEF Undisturbed
<1>4. Sent(wire[r]) = body[r] /\ body[r] \in Body
  BY DEF PairTypeOK, Carried, Carries
<1>5. /\ PutMany(CandidateKeys(body[r]), cacheTs[r]) /\ now' \in now..MaxTime
      /\ offset' = offset /\ cEntries' = cEntries /\ cUsed' = cUsed
      /\ ~Splits(CandidateKeys(body[r]), cacheTs[r])
  BY <1>1, <1>4 DEF Forward, clientTable
<1>6. Horizon <= Horizon' /\ Horizon \in Int /\ Horizon' \in Int /\ now \in Int /\ now - Ttl <= Horizon
  BY <1>5, HorizonRises, HorizonFacts
<1> DEFINE B == Admitted(CandidateKeys(body[r]))
           ts == cacheTs[r]
           u == Touched(entries, used, B, ts)
           v == Touched(Pruned, used, B, ts)
<1>7. /\ entries \in SUBSET Keys /\ Pruned \in SUBSET Keys
      /\ used \in [Keys -> Int] /\ cUsed \in [Keys -> Int] /\ B \in SUBSET Keys /\ ts \in Int
      /\ Pruned = FreshRows(entries, used, now)
  BY PairColumns, ClientSameTable
<1>8. entries' = ByStamp(Pruned \cup B, v) /\ used' = Only(entries', v)
  <2>1. TypeOK /\ CandidateKeys(body[r]) \in SUBSET Keys /\ cacheTs[r] \in Stamps
    BY <1>4, BodyKeys DEF PairTypeOK
  <2>2. QED
    BY <1>5, <2>1, ServerPutByStamp
<1>9. Agree(ByStamp(entries \cup B, u), u, cEntries, cUsed, Horizon)
  BY <1>3 DEF Ahead
<1> HIDE DEF B, ts
<1>10. Agree(Pruned \cup B, v, entries \cup B, u, Horizon)
  <2>1. Agree(entries, used, Pruned, used, Horizon)
    BY <1>6, <1>7, FreshAgrees
  <2>2. Agree(Pruned, used, entries, used, Horizon)
    BY <2>1, AgreeSymmetric
  <2>3. QED
    BY <1>6, <1>7, <2>2, PutAgrees
<1>11. /\ u \in [Keys -> Int] /\ v \in [Keys -> Int]
       /\ entries \cup B \in SUBSET Keys /\ Pruned \cup B \in SUBSET Keys
  BY <1>7, TouchedType
<1> HIDE DEF u, v
<1>12. Agree(ByStamp(Pruned \cup B, v), v, ByStamp(entries \cup B, u), u, Horizon)
  BY <1>6, <1>10, <1>11, EvictAgrees
<1>13. Agree(entries', used', ByStamp(Pruned \cup B, v), v, Horizon)
  BY <1>8, OnlyAgrees, AgreeSymmetric
<1>14. Agree(entries', used', cEntries, cUsed, Horizon)
  BY <1>9, <1>12, <1>13, AgreeTransitive
<1>15. used' \in [Keys -> Int]
  BY NextColumns
<1>16. Same'
  <2>1. Agree(entries', used', cEntries, cUsed, Horizon')
    BY <1>6, <1>7, <1>14, <1>15, AgreeLater
  <2>2. QED
    BY <1>5, <2>1 DEF Same
<1>17. pc'[r] = "done" /\ \A q \in R : q # r => pc'[q] \in {"idle", "done"}
  BY <1>2 DEF Forward, Over, PairTypeOK
<1>18. QED
  BY <1>16, <1>17, AloneUndisturbed

(* Time that passes, and a prune, leave the rows above the horizon alone.   *)
LEMMA TimeUndisturbed ==
    ASSUME PairTypeOK, PairTypeOK', WithinLimits, Undisturbed, TimePasses \/ Maintain
    PROVE  Undisturbed'
<1> SUFFICES ASSUME ~disturbed' PROVE Undisturbed'
  BY DEF Undisturbed
<1>1. /\ UNCHANGED <<offset, pc, body, wire, cacheTs>> /\ UNCHANGED clientTable
      /\ ~disturbed
      /\ Prune \/ UNCHANGED <<entries, used>>
  <2>1. CASE TimePasses
    BY <2>1 DEF TimePasses, Tick, Disturb, requestVars
  <2>2. CASE Maintain
    BY <2>2 DEF Maintain, requestVars
  <2>3. QED
    BY <2>1, <2>2
<1>2. now' \in now..MaxTime
  BY StampInts, CacheAssumption DEF TimePasses, Maintain, Tick, Prune, PairTypeOK, TypeOK, Times
<1>3. Horizon <= Horizon'
  BY <1>1, <1>2, HorizonRises
<1>4. Agree(entries, used, entries', used', Horizon)
  BY <1>1, QuietAgrees
<1>5. Agree(cEntries, cUsed, cEntries', cUsed', Horizon)
  BY <1>1 DEF Agree, clientTable
<1>6. Same => Same'
  BY <1>3, <1>4, <1>5, SameStays
<1>7. \A q \in R : Ahead(q) => Ahead(q)'
  BY <1>1, <1>3, <1>4, QuietAhead
<1>8. ASSUME NEW q \in R, pc[q] \in {"planned", "sent"}, References(wire[q]) \subseteq Pruned
      PROVE  References(wire[q]) \subseteq Pruned'
  <2>1. CASE TimePasses
    <3>1. ~Expiring /\ UNCHANGED <<entries, used>>
      BY <2>1 DEF TimePasses, Tick, Disturb
    <3>2. QED
      BY <1>2, <1>8, <3>1, NotExpiring
  <2>2. CASE Maintain
    <3>1. Pruned' = Pruned
      BY <2>2, PruneKeepsRows DEF Maintain, PairTypeOK
    <3>2. QED
      BY <1>8, <3>1
  <2>3. QED
    BY <2>1, <2>2
<1>9. /\ \A p, q \in R : UnderWay(p)' /\ UnderWay(q)' => p = q
      /\ \A q \in R : pc'[q] # "missed"
  BY <1>1 DEF Undisturbed, UnderWay
<1>10. (\A q \in R : pc'[q] \in {"idle", "planned", "done"}) => Same'
  BY <1>1, <1>6 DEF Undisturbed
<1>11. \A q \in R : pc'[q] \in {"sent", "restored", "stored"} => Ahead(q)'
  BY <1>1, <1>7 DEF Undisturbed
<1>12. \A q \in R : pc'[q] \in {"planned", "sent"} => References(wire'[q]) \subseteq Pruned'
  <2>1. wire' = wire /\ pc' = pc
    BY <1>1
  <2>2. \A q \in R : pc[q] \in {"planned", "sent"} => References(wire[q]) \subseteq Pruned
    BY <1>1 DEF Undisturbed
  <2>3. QED
    BY <1>8, <2>1, <2>2
<1>13. QED
  BY <1>9, <1>10, <1>11, <1>12 DEF Undisturbed

(* Every step leaves the pair undisturbed, or is what disturbs it.          *)
LEMMA UndisturbedSteps ==
    ASSUME PairTypeOK, PairTypeOK', Carried, WithinLimits, Undisturbed, [PairNext]_pairVars
    PROVE  Undisturbed'
<1>1. ASSUME NEW r \in R, Lost(r)
      PROVE  Undisturbed'
  BY <1>1 DEF Lost, Disturb, Undisturbed
<1>2. CASE EmptyServer
  BY <1>2 DEF EmptyServer, Disturb, Undisturbed
<1>3. ASSUME NEW r \in R, Replay(r) \/ DenyReplay(r)
      PROVE  Undisturbed'
  <2>1. pc[r] = "missed" /\ disturbed' = disturbed
    BY <1>3 DEF Replay, DenyReplay, Move
  <2>2. QED
    BY <2>1 DEF Undisturbed
<1>4. CASE UNCHANGED pairVars
  <2>1. /\ UNCHANGED <<now, offset, disturbed, pc, body, wire, cacheTs>>
        /\ UNCHANGED <<entries, created, used, cEntries, cCreated, cUsed>>
    BY <1>4 DEF pairVars, serverTable, clientTable, requestVars
  <2>2. Pruned' = Pruned /\ Horizon' = Horizon
    BY <2>1 DEF Pruned, Fresh, Horizon, cNow
  <2>3. (Same' <=> Same) /\ \A q \in R : Ahead(q)' <=> Ahead(q)
    BY <2>1, <2>2 DEF Same, Ahead
  <2>4. QED
    BY <2>1, <2>2, <2>3 DEF Undisturbed, UnderWay
<1>5. QED
  BY <1>1, <1>2, <1>3, <1>4, PlanUndisturbed, StoreUndisturbed, RestoreUndisturbed,
     ForwardUndisturbed, TimeUndisturbed DEF PairNext

-----------------------------------------------------------------------------
(* What the proofs need of every state of the pair. *)
PairInv ==
    /\ PairTypeOK
    /\ Carried
    /\ Behind
    /\ WithinLimits /\ Client!WithinLimits
    /\ ServedFresh
    /\ ForwardedOriginal
    /\ Undisturbed

(* The invariant holds of two empty tables.                                 *)
LEMMA PairInitially == PairInit => PairInv
<1> SUFFICES ASSUME PairInit PROVE PairInv
  OBVIOUS
<1>1. /\ NoBody \in Body /\ Plain(NoBody) \in Wire /\ Carries(Plain(NoBody), NoBody)
  BY PlainCarries, PairAssumption
<1>2. PairTypeOK
  <2>1. TypeOK
    BY StampFacts DEF PairInit, Init, TypeOK
  <2>2. 0 \in Stamps /\ 0 \in 0..MaxReplays
    BY StampFacts, PairAssumption
  <2>3. QED
    BY <1>1, <2>1, <2>2 DEF PairInit, PairTypeOK, Pcs
<1>3. Carried /\ ForwardedOriginal
  BY <1>1 DEF PairInit, Carried, ForwardedOriginal
<1>4. Behind
  BY DEF PairInit, Init, Behind, UnderWay, OnTheWay, StampsBehind
<1>5. WithinLimits /\ Client!WithinLimits
  BY NothingFits, ClientSameTable DEF PairInit, Init, WithinLimits, Client!WithinLimits
<1>6. ServedFresh
  BY DEF PairInit, Init, ServedFresh
<1>7. Undisturbed
  BY DEF PairInit, Init, Undisturbed, UnderWay, Same, Agree
<1>8. QED
  BY <1>2, <1>3, <1>4, <1>5, <1>6, <1>7 DEF PairInv

(* Every step keeps it.                                                     *)
LEMMA PairKeeps == PairInv /\ [PairNext]_pairVars => PairInv'
<1> SUFFICES ASSUME PairInv, [PairNext]_pairVars PROVE PairInv'
  OBVIOUS
<1>1. /\ PairTypeOK /\ Carried /\ Behind /\ WithinLimits /\ Client!WithinLimits
      /\ ServedFresh /\ ForwardedOriginal /\ Undisturbed
  BY DEF PairInv
<1>2. PairTypeOK' /\ Carried' /\ Serve /\ ClientServe
  BY <1>1, PairTypes, RequestSteps, PairServes
<1>3. Behind'
  BY <1>1, <1>2, BehindSteps
<1>4. WithinLimits' /\ ServedFresh'
  BY <1>1, <1>2, ServeLimits, ServeServes DEF PairTypeOK
<1>5. Client!WithinLimits'
  <2>1. ClientTableOK /\ cNow \in Stamps /\ cNow' \in Stamps
    BY <1>1, <1>2, StampFacts DEF PairTypeOK, ClientTableOK, TypeOK, cNow
  <2>2. QED
    BY <1>1, <1>2, <2>1, ClientServeLimits
<1>6. ForwardedOriginal'
  BY <1>1, OriginalSteps
<1>7. Undisturbed'
  BY <1>1, <1>2, UndisturbedSteps
<1>8. QED
  BY <1>2, <1>3, <1>4, <1>5, <1>6, <1>7 DEF PairInv

(* So it holds in every reachable state.                                    *)
LEMMA PairCorrect == PairSpec => []PairInv
  BY PairInitially, PairKeeps, PTL DEF PairSpec

-----------------------------------------------------------------------------
(* The type invariant of both tables and of the requests under way. *)
THEOREM PairTypeCorrect == PairSpec => []PairTypeOK
  BY PairCorrect, PTL DEF PairInv

(* put_many and prune leave a table that respects max_items and max_bytes,  *)
(* for any sizes and limits: on both sides, whatever comes between.         *)
THEOREM WithinLimitsCorrect == PairSpec => []WithinLimits
  BY PairCorrect, PTL DEF PairInv

(* The same of the client's table.                                          *)
THEOREM ClientWithinLimitsCorrect == PairSpec => []Client!WithinLimits
  BY PairCorrect, PTL DEF PairInv

(* get and contains_many never find an entry whose time to live is over.    *)
THEOREM ServedFreshCorrect == PairSpec => []ServedFresh
  BY PairCorrect, PTL DEF PairInv

(* A late request with an old cache_ts does not age an entry.               *)
THEOREM NeverAgedCorrect == PairSpec => NeverAged
<1>1. ASSUME PairInv, [PairNext]_pairVars
      PROVE  [\A k \in Pruned \cap entries' : used'[k] >= used[k]]_vars
  BY <1>1, PairServes, ServeAges DEF PairInv, PairTypeOK
<1>2. QED
  BY <1>1, PairCorrect, PTL DEF PairSpec, NeverAged

(* What the relay is about to forward, replayed or restored from references, *)
(* is the body as the caller sent it.                                        *)
THEOREM ForwardedOriginalCorrect == PairSpec => []ForwardedOriginal
  BY PairCorrect, PTL DEF PairInv

(* The server never believes an entry younger than the client does.          *)
THEOREM StampsBehindCorrect == PairSpec => []StampsBehind
<1>1. PairInv => StampsBehind
  BY DEF PairInv, Behind
<1>2. QED
  BY <1>1, PairCorrect, PTL

(* Requests that come one by one and are not lost never miss a reference,    *)
(* and leave both tables with the same live rows, used at the same times:    *)
(* for any clocks and any dates of new rows, as long as no eviction splits   *)
(* the rows of one time stamp and no reference expires on its way.           *)
THEOREM TablesAgreeCorrect == PairSpec => []TablesAgree
<1>1. PairInv => TablesAgree
  <2> SUFFICES ASSUME PairTypeOK, Undisturbed, ~disturbed
               PROVE  /\ \A r \in R : pc[r] # "missed"
                      /\ (\A r \in R : ~UnderWay(r)) => Live(entries, used) = Live(cEntries, cUsed)
    BY DEF PairInv, TablesAgree
  <2>1. \A r \in R : pc[r] # "missed"
    BY DEF Undisturbed
  <2>2. (\A r \in R : ~UnderWay(r)) => Same
    BY DEF Undisturbed, UnderWay
  <2>3. ASSUME Same
        PROVE  Live(entries, used) = Live(cEntries, cUsed)
    <3>1. entries \in SUBSET Keys /\ cEntries \in SUBSET Keys
      BY PairColumns
    <3>2. \A k \in Keys : /\ k \in entries /\ used[k] > Horizon
                                 => k \in cEntries /\ cUsed[k] = used[k] /\ cUsed[k] > Horizon
                          /\ k \in cEntries /\ cUsed[k] > Horizon
                                 => k \in entries /\ used[k] = cUsed[k] /\ used[k] > Horizon
      BY <2>3 DEF Same, Agree
    <3>3. \A x : x \in Live(entries, used) =>
                     \E k \in entries : used[k] > Horizon /\ x = <<k, used[k]>>
      BY DEF Live
    <3>4. \A x : x \in Live(cEntries, cUsed) =>
                     \E k \in cEntries : cUsed[k] > Horizon /\ x = <<k, cUsed[k]>>
      BY DEF Live
    <3>5. Live(entries, used) \subseteq Live(cEntries, cUsed)
      BY <3>1, <3>2, <3>3 DEF Live
    <3>6. Live(cEntries, cUsed) \subseteq Live(entries, used)
      BY <3>1, <3>2, <3>4 DEF Live
    <3>7. QED
      BY <3>5, <3>6
  <2>4. QED
    BY <2>1, <2>2, <2>3
<1>2. QED
  BY <1>1, PairCorrect, PTL

(* What is left of the rows that a stored request makes, and of what any     *)
(* pass of the loop of _enforce_limits has left of them, is what its next    *)
(* pass leaves.                                                              *)
THEOREM EvictionCorrect == PairSpec => []EvictionFollowsLoop
<1>1. ASSUME NEW S \in SUBSET Keys, NEW c \in [Keys -> Int], NEW u \in [Keys -> Int]
      PROVE  Retained(S, c, u) = IF Fits(S) THEN S ELSE Retained(S \ {Victim(S, c, u)}, c, u)
  <2>1. CASE Fits(S)
    BY <2>1, RetainedWhole
  <2>2. CASE ~Fits(S)
    <3>1. S # {}
      BY <2>2, NothingFits
    <3>2. \E k \in S : \A j \in S \ {k} : Before(c, u, k, j)
      BY <3>1, Oldest
    <3>3. /\ Victim(S, c, u) \in S
          /\ \A j \in S \ {Victim(S, c, u)} : Before(c, u, Victim(S, c, u), j)
      BY <3>2 DEF Victim
    <3>4. QED
      BY <2>2, <3>3, RetainedLoses
  <2>3. QED
    BY <2>1, <2>2
<1>2. PairInv => EvictionFollowsLoop
  <2> SUFFICES ASSUME PairTypeOK, NEW r \in R,
                      NEW at \in [Admitted(CandidateKeys(Sent(wire[r]))) \ Pruned -> now..MaxTime],
                      NEW S \in SUBSET (Pruned \cup Admitted(CandidateKeys(Sent(wire[r]))))
               PROVE  LET u == Stamped(CandidateKeys(Sent(wire[r])), cacheTs[r])
                          c == [k \in Keys |-> IF k \in DOMAIN at THEN at[k] ELSE created[k]]
                      IN  Retained(S, c, u) =
                              IF Fits(S) THEN S ELSE Retained(S \ {Victim(S, c, u)}, c, u)
    BY DEF PairInv, EvictionFollowsLoop
  <2> DEFINE B == CandidateKeys(Sent(wire[r]))
             u == Stamped(B, cacheTs[r])
             c == [k \in Keys |-> IF k \in DOMAIN at THEN at[k] ELSE created[k]]
  <2>1. /\ used \in [Keys -> Int] /\ created \in [Keys -> Int] /\ cacheTs[r] \in Int
        /\ now \in Int /\ MaxTime \in Int
    <3>1. created \in [Keys -> Times] /\ now \in Times
      BY DEF PairTypeOK, TypeOK
    <3>2. created \in [Keys -> Int] /\ now \in Int
      BY <3>1, StampInts
    <3>3. used \in [Keys -> Int] /\ cacheTs[r] \in Int
      BY PairColumns
    <3>4. QED
      BY <3>2, <3>3, CacheAssumption
  <2>2. S \in SUBSET Keys
    <3>1. Sent(wire[r]) \in Body
      <4>1. \A p \in Places : wire[r][p].value \in Values
        BY DEF PairTypeOK, Wire, Slot
      <4>2. QED
        BY <4>1 DEF Sent, Body
    <3>2. CandidateKeys(Sent(wire[r])) \in SUBSET Keys /\ Pruned \in SUBSET Keys
      BY <3>1, BodyKeys, PairColumns
    <3>3. QED
      BY <3>2 DEF Admitted
  <2>3. u \in [Keys -> Int]
    BY <2>1 DEF Stamped
  <2>4. c \in [Keys -> Int]
    <3>1. \A m, n \in Int : m..n \subseteq Int
      OBVIOUS
    <3>2. \A k \in DOMAIN at : at[k] \in Int
      BY <2>1, <3>1
    <3>3. QED
      BY <2>1, <3>2
  <2> HIDE DEF c, u
  <2>5. Retained(S, c, u) = IF Fits(S) THEN S ELSE Retained(S \ {Victim(S, c, u)}, c, u)
    BY <1>1, <2>2, <2>3, <2>4
  <2>6. QED
    BY <2>5 DEF c, u
<1>3. QED
  BY <1>2, PairCorrect, PTL
===============================================================================
