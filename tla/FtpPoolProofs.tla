---------------------------- MODULE FtpPoolProofs ----------------------------
(***************************************************************************)
(* Proofs about the FTP connection pools, for any number of workers,       *)
(* servers, connections and listings and any pool size.                    *)
(*                                                                         *)
(* The argument: the counters of a pool are exact for every pool there is  *)
(* (TokensExact); a worker past the lookup has a pool (Looked), and a key  *)
(* without one has nothing in use and nothing idle (Unmade).  A worker     *)
(* that is about to dial holds a token, is not counted as active and found *)
(* no idle connection, so there is room for one more.                      *)
(*                                                                         *)
(* The owners are a second invariant on top: what is idle or held is open, *)
(* once (ExclusiveUse), and what is open is idle or held (NoOrphan).       *)
(***************************************************************************)
EXTENDS FtpPool, FiniteSetTheorems, TLAPS

WithToken == {"pick", "dial", "list", "discard", "failed", "dropped"}
Using     == {"dial", "list", "discard"}

\* A worker past the lookup has a pool; after the run nobody is at work.
Looked ==
  \A w \in Workers : /\ pc[w] \notin {"idle", "lookup"} => key[w] \in made
                     /\ closed => pc[w] = "idle"

Unmade == \A k \in Keys \ made : active[k] = 0 /\ idle[k] = <<>>

CountInv == TypeOK /\ Looked /\ Unmade /\ TokensExact /\ ConnectionLimit

One(b) == IF b THEN 1 ELSE 0

-----------------------------------------------------------------------------
\* An element more or less.
LEMMA Counts ==
  ASSUME NEW S, IsFiniteSet(S), NEW x
  PROVE  /\ Cardinality(S) \in Nat
         /\ Cardinality(S \cup {x}) = Cardinality(S) + One(x \notin S)
         /\ Cardinality(S \ {x}) = Cardinality(S) - One(x \in S)
<1>1. Cardinality(S) \in Nat
  BY FS_CardinalityType
<1>2. Cardinality(S \cup {x}) = IF x \in S THEN Cardinality(S) ELSE Cardinality(S) + 1
  BY FS_AddElement
<1>3. Cardinality(S \ {x}) = IF x \in S THEN Cardinality(S) - 1 ELSE Cardinality(S)
  BY FS_RemoveElement
<1> QED BY <1>1, <1>2, <1>3 DEF One

\* A worker that moves within its listing changes the two counts of its own pool only,
\* and by one at most.
LEMMA Recount ==
  ASSUME TypeOK, NEW w \in Workers, NEW l, pc' = [pc EXCEPT ![w] = l], key' = key, NEW k \in Keys
  PROVE  /\ Cardinality(Holders(k)) \in Nat /\ Cardinality(InUse(k)) \in Nat
         /\ Cardinality(Holders(k)') = Cardinality(Holders(k))
              + One(key[w] = k /\ l \in WithToken) - One(key[w] = k /\ pc[w] \in WithToken)
         /\ Cardinality(InUse(k)') = Cardinality(InUse(k))
              + One(key[w] = k /\ l \in Using) - One(key[w] = k /\ pc[w] \in Using)
<1>1. IsFiniteSet(Holders(k)) /\ IsFiniteSet(InUse(k))
  BY FS_Subset, PoolAssumption DEF Holders, InUse
<1>2. Cardinality(Holders(k)) \in Nat /\ Cardinality(InUse(k)) \in Nat
  BY <1>1, FS_CardinalityType
<1>3. Holders(k)' = IF key[w] = k /\ l \in WithToken THEN Holders(k) \cup {w} ELSE Holders(k) \ {w}
  BY DEF TypeOK, Holders, WithToken
<1>4. w \in Holders(k) <=> key[w] = k /\ pc[w] \in WithToken
  BY DEF Holders, WithToken
<1>5. InUse(k)' = IF key[w] = k /\ l \in Using THEN InUse(k) \cup {w} ELSE InUse(k) \ {w}
  BY DEF TypeOK, InUse, Using
<1>6. w \in InUse(k) <=> key[w] = k /\ pc[w] \in Using
  BY DEF InUse, Using
<1>7. /\ Cardinality(Holders(k) \cup {w}) = Cardinality(Holders(k)) + One(w \notin Holders(k))
      /\ Cardinality(Holders(k) \ {w}) = Cardinality(Holders(k)) - One(w \in Holders(k))
  BY <1>1, Counts
<1>8. /\ Cardinality(InUse(k) \cup {w}) = Cardinality(InUse(k)) + One(w \notin InUse(k))
      /\ Cardinality(InUse(k) \ {w}) = Cardinality(InUse(k)) - One(w \in InUse(k))
  BY <1>1, Counts
<1>9. Cardinality(Holders(k)') = Cardinality(Holders(k))
        + One(key[w] = k /\ l \in WithToken) - One(key[w] = k /\ pc[w] \in WithToken)
  BY <1>2, <1>3, <1>4, <1>7 DEF One
<1>10. Cardinality(InUse(k)') = Cardinality(InUse(k))
         + One(key[w] = k /\ l \in Using) - One(key[w] = k /\ pc[w] \in Using)
  BY <1>2, <1>5, <1>6, <1>8 DEF One
<1> QED BY <1>2, <1>9, <1>10

\* Who is in use holds a token.
LEMMA InUseHolds ==
  ASSUME TypeOK, NEW k \in Keys
  PROVE  /\ Cardinality(Holders(k)) \in Nat /\ Cardinality(InUse(k)) \in Nat
         /\ Cardinality(InUse(k)) <= Cardinality(Holders(k))
         /\ \A w \in Workers : key[w] = k /\ pc[w] \in WithToken => Cardinality(Holders(k)) >= 1
         /\ \A w \in Workers : key[w] = k /\ pc[w] \in Using => Cardinality(InUse(k)) >= 1
         /\ \A w \in Workers : key[w] = k /\ pc[w] = "pick" => Cardinality(InUse(k)) < Cardinality(Holders(k))
<1>1. IsFiniteSet(Holders(k)) /\ InUse(k) \subseteq Holders(k)
  BY FS_Subset, PoolAssumption DEF Holders, InUse
<1>2. IsFiniteSet(InUse(k)) /\ Cardinality(InUse(k)) <= Cardinality(Holders(k))
  BY <1>1, FS_Subset
<1>3. Cardinality(Holders(k)) \in Nat /\ Cardinality(InUse(k)) \in Nat
  BY <1>1, <1>2, FS_CardinalityType
<1>4. ASSUME NEW w \in Workers, key[w] = k, pc[w] \in WithToken
      PROVE  Cardinality(Holders(k)) >= 1
  <2>1. w \in Holders(k)
    BY <1>4 DEF Holders, WithToken
  <2> QED BY <2>1, <1>1, <1>3, FS_EmptySet
<1>5. ASSUME NEW w \in Workers, key[w] = k, pc[w] \in Using
      PROVE  Cardinality(InUse(k)) >= 1
  <2>1. w \in InUse(k)
    BY <1>5 DEF InUse, Using
  <2> QED BY <2>1, <1>2, <1>3, FS_EmptySet
<1>6. ASSUME NEW w \in Workers, key[w] = k, pc[w] = "pick"
      PROVE  Cardinality(InUse(k)) < Cardinality(Holders(k))
  <2>1. w \in Holders(k) /\ w \notin InUse(k)
    BY <1>6 DEF Holders, InUse
  <2> QED BY <2>1, <1>1, <1>2, <1>3, FS_Subset
<1> QED BY <1>2, <1>3, <1>4, <1>5, <1>6

-----------------------------------------------------------------------------
\* What a worker's move leaves to be shown: its pool's three numbers change as the two
\* counts do, and stay in their bounds.
Balanced(w, l) ==
  LET k == key[w] IN
  /\ made' = made /\ k \in made
  /\ tokens' \in [Keys -> 0 .. PoolSize]
  /\ active' \in [Keys -> Int]
  /\ idle' \in [Keys -> Seq(Conns)]
  /\ \A j \in Keys \ {k} : tokens'[j] = tokens[j] /\ active'[j] = active[j] /\ idle'[j] = idle[j]
  /\ tokens'[k] = tokens[k] - One(l \in WithToken) + One(pc[w] \in WithToken)
  /\ active'[k] = active[k] + One(l \in Using) - One(pc[w] \in Using)
  /\ Len(idle'[k]) + active'[k] <= PoolSize

\* A worker that takes or gives back a token changes both sides of the balance.
LEMMA BalancedKeeps ==
  ASSUME CountInv, NEW w \in Workers, NEW l \in Pcs,
         pc' = [pc EXCEPT ![w] = l], key' = key, closed' = closed, pc[w] # "idle",
         Balanced(w, l)
  PROVE  /\ active' \in [Keys -> 0 .. PoolSize]
         /\ Looked' /\ Unmade' /\ TokensExact' /\ ConnectionLimit'
<1> DEFINE k == key[w]
<1> USE DEF CountInv
<1>1. k \in Keys /\ k \in made /\ made' = made /\ made \subseteq Keys
  BY DEF TypeOK, Balanced
<1>2. TokensExact'
  <2> SUFFICES ASSUME NEW j \in made
               PROVE  /\ tokens'[j] + Cardinality(Holders(j)') = PoolSize
                      /\ active'[j] = Cardinality(InUse(j)')
    BY <1>1 DEF TokensExact
  <2>1. j \in Keys /\ tokens[j] \in Nat /\ active[j] \in Nat /\ PoolSize \in Nat
    BY <1>1, PoolAssumption DEF TypeOK
  <2>2. tokens[j] + Cardinality(Holders(j)) = PoolSize /\ active[j] = Cardinality(InUse(j))
    BY DEF TokensExact
  <2>3. /\ Cardinality(Holders(j)) \in Nat /\ Cardinality(InUse(j)) \in Nat
        /\ Cardinality(Holders(j)') = Cardinality(Holders(j))
             + One(k = j /\ l \in WithToken) - One(k = j /\ pc[w] \in WithToken)
        /\ Cardinality(InUse(j)') = Cardinality(InUse(j))
             + One(k = j /\ l \in Using) - One(k = j /\ pc[w] \in Using)
    BY <2>1, Recount
  <2>4. CASE j = k
    <3>1. /\ tokens'[j] = tokens[j] - One(l \in WithToken) + One(pc[w] \in WithToken)
          /\ active'[j] = active[j] + One(l \in Using) - One(pc[w] \in Using)
      BY <2>4 DEF Balanced
    <3>2. /\ Cardinality(Holders(j)') =
               Cardinality(Holders(j)) + One(l \in WithToken) - One(pc[w] \in WithToken)
          /\ Cardinality(InUse(j)') = Cardinality(InUse(j)) + One(l \in Using) - One(pc[w] \in Using)
      BY <2>3, <2>4 DEF One
    <3>3. /\ One(l \in WithToken) \in Int /\ One(pc[w] \in WithToken) \in Int
          /\ One(l \in Using) \in Int /\ One(pc[w] \in Using) \in Int
      BY DEF One
    <3> HIDE DEF k
    <3> QED BY <2>1, <2>2, <2>3, <3>1, <3>2, <3>3
  <2>5. CASE j # k
    BY <2>1, <2>2, <2>3, <2>5 DEF Balanced, One
  <2> QED BY <2>4, <2>5
<1>3. ConnectionLimit'
  BY <1>1 DEF ConnectionLimit, Balanced
<1>4. Looked'
  BY <1>1 DEF Looked, TypeOK, Pcs
<1>5. Unmade'
  BY <1>1 DEF Unmade, Balanced
<1>6. ASSUME NEW j \in Keys PROVE active'[j] \in 0 .. PoolSize
  <2>1. active'[j] \in Int /\ PoolSize \in Nat /\ idle'[j] \in Seq(Conns)
    BY PoolAssumption DEF Balanced
  <2>2. active'[j] <= PoolSize
    BY <1>3, <2>1 DEF ConnectionLimit
  <2>3. active'[j] >= 0
    <3>1. CASE j # k
      BY <3>1 DEF TypeOK, Balanced
    <3>2. CASE j = k
      <4>1. active[k] \in Nat /\ active[k] = Cardinality(InUse(k))
        BY <1>1 DEF TypeOK, TokensExact
      <4>2. pc[w] \in Using => active[k] >= 1
        BY <1>1, <4>1, InUseHolds
      <4> QED BY <3>2, <4>1, <4>2, <1>1 DEF Balanced, One
    <3> QED BY <3>1, <3>2
  <2> QED BY <2>1, <2>2, <2>3
<1>7. active' \in [Keys -> 0 .. PoolSize]
  BY <1>6 DEF Balanced
<1> QED BY <1>2, <1>3, <1>4, <1>5, <1>7

\* Steps that leave the pools and both counts alone.
LEMMA OutsideKeeps ==
  ASSUME CountInv, UNCHANGED poolVars, Looked',
         \A k \in Keys : Holders(k)' = Holders(k) /\ InUse(k)' = InUse(k)
  PROVE  Unmade' /\ TokensExact' /\ ConnectionLimit'
<1>1. made \subseteq Keys
  BY DEF CountInv, TypeOK
<1> QED BY <1>1 DEF CountInv, Unmade, TokensExact, ConnectionLimit, poolVars

\* The types of what the counting does not look at.
OtherTypes ==
  /\ made \subseteq Keys /\ open \subseteq Conns /\ stale \subseteq open
  /\ tokens \in [Keys -> 0..PoolSize] /\ idle \in [Keys -> Seq(Conns)]
  /\ pc \in [Workers -> Pcs] /\ key \in [Workers -> Keys]
  /\ conn \in [Workers -> Conns \union {NoConn}]
  /\ attempt \in [Workers -> {1, 2}] /\ fresh \in [Workers -> BOOLEAN]
  /\ lists \in [Workers -> 0..MaxLists]
  /\ ctxDone \in BOOLEAN /\ closed \in BOOLEAN

\* A listing holds a connection exactly while it lists.
Holding == \A w \in Workers : conn[w] # NoConn <=> pc[w] = "list"

\* A move between two places with a pool behind it.
LEMMA WorkerCounts ==
  ASSUME CountInv, Holding, NEW w \in Workers,
         Acquire(w) \/ PickIdle(w) \/ PickNew(w) \/ Dial(w) \/ DialFailed(w)
           \/ ReleaseToken(w) \/ Put(w) \/ ListFailed(w) \/ Discard(w)
           \/ (GiveUp(w) /\ pc[w] = "acquire")
  PROVE  CountInv'
<1> DEFINE k == key[w]
<1> USE DEF CountInv
<1>1. /\ k \in Keys /\ k \in made /\ PoolSize \in Nat \ {0} /\ MaxLists \in Nat
      /\ pc[w] \in Pcs
  BY PoolAssumption DEF Looked, TypeOK, GiveUp, Acquire, PickIdle, PickNew, Dial, DialFailed,
     ReleaseToken, Put, ListFailed, Discard
<1>2. /\ tokens[k] \in 0 .. PoolSize /\ active[k] \in 0 .. PoolSize /\ idle[k] \in Seq(Conns)
      /\ Len(idle[k]) \in Nat /\ Len(idle[k]) + active[k] <= PoolSize
  BY <1>1 DEF TypeOK, ConnectionLimit
<1>3. /\ tokens[k] + Cardinality(Holders(k)) = PoolSize /\ active[k] = Cardinality(InUse(k))
  BY <1>1 DEF TokensExact
<1>4. /\ Cardinality(Holders(k)) \in Nat /\ Cardinality(InUse(k)) \in Nat
      /\ pc[w] \in WithToken => Cardinality(Holders(k)) >= 1
      /\ pc[w] \in Using => Cardinality(InUse(k)) >= 1
      /\ pc[w] = "pick" => Cardinality(InUse(k)) < Cardinality(Holders(k))
  BY <1>1, InUseHolds
<1> SUFFICES OtherTypes' /\ active' \in [Keys -> 0 .. PoolSize]
               /\ Looked' /\ Unmade' /\ TokensExact' /\ ConnectionLimit'
  BY DEF OtherTypes, TypeOK
<1> USE DEF TypeOK, OtherTypes, Pcs, callVars, poolVars, Goto, TokenBack
<1>5. CASE GiveUp(w) /\ pc[w] = "acquire"
  <2>1. Balanced(w, "idle")
    BY <1>1, <1>2, <1>5 DEF GiveUp, Balanced, One, WithToken, Using
  <2> QED BY <1>5, <2>1, BalancedKeeps DEF GiveUp
<1>6. CASE Acquire(w)
  <2>1. Balanced(w, "pick")
    BY <1>1, <1>2, <1>6 DEF Acquire, Balanced, One, WithToken, Using
  <2> QED BY <1>6, <2>1, BalancedKeeps DEF Acquire, Balanced
<1>7. CASE PickIdle(w)
  <2>1. /\ SubSeq(idle[k], 1, Len(idle[k]) - 1) \in Seq(Conns)
        /\ Len(SubSeq(idle[k], 1, Len(idle[k]) - 1)) = Len(idle[k]) - 1
        /\ idle[k][Len(idle[k])] \in Conns
    BY <1>2, <1>7 DEF PickIdle
  <2>2. Balanced(w, "list")
    BY <1>1, <1>2, <1>7, <2>1 DEF PickIdle, Balanced, One, WithToken, Using
  <2>3. OtherTypes'
    BY <1>1, <1>7, <2>1, <2>2 DEF PickIdle, Balanced
  <2> QED BY <1>7, <2>2, <2>3, BalancedKeeps DEF PickIdle
<1>8. CASE PickNew(w)
  <2>1. Len(idle[k]) = 0 /\ active[k] < PoolSize
    BY <1>2, <1>3, <1>4, <1>8 DEF PickNew
  <2>2. Balanced(w, "dial")
    BY <1>1, <1>2, <1>8, <2>1 DEF PickNew, Balanced, One, WithToken, Using
  <2> QED BY <1>8, <2>2, BalancedKeeps DEF PickNew
<1>9. CASE Dial(w)
  <2>1. Balanced(w, "list")
    BY <1>1, <1>2, <1>9 DEF Dial, Balanced, One, WithToken, Using
  <2>2. OtherTypes'
    BY <1>9 DEF Dial
  <2> QED BY <1>9, <2>1, <2>2, BalancedKeeps DEF Dial
<1>10. CASE DialFailed(w)
  <2>1. Balanced(w, "failed")
    BY <1>1, <1>2, <1>10 DEF DialFailed, Balanced, One, WithToken, Using
  <2> QED BY <1>10, <2>1, BalancedKeeps DEF DialFailed
<1>11. CASE ReleaseToken(w)
  <2>1. PICK l \in {"lookup", "idle"} : pc' = [pc EXCEPT ![w] = l]
    BY <1>11 DEF ReleaseToken
  <2>2. /\ pc[w] \in {"failed", "dropped"}
        /\ tokens' = [tokens EXCEPT ![k] = IF @ < PoolSize THEN @ + 1 ELSE @]
        /\ attempt' \in [Workers -> {1, 2}]
        /\ UNCHANGED <<made, idle, active, key, lists, conn, fresh, open, stale, ctxDone, closed>>
    BY <1>11 DEF ReleaseToken
  <2>3. tokens[k] < PoolSize
    BY <1>1, <1>2, <1>3, <1>4, <2>2 DEF WithToken
  <2>4. Balanced(w, l)
    BY <1>1, <1>2, <2>1, <2>2, <2>3 DEF Balanced, One, WithToken, Using
  <2>5. OtherTypes'
    BY <2>1, <2>2, <2>4 DEF Balanced
  <2>6. l \in Pcs /\ pc[w] # "idle"
    BY <2>2
  <2>7. /\ active' \in [Keys -> 0 .. PoolSize]
        /\ Looked' /\ Unmade' /\ TokensExact' /\ ConnectionLimit'
    <3> HIDE DEF CountInv, TypeOK, Balanced, k
    <3> QED BY <2>1, <2>2, <2>4, <2>6, BalancedKeeps
  <2> QED BY <2>5, <2>7
<1>12. CASE Put(w)
  <2>0. pc[w] = "list"
    BY <1>12 DEF Put
  <2>1. tokens' = [tokens EXCEPT ![k] = IF @ < PoolSize THEN @ + 1 ELSE @] /\ tokens[k] < PoolSize
    BY <1>1, <1>2, <1>3, <1>4, <1>12, <2>0 DEF Put, WithToken
  <2>2. conn[w] \in Conns
    BY <1>12 DEF Put, Holding
  <2>3. /\ Append(idle[k], conn[w]) \in Seq(Conns)
        /\ Len(Append(idle[k], conn[w])) = Len(idle[k]) + 1
    BY <1>2, <2>2
  <2>4. Balanced(w, "idle")
    BY <1>1, <1>2, <1>12, <2>1, <2>3 DEF Put, Balanced, One, WithToken, Using
  <2>5. OtherTypes'
    BY <1>12, <2>4 DEF Put, Balanced
  <2> QED BY <1>12, <2>4, <2>5, BalancedKeeps DEF Put
<1>13. CASE ListFailed(w)
  <2>1. Balanced(w, "discard")
    BY <1>1, <1>2, <1>13 DEF ListFailed, Balanced, One, WithToken, Using
  <2> QED BY <1>13, <2>1, BalancedKeeps DEF ListFailed
<1>14. CASE Discard(w)
  <2>1. Balanced(w, "dropped")
    BY <1>1, <1>2, <1>14 DEF Discard, Balanced, One, WithToken, Using
  <2> QED BY <1>14, <2>1, BalancedKeeps DEF Discard
<1> QED BY <1>5, <1>6, <1>7, <1>8, <1>9, <1>10, <1>11, <1>12, <1>13, <1>14

\* The first two steps of a listing, and giving up before there is a pool.
LEMMA LookupCounts ==
  ASSUME CountInv, NEW w \in Workers, Begin(w) \/ Lookup(w) \/ (GiveUp(w) /\ pc[w] = "lookup")
  PROVE  CountInv'
<1> USE DEF CountInv
<1>1. CASE Begin(w) \/ (GiveUp(w) /\ pc[w] = "lookup")
  <2>1. /\ pc[w] \in {"idle", "lookup"} /\ UNCHANGED poolVars
        /\ \E l \in {"idle", "lookup"} : pc' = [pc EXCEPT ![w] = l]
        /\ \A v \in Workers \ {w} : key'[v] = key[v] /\ pc'[v] = pc[v]
        /\ closed' => pc'[w] = "idle"
    <3>1. CASE Begin(w)
      BY <3>1 DEF Begin, Goto, TypeOK, poolVars
    <3>2. CASE GiveUp(w) /\ pc[w] = "lookup"
      BY <3>2 DEF GiveUp, Goto, TypeOK, poolVars, callVars
    <3> QED BY <1>1, <3>1, <3>2
  <2>2. pc'[w] \in {"idle", "lookup"}
    BY <2>1 DEF TypeOK
  <2>3. Looked'
    BY <1>1, <2>1, <2>2 DEF Looked, Begin, GiveUp, poolVars, callVars
  <2>4. ASSUME NEW k \in Keys PROVE Holders(k)' = Holders(k) /\ InUse(k)' = InUse(k)
    BY <2>1, <2>2 DEF Holders, InUse
  <2>5. Unmade' /\ TokensExact' /\ ConnectionLimit'
    BY <2>1, <2>3, <2>4, OutsideKeeps
  <2>6. TypeOK'
    <3>1. CASE Begin(w)
      <4>1. lists[w] + 1 \in 0 .. MaxLists
        BY <3>1, PoolAssumption DEF Begin, TypeOK
      <4> QED BY <3>1, <4>1 DEF TypeOK, Begin, Goto, Pcs, poolVars
    <3>2. CASE GiveUp(w) /\ pc[w] = "lookup"
      BY <3>2 DEF TypeOK, GiveUp, Goto, Pcs, poolVars, callVars
    <3> QED BY <1>1, <3>1, <3>2
  <2> QED BY <2>3, <2>5, <2>6
<1>2. CASE Lookup(w)
  <2> DEFINE k == key[w]
  <2>1. k \in Keys /\ PoolSize \in Nat \ {0}
    BY PoolAssumption DEF TypeOK
  <2>2. TypeOK'
    BY <1>2, <2>1 DEF TypeOK, Lookup, Goto, Pcs, callVars
  <2>3. Looked' /\ Unmade' /\ ConnectionLimit'
    BY <1>2, <2>1 DEF TypeOK, Looked, Unmade, ConnectionLimit, Lookup, Goto, callVars
  <2>4. ASSUME NEW j \in Keys PROVE Holders(j)' = Holders(j) /\ InUse(j)' = InUse(j)
    BY <1>2 DEF TypeOK, Lookup, Goto, Holders, InUse, callVars
  <2>5. ASSUME k \notin made PROVE Cardinality(Holders(k)) = 0 /\ Cardinality(InUse(k)) = 0
    <3>1. Holders(k) = {} /\ InUse(k) = {}
      BY <2>5 DEF Looked, Holders, InUse
    <3> QED BY <3>1, FS_EmptySet
  <2>6. TokensExact'
    <3> SUFFICES ASSUME NEW j \in made \union {k}
                 PROVE  /\ tokens'[j] + Cardinality(Holders(j)) = PoolSize
                        /\ active[j] = Cardinality(InUse(j))
      BY <1>2, <2>1, <2>4 DEF TypeOK, TokensExact, Lookup
    <3>1. CASE j \in made
      BY <1>2, <2>1, <3>1 DEF TypeOK, TokensExact, Lookup
    <3>2. CASE j \notin made
      <4>1. j = k /\ active[j] = 0
        BY <2>1, <3>2 DEF Unmade
      <4>2. tokens'[j] = PoolSize
        BY <1>2, <2>1, <3>2, <4>1 DEF TypeOK, Lookup
      <4> QED BY <2>1, <2>5, <3>2, <4>1, <4>2
    <3> QED BY <3>1, <3>2
  <2> QED BY <2>2, <2>3, <2>6
<1> QED BY <1>1, <1>2

\* Exactly the listing workers keep a connection.
LEMMA HoldingKept ==
  ASSUME TypeOK, Holding, [Next]_vars
  PROVE  Holding'
<1> USE PoolAssumption DEF TypeOK, Holding, Goto
<1>1. ASSUME NEW w \in Workers, Begin(w) \/ ListStep(w) PROVE Holding'
  <2>1. CASE PickIdle(w)
    <3>1. idle[key[w]] \in Seq(Conns) /\ idle[key[w]] # <<>>
      BY <2>1 DEF PickIdle
    <3>2. idle[key[w]][Len(idle[key[w]])] \in Conns
      BY <3>1
    <3> QED BY <2>1, <3>2 DEF PickIdle
  <2>2. CASE Begin(w) \/ Lookup(w) \/ GiveUp(w) \/ Acquire(w) \/ PickNew(w)
    BY <2>2 DEF Begin, Lookup, GiveUp, Acquire, PickNew
  <2>3. CASE Dial(w) \/ DialFailed(w) \/ ReleaseToken(w)
    BY <2>3 DEF Dial, DialFailed, ReleaseToken
  <2>4. CASE Put(w) \/ ListFailed(w) \/ Discard(w)
    BY <2>4 DEF Put, ListFailed, Discard
  <2> QED BY <1>1, <2>1, <2>2, <2>3, <2>4 DEF ListStep
<1>2. CASE CloseAll \/ ServerDrops \/ Cancel \/ Terminated \/ UNCHANGED vars
  BY <1>2 DEF CloseAll, ServerDrops, Cancel, Terminated, vars
<1> QED BY <1>1, <1>2 DEF Next

\* The counting invariant is inductive.
LEMMA CountsKept ==
  ASSUME CountInv, Holding, [Next]_vars
  PROVE  CountInv'
<1>1. ASSUME NEW w \in Workers, Begin(w) \/ ListStep(w) PROVE CountInv'
  <2>1. GiveUp(w) => pc[w] = "lookup" \/ pc[w] = "acquire"
    BY DEF GiveUp
  <2> QED BY <1>1, <2>1, LookupCounts, WorkerCounts DEF ListStep
<1>2. CASE CloseAll
  <2>1. \A k \in Keys : Holders(k)' = Holders(k) /\ InUse(k)' = InUse(k) /\ InUse(k) = {}
    BY <1>2 DEF CloseAll, callVars, Holders, InUse
  <2>2. \A k \in Keys : active[k] = 0
    BY <2>1, FS_EmptySet DEF CountInv, TokensExact, Unmade
  <2>3. TypeOK' /\ Looked' /\ TokensExact'
    BY <1>2 DEF CloseAll, CountInv, TypeOK, Looked, TokensExact, callVars
  <2>4. Unmade' /\ ConnectionLimit'
    BY <1>2, <2>2, PoolAssumption DEF CloseAll, Unmade, ConnectionLimit
  <2> QED BY <2>3, <2>4 DEF CountInv
<1>3. CASE ServerDrops \/ Cancel \/ Terminated \/ UNCHANGED vars
  <2>1. UNCHANGED <<poolVars, pc, callVars, closed>>
    BY <1>3 DEF ServerDrops, Cancel, Terminated, vars, poolVars, callVars
  <2>2. \A k \in Keys : Holders(k)' = Holders(k) /\ InUse(k)' = InUse(k)
    BY <2>1 DEF Holders, InUse, callVars
  <2>3. Looked'
    BY <2>1 DEF CountInv, Looked, poolVars, callVars
  <2>4. TypeOK'
    BY <1>3 DEF ServerDrops, Cancel, Terminated, vars, poolVars, callVars, CountInv, TypeOK
  <2>5. UNCHANGED poolVars
    BY <2>1
  <2> QED BY <2>2, <2>3, <2>4, <2>5, OutsideKeeps DEF CountInv
<1> QED BY <1>1, <1>2, <1>3 DEF Next

\* The counting invariant holds at the start.
LEMMA CountsInitially == Init => CountInv /\ Holding
<1> SUFFICES ASSUME Init PROVE CountInv /\ Holding
  OBVIOUS
<1>1. TypeOK
  <2>1. PoolSize \in Nat /\ MaxLists \in Nat /\ 0 \in 0 .. PoolSize /\ 0 \in 0 .. MaxLists
    BY PoolAssumption
  <2>2. (CHOOSE k \in Keys : TRUE) \in Keys
    BY PoolAssumption
  <2>3. <<>> \in Seq(Conns) /\ "idle" \in Pcs
    BY DEF Pcs
  <2>4. /\ made = {} /\ open = {} /\ stale = {} /\ ctxDone = FALSE /\ closed = FALSE
        /\ tokens \in [Keys -> 0 .. PoolSize] /\ active \in [Keys -> 0 .. PoolSize]
        /\ idle \in [Keys -> Seq(Conns)]
    BY <2>1, <2>3 DEF Init
  <2>5. /\ pc \in [Workers -> Pcs] /\ key \in [Workers -> Keys]
        /\ conn \in [Workers -> Conns \union {NoConn}] /\ attempt \in [Workers -> {1, 2}]
        /\ fresh \in [Workers -> BOOLEAN] /\ lists \in [Workers -> 0 .. MaxLists]
    BY <2>1, <2>2, <2>3 DEF Init
  <2> QED BY <2>4, <2>5 DEF TypeOK
<1>2. Looked /\ Unmade /\ TokensExact /\ Holding
  BY DEF Init, Looked, Unmade, TokensExact, Holding
<1>3. ConnectionLimit
  BY PoolAssumption DEF Init, ConnectionLimit
<1> QED BY <1>1, <1>2, <1>3 DEF CountInv

\* The counting invariant is inductive.
THEOREM CountingInductive == Spec => [](CountInv /\ Holding)
<1>1. CountInv /\ Holding /\ [Next]_vars => (CountInv /\ Holding)'
  BY CountsKept, HoldingKept DEF CountInv
<1> QED BY <1>1, CountsInitially, PTL DEF Spec

\* Every variable keeps its type; no counter leaves its range.
THEOREM TypeCorrect == Spec => []TypeOK
<1>1. CountInv => TypeOK
  BY DEF CountInv
<1> QED BY <1>1, CountingInductive, PTL

\* ftpConnPool.get, put and discard neither lose nor invent a token, and the pool's
\* count of active connections is that of its callers.
THEOREM TokensAccounted == Spec => []TokensExact
<1>1. CountInv => TokensExact
  BY DEF CountInv
<1> QED BY <1>1, CountingInductive, PTL

\* A server sees no more than ftpPoolSize() connections, idle or in use.
THEOREM LimitHolds == Spec => []ConnectionLimit
<1>1. CountInv => ConnectionLimit
  BY DEF CountInv
<1> QED BY <1>1, CountingInductive, PTL

-----------------------------------------------------------------------------
\* No two places for one connection.
OwnedOnce ==
  /\ \A j, k \in Keys : \A a \in 1 .. Len(idle[j]), b \in 1 .. Len(idle[k]) :
       idle[j][a] = idle[k][b] => j = k /\ a = b
  /\ \A w \in Workers : conn[w] # NoConn =>
       \A k \in Keys : \A i \in 1 .. Len(idle[k]) : idle[k][i] # conn[w]
  /\ \A v, w \in Workers : conn[w] # NoConn /\ conn[v] = conn[w] => v = w

\* What is idle or held is open, and nothing else is.
NoOrphan ==
  /\ \A k \in Keys : \A i \in 1 .. Len(idle[k]) : idle[k][i] \in open
  /\ \A w \in Workers : conn[w] # NoConn => conn[w] \in open
  /\ \A c \in open : \/ \E k \in Keys : \E i \in 1 .. Len(idle[k]) : idle[k][i] = c
                     \/ \E w \in Workers : conn[w] = c
  /\ closed => open = {}

OwnerInv == OwnedOnce /\ NoOrphan

\* The invariant of the owners is inductive over the counts.
LEMMA OwnersKept ==
  ASSUME CountInv, Holding, OwnerInv, [Next]_vars
  PROVE  OwnerInv'
<1> USE DEF OwnerInv
<1>1. TypeOK /\ Looked /\ Unmade
  BY DEF CountInv
<1>2. ASSUME UNCHANGED <<idle, conn, open, closed>> PROVE OwnerInv'
  BY <1>2 DEF OwnedOnce, NoOrphan
<1>3. ASSUME NEW w \in Workers, Begin(w) \/ ListStep(w) PROVE OwnerInv'
  <2> DEFINE k == key[w]
  <2>1. k \in Keys /\ idle[k] \in Seq(Conns) /\ NoConn \notin Conns /\ conn[w] \in Conns \union {NoConn}
    BY <1>1, PoolAssumption DEF TypeOK
  <2>2. pc[w] # "idle" => ~closed
    BY <1>1 DEF Looked
  <2>3. CASE PickIdle(w)
    <3> DEFINE n == Len(idle[k])
               c == idle[k][n]
    <3>1. n \in Nat \ {0} /\ c \in Conns
      BY <2>1, <2>3 DEF PickIdle
    <3>2. /\ conn' = [conn EXCEPT ![w] = c] /\ UNCHANGED <<open, closed>>
          /\ idle' = [idle EXCEPT ![k] = SubSeq(idle[k], 1, n - 1)]
      BY <2>3 DEF PickIdle
    <3>3. \A j \in Keys : /\ Len(idle'[j]) = IF j = k THEN n - 1 ELSE Len(idle[j])
                          /\ \A a \in 1 .. Len(idle'[j]) : idle'[j][a] = idle[j][a]
      <4>1. /\ Len(SubSeq(idle[k], 1, n - 1)) = n - 1
            /\ \A a \in 1 .. n - 1 : SubSeq(idle[k], 1, n - 1)[a] = idle[k][a]
        BY <2>1, <3>1
      <4>2. \A j \in Keys : idle'[j] = IF j = k THEN SubSeq(idle[k], 1, n - 1) ELSE idle[j]
        BY <1>1, <3>2 DEF TypeOK
      <4>3. ASSUME NEW j \in Keys
            PROVE  /\ Len(idle'[j]) = IF j = k THEN n - 1 ELSE Len(idle[j])
                   /\ \A a \in 1 .. Len(idle'[j]) : idle'[j][a] = idle[j][a]
        <5>1. CASE j = k
          <6>1. Len(idle'[j]) = n - 1 /\ idle'[j] = SubSeq(idle[k], 1, n - 1)
            BY <4>1, <4>2, <5>1
          <6> QED BY <4>1, <5>1, <6>1
        <5>2. CASE j # k
          <6>1. idle'[j] = idle[j]
            BY <4>2, <5>2
          <6> QED BY <5>2, <6>1
        <5> QED BY <5>1, <5>2
      <4> QED BY <4>3
    <3>4. \A j \in Keys : Len(idle[j]) \in Nat /\ 1 .. Len(idle'[j]) \subseteq 1 .. Len(idle[j])
      <4>1. \A j \in Keys : Len(idle[j]) \in Nat
        BY <1>1 DEF TypeOK
      <4>2. \A j \in Keys : Len(idle'[j]) \in Int /\ Len(idle'[j]) <= Len(idle[j])
        BY <3>1, <3>3, <4>1
      <4> QED BY <4>1, <4>2
    <3>5. \A v \in Workers : conn'[v] = IF v = w THEN c ELSE conn[v]
      BY <1>1, <3>2 DEF TypeOK
    <3>6. \A j \in Keys : \A a \in 1 .. Len(idle'[j]) : idle'[j][a] # c
      BY <2>1, <3>1, <3>3, <3>4 DEF OwnedOnce
    <3>7. \A v \in Workers : conn[v] # NoConn => conn[v] # c
      BY <2>1, <3>1 DEF OwnedOnce
    <3>8. OwnedOnce'
      <4>1. \A i, j \in Keys : \A a \in 1 .. Len(idle'[i]), b \in 1 .. Len(idle'[j]) :
              idle'[i][a] = idle'[j][b] => i = j /\ a = b
        BY <3>3, <3>4 DEF OwnedOnce
      <4>2. \A v \in Workers : conn'[v] # NoConn =>
              \A j \in Keys : \A i \in 1 .. Len(idle'[j]) : idle'[j][i] # conn'[v]
        BY <3>3, <3>4, <3>5, <3>6 DEF OwnedOnce
      <4>3. \A u, v \in Workers : conn'[v] # NoConn /\ conn'[u] = conn'[v] => u = v
        BY <2>1, <3>1, <3>5, <3>7 DEF OwnedOnce
      <4> QED BY <4>1, <4>2, <4>3 DEF OwnedOnce
    <3>9. NoOrphan'
      <4>1. ASSUME NEW x \in open
            PROVE  \/ \E j \in Keys : \E i \in 1 .. Len(idle'[j]) : idle'[j][i] = x
                   \/ \E v \in Workers : conn'[v] = x
        <5>1. CASE x = c
          BY <3>5, <5>1
        <5>2. CASE x # c /\ \E j \in Keys : \E i \in 1 .. Len(idle[j]) : idle[j][i] = x
          <6>0. PICK j \in Keys : \E i \in 1 .. Len(idle[j]) : idle[j][i] = x
            BY <5>2
          <6>1. PICK i \in 1 .. Len(idle[j]) : idle[j][i] = x
            BY <6>0
          <6>2. i \in 1 .. Len(idle'[j])
            BY <3>1, <3>3, <3>4, <5>2, <6>1
          <6> QED BY <3>3, <6>1, <6>2
        <5>3. CASE \E v \in Workers : conn[v] = x
          <6>1. PICK v \in Workers : conn[v] = x
            BY <5>3
          <6>2. x # NoConn
            BY <1>1, PoolAssumption DEF TypeOK
          <6>3. conn[w] = NoConn
            BY <2>3 DEF Holding, PickIdle
          <6> QED BY <3>5, <6>1, <6>2, <6>3
        <5> QED BY <5>1, <5>2, <5>3 DEF NoOrphan
      <4>2. c \in open /\ ~closed
        BY <2>1, <2>2, <2>3, <3>1 DEF NoOrphan, PickIdle
      <4> QED BY <3>2, <3>3, <3>4, <3>5, <4>1, <4>2 DEF NoOrphan
    <3> QED BY <3>8, <3>9
  <2>4. CASE Dial(w)
    <3>1. PICK c \in Conns \ open : conn' = [conn EXCEPT ![w] = c] /\ open' = open \union {c}
      BY <2>4 DEF Dial
    <3>2. UNCHANGED <<idle, closed>> /\ ~closed /\ c # NoConn /\ conn[w] = NoConn
      BY <2>1, <2>2, <2>4 DEF Dial, poolVars, Holding
    <3>3. \A v \in Workers : conn'[v] = IF v = w THEN c ELSE conn[v]
      BY <1>1, <3>1 DEF TypeOK
    <3>4. \A v \in Workers : conn[v] # NoConn => conn[v] # c
      BY <3>1 DEF NoOrphan
    <3>5. OwnedOnce'
      BY <3>1, <3>2, <3>3, <3>4 DEF OwnedOnce, NoOrphan
    <3>6. NoOrphan'
      <4>1. ASSUME NEW x \in open
            PROVE  \/ \E j \in Keys : \E i \in 1 .. Len(idle[j]) : idle[j][i] = x
                   \/ \E v \in Workers : conn'[v] = x
        <5>1. x # NoConn
          BY <1>1, <2>1 DEF TypeOK
        <5> QED BY <3>2, <3>3, <5>1 DEF NoOrphan
      <4> QED BY <3>1, <3>2, <3>3, <4>1 DEF NoOrphan
    <3> QED BY <3>5, <3>6
  <2>5. CASE Put(w)
    <3> DEFINE n == Len(idle[k])
               c == conn[w]
    <3>1. n \in Nat /\ c \in Conns /\ c # NoConn
      BY <2>1, <2>5 DEF Put, Holding
    <3>2. /\ conn' = [conn EXCEPT ![w] = NoConn] /\ UNCHANGED <<open, closed>>
          /\ idle' = [idle EXCEPT ![k] = Append(idle[k], c)]
      BY <2>5 DEF Put
    <3>3. \A j \in Keys : /\ Len(idle[j]) \in Nat
                          /\ Len(idle'[j]) = IF j = k THEN n + 1 ELSE Len(idle[j])
                          /\ \A a \in 1 .. Len(idle[j]) : idle'[j][a] = idle[j][a]
      BY <1>1, <2>1, <3>1, <3>2 DEF TypeOK
    <3>4. idle'[k][n + 1] = c
      BY <1>1, <2>1, <3>1, <3>2 DEF TypeOK
    <3>5. \A j \in Keys : \A a \in 1 .. Len(idle'[j]) :
            a \in 1 .. Len(idle[j]) \/ (j = k /\ a = n + 1)
      BY <3>1, <3>3
    <3>6. \A v \in Workers : conn'[v] = IF v = w THEN NoConn ELSE conn[v]
      BY <1>1, <3>2 DEF TypeOK
    <3>7. \A j \in Keys : \A a \in 1 .. Len(idle[j]) : idle[j][a] # c
      BY <3>1 DEF OwnedOnce
    <3>8. OwnedOnce'
      <4>1. \A i, j \in Keys : \A a \in 1 .. Len(idle'[i]), b \in 1 .. Len(idle'[j]) :
              idle'[i][a] = idle'[j][b] => i = j /\ a = b
        BY <3>3, <3>4, <3>5, <3>7 DEF OwnedOnce
      <4>2. \A v \in Workers : conn'[v] # NoConn =>
              \A j \in Keys : \A i \in 1 .. Len(idle'[j]) : idle'[j][i] # conn'[v]
        BY <3>1, <3>3, <3>4, <3>5, <3>6 DEF OwnedOnce
      <4>3. \A u, v \in Workers : conn'[v] # NoConn /\ conn'[u] = conn'[v] => u = v
        BY <3>6 DEF OwnedOnce
      <4> QED BY <4>1, <4>2, <4>3 DEF OwnedOnce
    <3>9. NoOrphan'
      <4>1. ASSUME NEW x \in open
            PROVE  \/ \E j \in Keys : \E i \in 1 .. Len(idle'[j]) : idle'[j][i] = x
                   \/ \E v \in Workers : conn'[v] = x
        <5>1. CASE x = c
          <6>1. n + 1 \in 1 .. Len(idle'[k])
            BY <2>1, <3>1, <3>3
          <6> QED BY <2>1, <3>4, <5>1, <6>1
        <5>2. CASE \E j \in Keys : \E i \in 1 .. Len(idle[j]) : idle[j][i] = x
          <6>0. PICK j \in Keys : \E i \in 1 .. Len(idle[j]) : idle[j][i] = x
            BY <5>2
          <6>1. PICK i \in 1 .. Len(idle[j]) : idle[j][i] = x
            BY <6>0
          <6>2. i \in 1 .. Len(idle'[j])
            BY <3>1, <3>3, <6>1
          <6> QED BY <3>3, <6>1, <6>2
        <5>3. CASE x # c /\ \E v \in Workers : conn[v] = x
          BY <3>6, <5>3
        <5> QED BY <5>1, <5>2, <5>3 DEF NoOrphan
      <4>2. \A j \in Keys : \A i \in 1 .. Len(idle'[j]) : idle'[j][i] \in open
        BY <3>1, <3>3, <3>4, <3>5 DEF NoOrphan
      <4> QED BY <3>2, <3>6, <4>1, <4>2 DEF NoOrphan
    <3> QED BY <3>8, <3>9
  <2>6. CASE ListFailed(w)
    <3> DEFINE c == conn[w]
    <3>1. c # NoConn /\ ~closed
      BY <2>2, <2>6 DEF ListFailed, Holding
    <3>2. /\ conn' = [conn EXCEPT ![w] = NoConn] /\ open' = open \ {c} /\ UNCHANGED <<idle, closed>>
      BY <2>6 DEF ListFailed, poolVars
    <3>3. \A v \in Workers : conn'[v] = IF v = w THEN NoConn ELSE conn[v]
      BY <1>1, <3>2 DEF TypeOK
    <3>4. OwnedOnce'
      BY <3>2, <3>3 DEF OwnedOnce
    <3>5. NoOrphan'
      BY <3>1, <3>2, <3>3 DEF NoOrphan, OwnedOnce
    <3> QED BY <3>4, <3>5
  <2>7. CASE Begin(w) \/ Lookup(w) \/ GiveUp(w) \/ Acquire(w) \/ PickNew(w) \/ DialFailed(w)
               \/ ReleaseToken(w) \/ Discard(w)
    BY <1>2, <2>7 DEF Begin, Lookup, GiveUp, Acquire, PickNew, DialFailed, ReleaseToken, Discard, poolVars
  <2> QED BY <1>3, <2>3, <2>4, <2>5, <2>6, <2>7 DEF ListStep
<1>4. CASE CloseAll
  <2>1. \A w \in Workers : conn[w] = NoConn
    BY <1>4 DEF CloseAll, Holding
  <2>2. \A x \in open : \E j \in made : \E i \in 1 .. Len(idle[j]) : idle[j][i] = x
    <3> SUFFICES ASSUME NEW x \in open
                 PROVE  \E j \in made : \E i \in 1 .. Len(idle[j]) : idle[j][i] = x
      OBVIOUS
    <3>1. x # NoConn
      BY <1>1, PoolAssumption DEF TypeOK
    <3>0. PICK j \in Keys : \E i \in 1 .. Len(idle[j]) : idle[j][i] = x
      BY <2>1, <3>1 DEF NoOrphan
    <3>2. PICK i \in 1 .. Len(idle[j]) : idle[j][i] = x
      BY <3>0
    <3>3. j \in made
      BY <1>1, <3>2 DEF Unmade
    <3> QED BY <3>2, <3>3
  <2>3. open' = {}
    BY <1>4, <2>2 DEF CloseAll
  <2>4. \A j \in Keys : 1 .. Len(idle'[j]) = {}
    BY <1>4 DEF CloseAll
  <2> QED BY <1>4, <2>1, <2>3, <2>4 DEF CloseAll, OwnedOnce, NoOrphan
<1>5. CASE ServerDrops \/ Cancel \/ Terminated \/ UNCHANGED vars
  BY <1>2, <1>5 DEF ServerDrops, Cancel, Terminated, vars, poolVars
<1> QED BY <1>3, <1>4, <1>5 DEF Next

\* At the start there is no connection.
LEMMA OwnersInitially == Init => OwnerInv
BY DEF Init, OwnerInv, OwnedOnce, NoOrphan

\* The owners' invariant is inductive on top of the counting one.
THEOREM OwnersInductive == Spec => []OwnerInv
<1>1. OwnerInv /\ CountInv /\ Holding /\ [Next]_vars => OwnerInv'
  BY OwnersKept
<1> QED BY <1>1, OwnersInitially, CountingInductive, PTL DEF Spec

\* No connection is counted twice among the idle ones.
LEMMA IdleCount ==
  ASSUME TypeOK, OwnedOnce, NEW k \in Keys
  PROVE  Cardinality(Idle(k)) = Len(idle[k])
<1> DEFINE n == Len(idle[k])
           f == [i \in 1 .. n |-> idle[k][i]]
<1>1. n \in Nat
  BY DEF TypeOK
<1>2. f \in Bijection(1 .. n, Idle(k))
  <2>1. f \in [1 .. n -> Idle(k)]
    BY DEF Idle
  <2>2. \A i, j \in 1 .. n : f[i] = f[j] => i = j
    BY DEF OwnedOnce
  <2>3. \A c \in Idle(k) : \E i \in 1 .. n : f[i] = c
    BY DEF Idle
  <2> HIDE DEF f
  <2> QED BY <2>1, <2>2, <2>3 DEF Bijection, Injection, Surjection, IsInjective
<1>3. IsFiniteSet(1 .. n) /\ Cardinality(1 .. n) = n
  BY <1>1, FS_Interval
<1>4. Cardinality(Idle(k)) = Cardinality(1 .. n)
  BY <1>2, <1>3, FS_Bijection DEF ExistsBijection
<1> QED BY <1>3, <1>4

\* A connection is idle once in one pool or held by one worker: ftpConnPool.get and put
\* never hand it to two.
THEOREM OneOwner == Spec => []ExclusiveUse
<1>1. CountInv /\ OwnerInv => ExclusiveUse
  <2> SUFFICES ASSUME CountInv, OwnerInv PROVE ExclusiveUse
    OBVIOUS
  <2>1. \A k \in Keys : Cardinality(Idle(k)) = Len(idle[k])
    BY IdleCount DEF CountInv, OwnerInv
  <2>2. \A j, k \in Keys : j # k => Idle(j) \intersect Idle(k) = {}
    BY DEF OwnerInv, OwnedOnce, Idle
  <2>3. \A w \in Workers : conn[w] # NoConn =>
          /\ \A k \in Keys : conn[w] \notin Idle(k)
          /\ \A v \in Workers : conn[v] = conn[w] => v = w
    BY DEF OwnerInv, OwnedOnce, Idle
  <2> QED BY <2>1, <2>2, <2>3 DEF ExclusiveUse
<1> QED BY <1>1, CountingInductive, OwnersInductive, PTL

\* ftpConnCacheCloseAll leaves no connection open, whatever failed before.
THEOREM AllClosed == Spec => []NoneLeaked
<1>1. OwnerInv => NoneLeaked
  BY DEF OwnerInv, NoOrphan, NoneLeaked
<1> QED BY <1>1, OwnersInductive, PTL

=============================================================================
