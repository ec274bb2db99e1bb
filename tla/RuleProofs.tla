------------------------------ MODULE RuleProofs ------------------------------
(***************************************************************************)
(* Proofs about RuleNodes, for every workflow, every collection of rule    *)
(* sets and every meaning of their conditions: the loops of the evaluator  *)
(* find what the rule set decides as declared, every action was recorded   *)
(* before it was taken, and no packet is lost between rule nodes.          *)
(***************************************************************************)
EXTENDS RuleAnalysis, FiniteSetTheorems, TLAPS

(* A sequence of rules, as sort_by_key sees it.                            *)
Sortable(R) ==
  /\ Len(R) \in Nat /\ DOMAIN R = 1 .. Len(R)
  /\ \A i \in DOMAIN R : R[i].priority \in Nat

(* The rules of T in front of rule i; T has no two with as many.           *)
Front(R, T, i) == {j \in T : Before(R, j, i)}
At(R, T, k) == CHOOSE i \in T : Cardinality(Front(R, T, i)) = k - 1

(* The rules that the loop has passed when it is about to look at the one  *)
(* at position n, and what it has found among them.                        *)
Passed(R, n) == {i \in DOMAIN R : Cardinality(Front(R, DOMAIN R, i)) < n - 1}
Hits(rs, view, n) ==
  {i \in Passed(rs.rules, n) : Holds(rs.rules[i].cond, view) /\ IsTerminal(rs.rules[i].action)}
Tagged(rs, view, n) ==
  {i \in Passed(rs.rules, n) : Holds(rs.rules[i].cond, view) /\ ~IsTerminal(rs.rules[i].action)}

WellFormed(rs) ==
  /\ rs.strategy \in {"first_match", "all_matches", "score"}
  /\ Sortable(rs.rules)
  /\ \A i \in DOMAIN rs.rules : rs.rules[i].action # Nothing

(* The loop's variables s: the tags of the passed rules in order, no       *)
(* terminal match under FirstMatch, and under Score the first one.         *)
LoopInvariant(rs, view, s) ==
  /\ s.next \in 1 .. Len(rs.rules) + 1
  /\ s.tags = TagsOf(rs, Tagged(rs, view, s.next))
  /\ rs.strategy = "first_match" => Hits(rs, view, s.next) = {}
  /\ rs.strategy # "score" => s.best = Nothing
  /\ rs.strategy = "score" /\ Hits(rs, view, s.next) = {} => s.best = Nothing
  /\ rs.strategy = "score" /\ Hits(rs, view, s.next) # {} =>
       \E i \in Hits(rs, view, s.next) :
         /\ s.best = rs.rules[i].action
         /\ \A j \in Hits(rs, view, s.next) \ {i} : Before(rs.rules, i, j)

-----------------------------------------------------------------------------
(* Sorting *)

(* Priority and declaration order make a strict total order of the rules.  *)
LEMMA BeforeIsOrder ==
  ASSUME NEW R, Sortable(R), NEW i \in DOMAIN R, NEW j \in DOMAIN R, NEW k \in DOMAIN R
  PROVE  /\ ~Before(R, i, i)
         /\ Before(R, i, j) /\ Before(R, j, k) => Before(R, i, k)
         /\ i # j => Before(R, i, j) \/ Before(R, j, i)
         /\ ~(Before(R, i, j) /\ Before(R, j, i))
<1>1. /\ i \in Nat /\ j \in Nat /\ k \in Nat
      /\ R[i].priority \in Nat /\ R[j].priority \in Nat /\ R[k].priority \in Nat
  BY DEF Sortable
<1>2. QED
  BY <1>1 DEF Before

(* The number of rules in front is a bijection of T onto 0..|T|-1.         *)
LEMMA FrontCounts ==
  ASSUME NEW R, Sortable(R), NEW T \in SUBSET DOMAIN R
  PROVE  /\ IsFiniteSet(T) /\ Cardinality(T) \in Nat
         /\ \A i \in T : Cardinality(Front(R, T, i)) \in 0 .. Cardinality(T) - 1
         /\ \A i, j \in T : Before(R, i, j) =>
              Cardinality(Front(R, T, i)) < Cardinality(Front(R, T, j))
         /\ \A i, j \in T : Cardinality(Front(R, T, i)) = Cardinality(Front(R, T, j)) => i = j
         /\ \A k \in 1 .. Cardinality(T) : \E i \in T : Cardinality(Front(R, T, i)) = k - 1
<1>1. IsFiniteSet(T) /\ Cardinality(T) \in Nat
  <2>1. IsFiniteSet(1 .. Len(R))
    BY FS_Interval DEF Sortable
  <2>2. IsFiniteSet(T)
    BY <2>1, FS_Subset DEF Sortable
  <2>3. QED
    BY <2>2, FS_CardinalityType
<1>2. \A i \in T : IsFiniteSet(Front(R, T, i)) /\ Cardinality(Front(R, T, i)) \in Nat
  <2> SUFFICES ASSUME NEW i \in T
               PROVE  IsFiniteSet(Front(R, T, i)) /\ Cardinality(Front(R, T, i)) \in Nat
    OBVIOUS
  <2>1. Front(R, T, i) \in SUBSET T
    BY DEF Front
  <2>2. IsFiniteSet(Front(R, T, i))
    BY <1>1, <2>1, FS_Subset
  <2>3. QED
    BY <2>2, FS_CardinalityType
<1>3. ASSUME NEW i \in T PROVE Cardinality(Front(R, T, i)) \in 0 .. Cardinality(T) - 1
  <2>1. Front(R, T, i) \in SUBSET T /\ i \notin Front(R, T, i)
    BY BeforeIsOrder DEF Front
  <2>2. Cardinality(Front(R, T, i)) <= Cardinality(T) /\ Cardinality(T) # Cardinality(Front(R, T, i))
    BY <1>1, <2>1, FS_Subset
  <2>3. QED
    BY <1>1, <1>2, <2>2
<1>4. ASSUME NEW i \in T, NEW j \in T, Before(R, i, j)
      PROVE  Cardinality(Front(R, T, i)) < Cardinality(Front(R, T, j))
  <2>1. Front(R, T, i) \in SUBSET Front(R, T, j)
    BY <1>4, BeforeIsOrder DEF Front
  <2>2. i \in Front(R, T, j) /\ i \notin Front(R, T, i)
    BY <1>4, BeforeIsOrder DEF Front
  <2>3. /\ Cardinality(Front(R, T, i)) <= Cardinality(Front(R, T, j))
        /\ Cardinality(Front(R, T, j)) # Cardinality(Front(R, T, i))
    BY <1>2, <2>1, <2>2, FS_Subset
  <2>4. QED
    BY <1>2, <2>3
<1>5. ASSUME NEW i \in T, NEW j \in T,
             Cardinality(Front(R, T, i)) = Cardinality(Front(R, T, j)), i # j
      PROVE  FALSE
  <2>1. Before(R, i, j) \/ Before(R, j, i)
    BY <1>5, BeforeIsOrder
  <2>2. \/ Cardinality(Front(R, T, i)) < Cardinality(Front(R, T, j))
        \/ Cardinality(Front(R, T, j)) < Cardinality(Front(R, T, i))
    BY <1>4, <2>1
  <2>3. QED
    BY <1>2, <1>5, <2>2
<1>6. ASSUME NEW k \in 1 .. Cardinality(T) PROVE \E i \in T : Cardinality(Front(R, T, i)) = k - 1
  <2> DEFINE N == 0 .. Cardinality(T) - 1
             f == [i \in T |-> Cardinality(Front(R, T, i))]
  <2>1. f \in Injection(T, N)
    BY <1>3, <1>5 DEF Injection, IsInjective
  <2>2. IsFiniteSet(N) /\ Cardinality(N) = Cardinality(T)
    <3>1. PICK c \in Nat : c = Cardinality(T)
      BY <1>1
    <3>2. c - 1 \in Int /\ 0 \in Int
      OBVIOUS
    <3>3. /\ IsFiniteSet(0 .. c - 1)
          /\ Cardinality(0 .. c - 1) = IF 0 > c - 1 THEN 0 ELSE (c - 1) - 0 + 1
      BY <3>2, FS_Interval
    <3>4. Cardinality(0 .. c - 1) = c
      BY <3>3
    <3>5. QED
      BY <3>1, <3>3, <3>4
  <2>3. k - 1 \in N
    BY <1>1
  <2>4. f \in Surjection(T, N)
    <3> HIDE DEF f, N
    <3> QED
      BY <2>1, <2>2, FS_Injection
  <2>5. QED
    BY <2>3, <2>4 DEF Surjection
<1>7. QED
  BY <1>1, <1>3, <1>4, <1>5, <1>6

(* The rule at a position of the sorted set.                               *)
LEMMA AtIsRanked ==
  ASSUME NEW R, Sortable(R), NEW T \in SUBSET DOMAIN R
  PROVE  /\ \A k \in 1 .. Cardinality(T) :
              /\ At(R, T, k) \in T
              /\ Cardinality(Front(R, T, At(R, T, k))) = k - 1
         /\ \A i \in T : At(R, T, Cardinality(Front(R, T, i)) + 1) = i
<1>1. ASSUME NEW k \in 1 .. Cardinality(T)
      PROVE  At(R, T, k) \in T /\ Cardinality(Front(R, T, At(R, T, k))) = k - 1
  BY FrontCounts DEF At
<1>2. ASSUME NEW i \in T PROVE At(R, T, Cardinality(Front(R, T, i)) + 1) = i
  <2>1. PICK k : k = Cardinality(Front(R, T, i)) + 1
    OBVIOUS
  <2>2. k \in 1 .. Cardinality(T) /\ k - 1 = Cardinality(Front(R, T, i))
    <3>1. Cardinality(Front(R, T, i)) \in 0 .. Cardinality(T) - 1 /\ Cardinality(T) \in Nat
      BY FrontCounts
    <3>2. QED
      BY <2>1, <3>1
  <2>3. At(R, T, k) \in T /\ Cardinality(Front(R, T, At(R, T, k))) = Cardinality(Front(R, T, i))
    BY <1>1, <2>2
  <2>4. QED
    BY <2>1, <2>3, FrontCounts
<1>3. QED
  BY <1>1, <1>2

(* A rule behind all of T extends the sorted set at its end.               *)
LEMMA TagsAppend ==
  ASSUME NEW rs, Sortable(rs.rules), NEW T \in SUBSET DOMAIN rs.rules,
         NEW n \in DOMAIN rs.rules, \A i \in T : Before(rs.rules, i, n)
  PROVE  TagsOf(rs, T \cup {n}) = Append(TagsOf(rs, T), rs.rules[n].action.arg)
<1> DEFINE R == rs.rules
<1>1. PICK U : U = T \cup {n}
  OBVIOUS
<1>2. U \in SUBSET DOMAIN R /\ n \notin T
  BY <1>1, BeforeIsOrder
<1>3. PICK c \in Nat : c = Cardinality(T)
  BY FrontCounts
<1>4. Cardinality(U) = c + 1
  BY <1>1, <1>2, <1>3, FrontCounts, FS_AddElement
<1>5. \A i \in T : Front(R, U, i) = Front(R, T, i)
  BY <1>1, BeforeIsOrder DEF Front
<1>6. Front(R, U, n) = T
  BY <1>1, BeforeIsOrder DEF Front
<1>7. At(R, U, c + 1) = n
  <2>1. n \in U
    BY <1>1
  <2>2. At(R, U, Cardinality(Front(R, U, n)) + 1) = n
    BY <1>2, <2>1, AtIsRanked
  <2>3. QED
    BY <1>3, <1>6, <2>2
<1>8. ASSUME NEW k \in 1 .. c PROVE At(R, U, k) = At(R, T, k)
  <2>1. PICK i : i = At(R, T, k)
    OBVIOUS
  <2>2. i \in T /\ Cardinality(Front(R, T, i)) = k - 1
    BY <1>3, <2>1, AtIsRanked
  <2>3. i \in U /\ Cardinality(Front(R, U, i)) = k - 1
    BY <1>1, <1>5, <2>2
  <2>4. At(R, U, Cardinality(Front(R, U, i)) + 1) = i
    BY <1>2, <2>3, AtIsRanked
  <2>5. Cardinality(Front(R, U, i)) + 1 = k
    BY <2>3
  <2>6. QED
    BY <2>1, <2>4, <2>5
<1>9. /\ TagsOf(rs, T) = [k \in 1 .. c |-> R[At(R, T, k)].action.arg]
      /\ TagsOf(rs, U) = [k \in 1 .. c + 1 |-> R[At(R, U, k)].action.arg]
  BY <1>3, <1>4 DEF TagsOf, At, Front
<1>10. PICK f : f = TagsOf(rs, T)
  OBVIOUS
<1>11. PICK g : g = TagsOf(rs, U)
  OBVIOUS
<1>12. /\ f = [k \in 1 .. c |-> f[k]] /\ g = [k \in 1 .. c + 1 |-> g[k]]
       /\ \A k \in 1 .. c : f[k] = R[At(R, T, k)].action.arg
       /\ \A k \in 1 .. c + 1 : g[k] = R[At(R, U, k)].action.arg
  BY <1>9, <1>10, <1>11
<1>13. /\ \A k \in 1 .. c : g[k] = f[k]
       /\ g[c + 1] = R[n].action.arg
  BY <1>7, <1>8, <1>12
<1>14. g = Append(f, R[n].action.arg)
  <2>1. PICK S : S = {f[k] : k \in 1 .. c}
    OBVIOUS
  <2>2. PICK x : x = R[n].action.arg
    OBVIOUS
  <2>3. PICK W : W = S \cup {x}
    OBVIOUS
  <2>4. f \in Seq(W) /\ Len(f) = c /\ x \in W
    BY <1>12, <2>1, <2>3
  <2>5. PICK a : a = Append(f, x)
    OBVIOUS
  <2>6. /\ a \in Seq(W) /\ Len(a) = c + 1
        /\ \A k \in 1 .. c : a[k] = f[k]
        /\ a[c + 1] = x
    BY <2>4, <2>5
  <2>7. a = [k \in 1 .. c + 1 |-> a[k]]
    BY <2>6
  <2>8. \A k \in 1 .. c + 1 : g[k] = a[k]
    BY <1>13, <2>2, <2>6
  <2> HIDE DEF R
  <2>9. QED
    BY <1>12, <2>2, <2>5, <2>7, <2>8
<1>15. QED
  BY <1>1, <1>10, <1>11, <1>14

(* The sorted rules, position by position.                                 *)
LEMMA Sorted ==
  ASSUME NEW R, Sortable(R)
  PROVE  /\ Cardinality(DOMAIN R) = Len(R)
         /\ Len(SortedByPriority(R)) = Len(R)
         /\ \A k \in 1 .. Len(R) :
              /\ At(R, DOMAIN R, k) \in DOMAIN R
              /\ SortedByPriority(R)[k] = R[At(R, DOMAIN R, k)]
<1>1. Len(R) \in Nat /\ DOMAIN R = 1 .. Len(R)
  BY DEF Sortable
<1>2. Cardinality(DOMAIN R) = Len(R)
  <2>1. PICK c \in Nat : c = Len(R)
    BY <1>1
  <2>2. c \in Int /\ 1 \in Int
    OBVIOUS
  <2>3. Cardinality(1 .. c) = IF 1 > c THEN 0 ELSE c - 1 + 1
    BY <2>2, FS_Interval
  <2>4. QED
    BY <1>1, <2>1, <2>3
<1>3. SortedByPriority(R) = [k \in 1 .. Len(R) |-> R[At(R, DOMAIN R, k)]]
  BY <1>1 DEF SortedByPriority, At, Front
<1>4. Len(SortedByPriority(R)) = Len(R)
  BY <1>1, <1>3
<1>5. \A k \in 1 .. Len(R) : At(R, DOMAIN R, k) \in DOMAIN R
  BY <1>2, AtIsRanked
<1>6. QED
  BY <1>2, <1>3, <1>4, <1>5

(* The loop passes the rules one by one, in their order.                   *)
LEMMA PassedRules ==
  ASSUME NEW R, Sortable(R)
  PROVE  /\ Passed(R, 1) = {}
         /\ Passed(R, Len(R) + 1) = DOMAIN R
         /\ \A n \in 1 .. Len(R) :
              LET a == At(R, DOMAIN R, n) IN
                /\ a \in DOMAIN R /\ a \notin Passed(R, n)
                /\ Passed(R, n + 1) = Passed(R, n) \cup {a}
                /\ \A i \in Passed(R, n) : Before(R, i, a)
                /\ \A i \in DOMAIN R \ Passed(R, n + 1) : Before(R, a, i)
<1> DEFINE D == DOMAIN R
           F(i) == Cardinality(Front(R, D, i))
<1>1. Len(R) \in Nat /\ D = 1 .. Len(R) /\ Cardinality(D) = Len(R) /\ D \in SUBSET D
  BY Sorted DEF Sortable
<1>2. \A i \in D : F(i) \in 0 .. Len(R) - 1
  BY <1>1, FrontCounts
<1>3. \A i, j \in D : Before(R, i, j) => F(i) < F(j)
  BY <1>1, FrontCounts
<1>4. \A i, j \in D : F(i) < F(j) => Before(R, i, j)
  <2> SUFFICES ASSUME NEW i \in D, NEW j \in D, F(i) < F(j) PROVE Before(R, i, j)
    OBVIOUS
  <2>1. F(i) \in Nat /\ F(j) \in Nat
    BY <1>2
  <2>2. i # j /\ ~Before(R, j, i)
    BY <1>3, <2>1
  <2>3. QED
    BY <2>2, BeforeIsOrder
<1>5. \A i, j \in D : F(i) = F(j) => i = j
  BY <1>1, FrontCounts
<1>6. \A k \in 1 .. Len(R) : At(R, D, k) \in D /\ F(At(R, D, k)) = k - 1
  BY <1>1, AtIsRanked
<1>7. \A n : Passed(R, n) = {i \in D : F(i) < n - 1}
  BY DEF Passed
<1> HIDE DEF D, F
<1>8. Passed(R, 1) = {}
  BY <1>2, <1>7
<1>9. Passed(R, Len(R) + 1) = D
  <2>1. \A i \in D : F(i) < Len(R) + 1 - 1
    BY <1>1, <1>2
  <2>2. Passed(R, Len(R) + 1) = {i \in D : F(i) < Len(R) + 1 - 1}
    BY <1>7
  <2>3. QED
    BY <2>1, <2>2
<1>10. ASSUME NEW n \in 1 .. Len(R), NEW a, a = At(R, D, n)
       PROVE  /\ a \in D /\ a \notin Passed(R, n)
              /\ Passed(R, n + 1) = Passed(R, n) \cup {a}
              /\ \A i \in Passed(R, n) : Before(R, i, a)
              /\ \A i \in D \ Passed(R, n + 1) : Before(R, a, i)
  <2>1. a \in D /\ F(a) = n - 1 /\ n \in Nat
    BY <1>1, <1>6, <1>10
  <2>2. \A i \in D : F(i) \in Nat /\ (F(i) = n - 1 => i = a)
    BY <1>2, <1>5, <2>1
  <2>3. \A i \in D : F(i) < n + 1 - 1 <=> F(i) < n - 1 \/ F(i) = n - 1
    BY <2>1, <2>2
  <2>4. \A i \in D \ Passed(R, n + 1) : F(a) < F(i)
    BY <1>7, <2>1, <2>2
  <2>5. QED
    BY <1>4, <1>7, <2>1, <2>2, <2>3, <2>4
<1>11. QED
  BY <1>8, <1>9, <1>10 DEF D

-----------------------------------------------------------------------------
(* The evaluator's loops *)

LEMMA LoopStarts ==
  ASSUME NEW rs, WellFormed(rs), NEW view
  PROVE  LoopInvariant(rs, view, NoScan)
<1>1. NoScan.next = 1 /\ NoScan.best = Nothing /\ NoScan.tags = <<>>
  BY DEF NoScan
<1>2. Len(rs.rules) \in Nat
  BY DEF WellFormed, Sortable
<1>3. Hits(rs, view, 1) = {} /\ Tagged(rs, view, 1) = {}
  BY PassedRules DEF Hits, Tagged, WellFormed
<1>4. TagsOf(rs, {}) = <<>>
  <2>1. Cardinality({}) = 0 /\ 1 .. 0 = {}
    BY FS_EmptySet
  <2>2. QED
    BY <2>1 DEF TagsOf
<1>5. QED
  BY <1>1, <1>2, <1>3, <1>4 DEF LoopInvariant

(* One turn of the loop that does not return.                              *)
LEMMA LoopPasses ==
  ASSUME NEW rs, WellFormed(rs), NEW view, NEW s, LoopInvariant(rs, view, s),
         s.next <= Len(rs.rules),
         NEW r, r = SortedByPriority(rs.rules)[s.next],
         ~(rs.strategy = "first_match" /\ Holds(r.cond, view) /\ IsTerminal(r.action)),
         NEW t,
         t.next = s.next + 1,
         t.tags = IF Holds(r.cond, view) /\ r.action.kind = "tag"
                    THEN Append(s.tags, r.action.arg) ELSE s.tags,
         t.best = IF /\ rs.strategy = "score" /\ s.best = Nothing
                     /\ Holds(r.cond, view) /\ IsTerminal(r.action)
                    THEN r.action ELSE s.best
  PROVE  LoopInvariant(rs, view, t)
<1> DEFINE R == rs.rules
           n == s.next
<1>1. /\ Sortable(R) /\ Len(R) \in Nat /\ n \in 1 .. Len(R)
      /\ \A i \in DOMAIN R : R[i].action # Nothing
  BY DEF WellFormed, Sortable, LoopInvariant
<1>2. PICK a : a = At(R, DOMAIN R, n)
  OBVIOUS
<1>3. /\ a \in DOMAIN R /\ a \notin Passed(R, n)
      /\ Passed(R, n + 1) = Passed(R, n) \cup {a}
      /\ \A i \in Passed(R, n) : Before(R, i, a)
  BY <1>1, <1>2, PassedRules
<1>4. r = R[a]
  BY <1>1, <1>2, Sorted
<1>5. Hits(rs, view, n + 1) = IF Holds(r.cond, view) /\ IsTerminal(r.action)
                                THEN Hits(rs, view, n) \cup {a} ELSE Hits(rs, view, n)
  BY <1>3, <1>4 DEF Hits
<1>6. Tagged(rs, view, n + 1) = IF Holds(r.cond, view) /\ ~IsTerminal(r.action)
                                  THEN Tagged(rs, view, n) \cup {a} ELSE Tagged(rs, view, n)
  BY <1>3, <1>4 DEF Tagged
<1>7. t.next \in 1 .. Len(R) + 1
  BY <1>1
<1>8. t.tags = TagsOf(rs, Tagged(rs, view, n + 1))
  <2>1. s.tags = TagsOf(rs, Tagged(rs, view, n))
    BY DEF LoopInvariant
  <2>2. CASE Holds(r.cond, view) /\ ~IsTerminal(r.action)
    <3>1. Tagged(rs, view, n) \in SUBSET DOMAIN R /\ \A i \in Tagged(rs, view, n) : Before(R, i, a)
      BY <1>3 DEF Tagged, Passed
    <3>2. TagsOf(rs, Tagged(rs, view, n) \cup {a}) = Append(TagsOf(rs, Tagged(rs, view, n)), R[a].action.arg)
      BY <1>1, <1>3, <3>1, TagsAppend
    <3>3. QED
      BY <1>4, <1>6, <2>1, <2>2, <3>2 DEF IsTerminal
  <2>3. CASE ~(Holds(r.cond, view) /\ ~IsTerminal(r.action))
    BY <1>6, <2>1, <2>3 DEF IsTerminal
  <2>4. QED
    BY <2>2, <2>3
<1>9. rs.strategy = "first_match" => Hits(rs, view, n + 1) = {}
  BY <1>5 DEF LoopInvariant
<1>10. rs.strategy # "score" => t.best = Nothing
  BY DEF LoopInvariant
<1>11. ASSUME rs.strategy = "score"
       PROVE  /\ Hits(rs, view, n + 1) = {} => t.best = Nothing
              /\ Hits(rs, view, n + 1) # {} =>
                   \E i \in Hits(rs, view, n + 1) :
                     /\ t.best = R[i].action
                     /\ \A j \in Hits(rs, view, n + 1) \ {i} : Before(R, i, j)
  <2>1. CASE Hits(rs, view, n) = {}
    <3>1. s.best = Nothing
      BY <1>11, <2>1 DEF LoopInvariant
    <3>2. QED
      BY <1>4, <1>5, <1>11, <2>1, <3>1
  <2>2. CASE Hits(rs, view, n) # {}
    <3>1. PICK i \in Hits(rs, view, n) :
            s.best = R[i].action /\ \A j \in Hits(rs, view, n) \ {i} : Before(R, i, j)
      BY <1>11, <2>2 DEF LoopInvariant
    <3>2. i \in Passed(R, n) /\ i \in DOMAIN R
      BY <3>1 DEF Hits, Passed
    <3>3. t.best = R[i].action
      BY <1>1, <3>1, <3>2
    <3>4. i \in Hits(rs, view, n + 1)
      BY <1>5, <3>1
    <3>5. \A j \in Hits(rs, view, n + 1) \ {i} : Before(R, i, j)
      BY <1>3, <1>5, <3>1, <3>2
    <3>6. QED
      BY <3>3, <3>4, <3>5
  <2>3. QED
    BY <2>1, <2>2
<1> HIDE DEF R
<1>12. t.next = n + 1
  OBVIOUS
<1> HIDE DEF n
<1>13. QED
  BY <1>7, <1>8, <1>9, <1>10, <1>11, <1>12 DEF LoopInvariant, R

(* The deciding rule is the one in front of all other terminal matches.    *)
LEMMA Decides ==
  ASSUME NEW rs, WellFormed(rs), NEW view, rs.strategy # "all_matches",
         NEW a \in DOMAIN rs.rules,
         Holds(rs.rules[a].cond, view), IsTerminal(rs.rules[a].action),
         \A j \in DOMAIN rs.rules \ {a} :
           Holds(rs.rules[j].cond, view) /\ IsTerminal(rs.rules[j].action) => Before(rs.rules, a, j)
  PROVE  DecidingRules(rs, view) = {a} /\ DecidedAction(rs, view) = rs.rules[a].action
<1>1. a \in DecidingRules(rs, view)
  BY DEF DecidingRules, MatchingRules
<1>2. ASSUME NEW i \in DecidingRules(rs, view), i # a PROVE FALSE
  <2>1. /\ i \in DOMAIN rs.rules /\ Holds(rs.rules[i].cond, view) /\ IsTerminal(rs.rules[i].action)
        /\ Before(rs.rules, i, a)
    BY <1>2 DEF DecidingRules, MatchingRules
  <2>2. Before(rs.rules, a, i)
    BY <1>2, <2>1
  <2>3. QED
    BY <2>1, <2>2, BeforeIsOrder DEF WellFormed
<1>3. DecidingRules(rs, view) = {a}
  BY <1>1, <1>2
<1>4. QED
  BY <1>3 DEF DecidedAction

(* evaluate_first_match returns at the rule that decides.                  *)
LEMMA LoopReturns ==
  ASSUME NEW rs, WellFormed(rs), NEW view, NEW s, LoopInvariant(rs, view, s),
         s.next <= Len(rs.rules),
         NEW r, r = SortedByPriority(rs.rules)[s.next],
         rs.strategy = "first_match", Holds(r.cond, view), IsTerminal(r.action)
  PROVE  /\ r.action = DecidedAction(rs, view)
         /\ s.tags = TagsOf(rs, TaggingRules(rs, view))
<1> DEFINE R == rs.rules
           n == s.next
<1>1. Sortable(R) /\ Len(R) \in Nat /\ n \in 1 .. Len(R)
  BY DEF WellFormed, Sortable, LoopInvariant
<1>2. PICK a : a = At(R, DOMAIN R, n)
  OBVIOUS
<1>3. /\ a \in DOMAIN R /\ a \notin Passed(R, n)
      /\ Passed(R, n + 1) = Passed(R, n) \cup {a}
      /\ \A i \in Passed(R, n) : Before(R, i, a)
      /\ \A i \in DOMAIN R \ Passed(R, n + 1) : Before(R, a, i)
  BY <1>1, <1>2, PassedRules
<1>4. r = R[a]
  BY <1>1, <1>2, Sorted
<1>5. \A j \in DOMAIN R \ {a} : Holds(R[j].cond, view) /\ IsTerminal(R[j].action) => Before(R, a, j)
  BY <1>3 DEF LoopInvariant, Hits
<1>6. DecidingRules(rs, view) = {a} /\ DecidedAction(rs, view) = R[a].action
  BY <1>3, <1>4, <1>5, Decides
<1>7. \A i \in DOMAIN R : Before(R, i, a) <=> i \in Passed(R, n)
  BY <1>1, <1>3, BeforeIsOrder
<1>8. TaggingRules(rs, view) = Tagged(rs, view, n)
  <2>1. Passed(R, n) \subseteq DOMAIN R
    BY DEF Passed
  <2>2. QED
    BY <1>6, <1>7, <2>1 DEF TaggingRules, Tagged, MatchingRules
<1>9. QED
  BY <1>4, <1>6, <1>8 DEF LoopInvariant

(* At the end of the loop the best match, or the default action, is what   *)
(* the rule set decides.                                                   *)
LEMMA LoopEnds ==
  ASSUME NEW rs, WellFormed(rs), NEW view, NEW s, LoopInvariant(rs, view, s),
         ~(s.next <= Len(rs.rules))
  PROVE  /\ (IF s.best = Nothing THEN rs.default ELSE s.best) = DecidedAction(rs, view)
         /\ s.tags = TagsOf(rs, TaggingRules(rs, view))
<1> DEFINE R == rs.rules
<1>1. /\ Sortable(R) /\ Len(R) \in Nat /\ s.next = Len(R) + 1
      /\ \A i \in DOMAIN R : R[i].action # Nothing
  BY DEF WellFormed, Sortable, LoopInvariant
<1>2. Passed(R, s.next) = DOMAIN R
  BY <1>1, PassedRules
<1>3. /\ Hits(rs, view, s.next) = {i \in MatchingRules(rs, view) : IsTerminal(R[i].action)}
      /\ Tagged(rs, view, s.next) = {i \in MatchingRules(rs, view) : ~IsTerminal(R[i].action)}
  BY <1>2 DEF Hits, Tagged, MatchingRules
<1>4. CASE rs.strategy = "score" /\ Hits(rs, view, s.next) # {}
  <2>1. PICK i \in Hits(rs, view, s.next) :
          s.best = R[i].action /\ \A j \in Hits(rs, view, s.next) \ {i} : Before(R, i, j)
    BY <1>4 DEF LoopInvariant
  <2>2. i \in DOMAIN R /\ Holds(R[i].cond, view) /\ IsTerminal(R[i].action)
    BY <1>2 DEF Hits
  <2>3. \A j \in DOMAIN R \ {i} : Holds(R[j].cond, view) /\ IsTerminal(R[j].action) => Before(R, i, j)
    BY <1>2, <2>1 DEF Hits
  <2>4. DecidedAction(rs, view) = R[i].action
    BY <1>4, <2>2, <2>3, Decides
  <2>5. TaggingRules(rs, view) = Tagged(rs, view, s.next)
    BY <1>3, <1>4 DEF TaggingRules
  <2>6. QED
    BY <1>1, <2>1, <2>2, <2>4, <2>5 DEF LoopInvariant
<1>5. CASE ~(rs.strategy = "score" /\ Hits(rs, view, s.next) # {})
  <2>1. s.best = Nothing
    BY <1>5 DEF LoopInvariant
  <2>2. rs.strategy = "all_matches" \/ Hits(rs, view, s.next) = {}
    BY <1>5 DEF LoopInvariant, WellFormed
  <2>3. DecidingRules(rs, view) = {}
    BY <1>3, <2>2 DEF DecidingRules
  <2>4. TaggingRules(rs, view) = Tagged(rs, view, s.next)
    BY <1>3, <2>3 DEF TaggingRules
  <2>5. QED
    BY <2>1, <2>3, <2>4 DEF LoopInvariant, DecidedAction
<1>6. QED
  BY <1>4, <1>5

-----------------------------------------------------------------------------
(* Hosts *)

IsSeq(s) == s \in Seq({s[k] : k \in DOMAIN s})

IsPacket(p) == DOMAIN p = {"id", "payload", "source", "port"}

Domains ==
  /\ DOMAIN rules = Hosts /\ DOMAIN status = Hosts /\ DOMAIN failure = Hosts
  /\ DOMAIN held = Hosts /\ DOMAIN scan = Hosts /\ DOMAIN verdict = Hosts
  /\ DOMAIN log = Hosts /\ DOMAIN queue = Edges

(* The variables of one host, and what holds of them: the packet in its    *)
(* hands, its place in the loop, and the record of what it acts on.        *)
HostVars(h) == <<ruleSet[h], rules[h], status[h], failure[h], held[h], scan[h], verdict[h], log[h]>>

Decided(h) ==
  /\ verdict[h] = DecidedAction(ruleSet[h], View(held[h]))
  /\ scan[h].tags = TagsOf(ruleSet[h], TaggingRules(ruleSet[h], View(held[h])))

HostOk(h) ==
  /\ WellFormed(ruleSet[h])
  /\ IsSeq(log[h])
  /\ status[h] \in {"scanning", "recording", "acting"} => IsPacket(held[h])
  /\ status[h] \in {"loading", "refused", "waiting", "acted", "done", "cancelled", "failed"} =>
       held[h] = NoPacket
  /\ status[h] \notin {"loading", "refused"} => rules[h] = SortedByPriority(ruleSet[h].rules)
  /\ failure[h] # "none" => status[h] = "failed"
  /\ status[h] = "scanning" => LoopInvariant(ruleSet[h], View(held[h]), scan[h])
  /\ status[h] \in {"recording", "acting"} => Decided(h)
  /\ status[h] = "acting" => HasRecord(h, held[h].id, Target(verdict[h]))

AllHosts == \A h \in Hosts : HostOk(h)

(* The packets on the edges.                                               *)
Flow ==
  /\ fed \in Nat
  /\ \A e \in Edges : IsSeq(queue[e]) /\ \A k \in DOMAIN queue[e] : IsPacket(queue[e][k])

LEMMA SeqAppend ==
  ASSUME NEW s, IsSeq(s), NEW x
  PROVE  /\ IsSeq(Append(s, x))
         /\ Len(s) \in Nat /\ DOMAIN s = 1 .. Len(s)
         /\ DOMAIN Append(s, x) = DOMAIN s \cup {Len(s) + 1}
         /\ \A k \in DOMAIN s : Append(s, x)[k] = s[k]
         /\ Append(s, x)[Len(s) + 1] = x
<1>1. PICK S : S = {s[k] : k \in DOMAIN s} \cup {x}
  OBVIOUS
<1>2. s \in Seq(S) /\ x \in S
  BY <1>1 DEF IsSeq
<1>3. PICK a : a = Append(s, x)
  OBVIOUS
<1>4. /\ a \in Seq(S) /\ Len(a) = Len(s) + 1 /\ Len(s) \in Nat /\ DOMAIN s = 1 .. Len(s)
      /\ DOMAIN a = 1 .. Len(s) + 1
      /\ \A k \in DOMAIN s : a[k] = s[k]
      /\ a[Len(s) + 1] = x
  BY <1>2, <1>3
<1>5. a \in Seq({a[k] : k \in DOMAIN a})
  BY <1>4
<1>6. DOMAIN a = DOMAIN s \cup {Len(s) + 1}
  BY <1>4
<1>7. QED
  BY <1>3, <1>4, <1>5, <1>6 DEF IsSeq

LEMMA SeqTail ==
  ASSUME NEW s, IsSeq(s), s # <<>>
  PROVE  /\ IsSeq(Tail(s))
         /\ 1 \in DOMAIN s /\ Head(s) = s[1]
         /\ \A k \in DOMAIN Tail(s) : k + 1 \in DOMAIN s /\ Tail(s)[k] = s[k + 1]
         /\ \A k \in DOMAIN s : k = 1 \/ (k - 1 \in DOMAIN Tail(s) /\ Tail(s)[k - 1] = s[k])
<1>1. PICK S : S = {s[k] : k \in DOMAIN s}
  OBVIOUS
<1>2. s \in Seq(S)
  BY <1>1 DEF IsSeq
<1>3. PICK a : a = Tail(s)
  OBVIOUS
<1>4. /\ a \in Seq(S) /\ Len(s) \in Nat \ {0} /\ Len(a) = Len(s) - 1 /\ DOMAIN s = 1 .. Len(s)
      /\ DOMAIN a = 1 .. Len(s) - 1
      /\ \A k \in 1 .. Len(s) - 1 : a[k] = s[k + 1]
      /\ Head(s) = s[1]
  BY <1>2, <1>3
<1>5. a \in Seq({a[k] : k \in DOMAIN a})
  BY <1>4
<1>6. /\ 1 \in DOMAIN s
      /\ \A k \in DOMAIN a : k + 1 \in DOMAIN s /\ a[k] = s[k + 1]
  BY <1>4
<1>7. ASSUME NEW k \in DOMAIN s, k # 1 PROVE k - 1 \in DOMAIN a /\ a[k - 1] = s[k]
  <2>1. k - 1 \in 1 .. Len(s) - 1 /\ k - 1 + 1 = k
    BY <1>4, <1>7
  <2>2. QED
    BY <1>4, <2>1
<1>8. QED
  BY <1>3, <1>4, <1>5, <1>6, <1>7 DEF IsSeq

(* What a host is given is well formed.                                    *)
LEMMA CandidatesWellFormed ==
  ASSUME NEW h \in Hosts, NEW rs \in Candidates[h]
  PROVE  WellFormed(rs)
<1>1. /\ rs.strategy \in {"first_match", "all_matches", "score"}
      /\ rs.rules \in Seq({rs.rules[i] : i \in DOMAIN rs.rules})
      /\ \A i \in DOMAIN rs.rules :
           rs.rules[i].priority \in Nat /\ rs.rules[i].action # Nothing
  BY RuleSetsAssumption
<1>2. Len(rs.rules) \in Nat /\ DOMAIN rs.rules = 1 .. Len(rs.rules)
  BY <1>1
<1>3. QED
  BY <1>1, <1>2 DEF WellFormed, Sortable

LEMMA ForwardedPacket ==
  ASSUME NEW p, IsPacket(p), NEW h, NEW port
  PROVE  /\ IsPacket([p EXCEPT !.source = h, !.port = port])
         /\ [p EXCEPT !.source = h, !.port = port].id = p.id
  BY DEF IsPacket

(* A host that is left alone stays as it is; records are never lost.       *)
LEMMA HostFrame ==
  ASSUME NEW h, HostOk(h), UNCHANGED HostVars(h)
  PROVE  HostOk(h)'
  BY DEF HostOk, HostVars, Decided, HasRecord

LEMMA HostInit == Init => Domains /\ AllHosts /\ Flow
<1> SUFFICES ASSUME Init PROVE Domains /\ AllHosts /\ Flow
  OBVIOUS
<1>1. Domains
  BY DEF Init, Domains
<1>2. IsSeq(<<>>)
  BY DEF IsSeq
<1>3. Flow
  BY <1>2 DEF Init, Flow
<1>4. ASSUME NEW h \in Hosts PROVE HostOk(h)
  <2>1. ruleSet[h] \in Candidates[h]
    BY DEF Init
  <2>2. WellFormed(ruleSet[h])
    BY <2>1, CandidatesWellFormed
  <2>3. /\ log[h] = <<>> /\ status[h] = "loading" /\ failure[h] = "none" /\ held[h] = NoPacket
    BY DEF Init
  <2>4. QED
    BY <1>2, <2>2, <2>3 DEF HostOk
<1>5. QED
  BY <1>1, <1>3, <1>4 DEF AllHosts

(* What a step of host h leaves alone: the rule sets, the other hosts, and *)
(* the records on the log.                                                 *)
LEMMA StepOfHost ==
  ASSUME Domains, AllHosts, NEW h \in Hosts, HostStep(h)
  PROVE  /\ UNCHANGED ruleSet
         /\ Domains'
         /\ \A g \in Hosts \ {h} : UNCHANGED HostVars(g)
<1> USE DEF evalVars, flowVars
<1>1. UNCHANGED ruleSet
  BY DEF HostStep, Load, Receive, ReceiveCancelled, EndOfInput, StopAtMatch, PassRule, FinishScan,
         Fail, GuestFails, RecordVerdict, Send, SendFails, Discard, Halt, CheckCancelled
<1>2. DOMAIN queue' = Edges
  BY DEF Domains, HostStep, Load, Receive, ReceiveCancelled, EndOfInput, StopAtMatch, PassRule,
         FinishScan, Fail, GuestFails, RecordVerdict, Send, SendFails, Discard, Halt, CheckCancelled,
         Delivering
<1>3. /\ rules' = rules \/ \E v : rules' = [rules EXCEPT ![h] = v]
      /\ status' = status \/ \E v : status' = [status EXCEPT ![h] = v]
      /\ failure' = failure \/ \E v : failure' = [failure EXCEPT ![h] = v]
      /\ held' = held \/ \E v : held' = [held EXCEPT ![h] = v]
      /\ scan' = scan \/ \E v : scan' = [scan EXCEPT ![h] = v]
      /\ verdict' = verdict \/ \E v : verdict' = [verdict EXCEPT ![h] = v]
      /\ log' = log \/ \E v : log' = [log EXCEPT ![h] = v]
  <2>1. CASE Load(h)
    BY <2>1 DEF Load
  <2>2. CASE Receive(h)
    BY <2>2 DEF Receive
  <2>3. CASE ReceiveCancelled(h)
    BY <2>3 DEF ReceiveCancelled
  <2>4. CASE EndOfInput(h)
    BY <2>4 DEF EndOfInput
  <2>5. CASE StopAtMatch(h)
    BY <2>5 DEF StopAtMatch
  <2>6. CASE PassRule(h)
    BY <2>6 DEF PassRule
  <2>7. CASE FinishScan(h)
    BY <2>7 DEF FinishScan
  <2>8. CASE GuestFails(h)
    BY <2>8 DEF GuestFails, Fail
  <2>9. CASE RecordVerdict(h)
    BY <2>9 DEF RecordVerdict
  <2>10. CASE Send(h)
    BY <2>10 DEF Send
  <2>11. CASE SendFails(h)
    BY <2>11 DEF SendFails, Fail
  <2>12. CASE Discard(h)
    BY <2>12 DEF Discard
  <2>13. CASE Halt(h)
    BY <2>13 DEF Halt, Fail
  <2>14. CASE CheckCancelled(h)
    BY <2>14 DEF CheckCancelled
  <2>15. QED
    BY <2>1, <2>2, <2>3, <2>4, <2>5, <2>6, <2>7, <2>8, <2>9, <2>10, <2>11, <2>12, <2>13, <2>14
       DEF HostStep
<1>4. Domains'
  BY <1>2, <1>3 DEF Domains
<1>5. \A g \in Hosts \ {h} : UNCHANGED HostVars(g)
  BY <1>1, <1>3 DEF Domains, HostVars
<1>6. QED
  BY <1>1, <1>4, <1>5

LEMMA HostStepOk ==
  ASSUME Domains, AllHosts, Flow, NEW h \in Hosts, HostStep(h)
  PROVE  HostOk(h)'
<1> USE DEF evalVars, flowVars
<1>1. HostOk(h) /\ UNCHANGED ruleSet
  BY StepOfHost DEF AllHosts
<1>2. WellFormed(ruleSet[h])
  BY <1>1 DEF HostOk
<1>3. CASE Load(h)
  <2>1. /\ status[h] = "loading" /\ UNCHANGED <<failure[h], held[h], log[h]>>
        /\ \/ status'[h] = "refused"
           \/ status'[h] = "waiting" /\ rules'[h] = SortedByPriority(ruleSet[h].rules)
    BY <1>3 DEF Load, Domains
  <2>2. failure[h] = "none" /\ held[h] = NoPacket /\ IsSeq(log[h])
    BY <1>1, <2>1 DEF HostOk
  <2>3. QED
    BY <1>1, <1>2, <2>1, <2>2 DEF HostOk
<1>4. CASE Receive(h)
  <2>1. /\ status[h] = "waiting" /\ status'[h] = "scanning" /\ scan'[h] = NoScan
        /\ UNCHANGED <<rules[h], failure[h], log[h]>>
    BY <1>4 DEF Receive, Domains
  <2>2. PICK e \in Edges : queue[e] # <<>> /\ held'[h] = Head(queue[e])
    BY <1>4 DEF Receive, EdgesTo, Domains
  <2>3. IsPacket(held'[h])
    BY <2>2, SeqTail DEF Flow
  <2>4. LoopInvariant(ruleSet[h], View(held'[h]), NoScan)
    BY <1>2, LoopStarts
  <2>5. failure[h] = "none" /\ IsSeq(log[h]) /\ rules[h] = SortedByPriority(ruleSet[h].rules)
    BY <1>1, <2>1 DEF HostOk
  <2>6. QED
    BY <1>1, <1>2, <2>1, <2>3, <2>4, <2>5 DEF HostOk
<1>5. ASSUME UNCHANGED <<rules[h], failure[h], held[h], log[h]>>,
             status[h] \in {"waiting", "acted"},
             status'[h] \in {"waiting", "done", "cancelled"}
      PROVE  HostOk(h)'
  BY <1>1, <1>5 DEF HostOk
<1>6. CASE ReceiveCancelled(h)
  BY <1>5, <1>6 DEF ReceiveCancelled, Domains
<1>7. CASE EndOfInput(h)
  BY <1>5, <1>7 DEF EndOfInput, Domains
<1>8. CASE CheckCancelled(h)
  BY <1>5, <1>8 DEF CheckCancelled, Domains
<1>9. CASE StopAtMatch(h)
  <2>1. /\ status[h] = "scanning" /\ status'[h] = "recording" /\ verdict'[h] = NextRule(h).action
        /\ UNCHANGED <<rules[h], failure[h], held[h], scan[h], log[h]>>
        /\ scan[h].next <= Len(rules[h]) /\ Stops(h)
    BY <1>9 DEF StopAtMatch, Evaluating, MoreRules, Domains
  <2>2. /\ LoopInvariant(ruleSet[h], View(held[h]), scan[h])
        /\ rules[h] = SortedByPriority(ruleSet[h].rules)
        /\ IsPacket(held[h]) /\ failure[h] = "none" /\ IsSeq(log[h])
    BY <1>1, <2>1 DEF HostOk
  <2>3. scan[h].next <= Len(ruleSet[h].rules)
    BY <1>2, <2>1, <2>2, Sorted DEF WellFormed
  <2>4. /\ NextRule(h).action = DecidedAction(ruleSet[h], View(held[h]))
        /\ scan[h].tags = TagsOf(ruleSet[h], TaggingRules(ruleSet[h], View(held[h])))
    BY <1>2, <2>1, <2>2, <2>3, LoopReturns DEF NextRule, Stops, Matches
  <2>5. Decided(h)'
    BY <1>1, <2>1, <2>4 DEF Decided
  <2>6. QED
    BY <1>1, <1>2, <2>1, <2>2, <2>5 DEF HostOk
<1>10. CASE PassRule(h)
  <2>1. /\ status[h] = "scanning" /\ status'[h] = "scanning"
        /\ scan'[h] = [next |-> scan[h].next + 1, best |-> BestAfter(h), tags |-> TagsAfter(h)]
        /\ UNCHANGED <<rules[h], failure[h], held[h], log[h]>>
        /\ scan[h].next <= Len(rules[h]) /\ ~Stops(h)
    BY <1>10 DEF PassRule, Evaluating, MoreRules, Domains
  <2>2. /\ LoopInvariant(ruleSet[h], View(held[h]), scan[h])
        /\ rules[h] = SortedByPriority(ruleSet[h].rules)
        /\ IsPacket(held[h]) /\ failure[h] = "none" /\ IsSeq(log[h])
    BY <1>1, <2>1 DEF HostOk
  <2>3. scan[h].next <= Len(ruleSet[h].rules)
    BY <1>2, <2>1, <2>2, Sorted DEF WellFormed
  <2>4. PICK t : t = scan'[h]
    OBVIOUS
  <2>5. t.next = scan[h].next + 1 /\ t.best = BestAfter(h) /\ t.tags = TagsAfter(h)
    BY <2>1, <2>4
  <2>6. LoopInvariant(ruleSet[h], View(held[h]), t)
    BY <1>2, <2>1, <2>2, <2>3, <2>5, LoopPasses
       DEF NextRule, Stops, Matches, BestAfter, TagsAfter
  <2>7. QED
    BY <1>1, <1>2, <2>1, <2>2, <2>4, <2>6 DEF HostOk
<1>11. CASE FinishScan(h)
  <2>1. /\ status[h] = "scanning" /\ status'[h] = "recording"
        /\ verdict'[h] = IF scan[h].best = Nothing THEN ruleSet[h].default ELSE scan[h].best
        /\ UNCHANGED <<rules[h], failure[h], held[h], scan[h], log[h]>>
        /\ ~(scan[h].next <= Len(rules[h]))
    BY <1>11 DEF FinishScan, Evaluating, MoreRules, Domains
  <2>2. /\ LoopInvariant(ruleSet[h], View(held[h]), scan[h])
        /\ rules[h] = SortedByPriority(ruleSet[h].rules)
        /\ IsPacket(held[h]) /\ failure[h] = "none" /\ IsSeq(log[h])
    BY <1>1, <2>1 DEF HostOk
  <2>3. ~(scan[h].next <= Len(ruleSet[h].rules))
    BY <1>2, <2>1, <2>2, Sorted DEF WellFormed
  <2>4. /\ verdict'[h] = DecidedAction(ruleSet[h], View(held[h]))
        /\ scan[h].tags = TagsOf(ruleSet[h], TaggingRules(ruleSet[h], View(held[h])))
    BY <1>2, <2>1, <2>2, <2>3, LoopEnds
  <2>5. Decided(h)'
    BY <1>1, <2>1, <2>4 DEF Decided
  <2>6. QED
    BY <1>1, <1>2, <2>1, <2>2, <2>5 DEF HostOk
<1>12. ASSUME NEW why, Fail(h, why), status[h] \in {"scanning", "acting"}
       PROVE  HostOk(h)'
  <2>1. /\ status'[h] = "failed" /\ held'[h] = NoPacket
        /\ UNCHANGED <<rules[h], log[h]>>
    BY <1>12 DEF Fail, Domains
  <2>2. QED
    BY <1>1, <1>12, <2>1 DEF HostOk
<1>13. CASE RecordVerdict(h)
  <2>1. /\ status[h] = "recording" /\ status'[h] = "acting"
        /\ log'[h] = Append(log[h], Offered(h))
        /\ UNCHANGED <<rules[h], failure[h], held[h], scan[h], verdict[h]>>
    BY <1>13 DEF RecordVerdict, Domains
  <2>2. IsPacket(held[h]) /\ failure[h] = "none" /\ IsSeq(log[h]) /\ Decided(h)
        /\ rules[h] = SortedByPriority(ruleSet[h].rules)
    BY <1>1, <2>1 DEF HostOk
  <2>3. /\ IsSeq(log'[h]) /\ Len(log[h]) + 1 \in DOMAIN log'[h]
        /\ log'[h][Len(log[h]) + 1] = Offered(h)
    BY <2>1, <2>2, SeqAppend
  <2>4. PICK r : r = Offered(h)
    OBVIOUS
  <2>5. r.id = held[h].id /\ r.action = verdict[h]
    BY <2>4 DEF Offered
  <2>6. HasRecord(h, held[h].id, Target(verdict[h]))'
    BY <2>1, <2>3, <2>4, <2>5 DEF HasRecord
  <2>7. Decided(h)'
    BY <1>1, <2>1, <2>2 DEF Decided
  <2>8. QED
    BY <1>1, <1>2, <2>1, <2>2, <2>3, <2>6, <2>7 DEF HostOk
<1>14. ASSUME UNCHANGED <<rules[h], failure[h], log[h]>>,
              status[h] = "acting", status'[h] = "acted", held'[h] = NoPacket
       PROVE  HostOk(h)'
  BY <1>1, <1>14 DEF HostOk
<1>15. CASE Send(h)
  BY <1>14, <1>15 DEF Send, Domains
<1>16. CASE Discard(h)
  BY <1>14, <1>16 DEF Discard, Domains
<1>17. CASE GuestFails(h)
  BY <1>12, <1>17 DEF GuestFails
<1>18. CASE SendFails(h)
  BY <1>12, <1>18 DEF SendFails
<1>19. CASE Halt(h)
  BY <1>12, <1>19 DEF Halt
<1>20. QED
  BY <1>3, <1>4, <1>6, <1>7, <1>8, <1>9, <1>10, <1>11, <1>13, <1>15, <1>16, <1>17, <1>18, <1>19
     DEF HostStep

-----------------------------------------------------------------------------
(* Packets *)

(* Where a packet can be, what is said of those that are consumed, and the *)
(* records of what has left a host.                                        *)
Somewhere(id) ==
  \/ \E e \in Edges : \E k \in DOMAIN queue[e] : queue[e][k].id = id
  \/ \E h \in Hosts : held[h].id = id
  \/ \E d \in delivered \cup consumed \cup dropped : d.id = id

Explained(c) ==
  LET decided == DecidedAction(ruleSet[c.host], c.view)
  IN  \/ decided.kind \in {"drop", "tag"}
      \/ \A port \in Target(decided) : EdgesFrom(c.host, port) = {}

OnEdges ==
  \A e \in Edges : e.from \in Hosts =>
    \A k \in DOMAIN queue[e] : HasRecord(e.from, queue[e][k].id, {e.port})
AtSinks ==
  \A e \in Edges : e.from \in Hosts =>
    \A d \in delivered : d.edge = e => HasRecord(e.from, d.id, {e.port})

Packets ==
  /\ OnEdges /\ AtSinks
  /\ \A id \in 1 .. fed : Somewhere(id)
  /\ \A c \in consumed : HasRecord(c.host, c.id, {}) /\ Explained(c) /\ c.host \in Hosts

LEMMA TargetIsOne ==
  ASSUME NEW a, NEW p \in Target(a), NEW q \in Target(a)
  PROVE  p = q
<1>1. CASE a.kind = "route"
  BY <1>1 DEF Target
<1>2. CASE a.kind = "dead_letter"
  BY <1>2 DEF Target
<1>3. CASE a.kind # "route" /\ a.kind # "dead_letter"
  BY <1>3 DEF Target
<1>4. QED
  BY <1>1, <1>2, <1>3

(* Records stay on the log.                                                *)
LEMMA RecordsKept ==
  ASSUME Domains, AllHosts, NEW h \in Hosts, HostStep(h)
  PROVE  \A g \in Hosts : \A id, ports : HasRecord(g, id, ports) => HasRecord(g, id, ports)'
<1> USE DEF evalVars, flowVars
<1>1. UNCHANGED log \/ log' = [log EXCEPT ![h] = Append(log[h], Offered(h))]
  BY DEF HostStep, Load, Receive, ReceiveCancelled, EndOfInput, StopAtMatch, PassRule, FinishScan,
         Fail, GuestFails, RecordVerdict, Send, SendFails, Discard, Halt, CheckCancelled
<1>2. CASE UNCHANGED log
  BY <1>2 DEF HasRecord
<1>3. CASE log' = [log EXCEPT ![h] = Append(log[h], Offered(h))]
  <2>1. IsSeq(log[h])
    BY DEF AllHosts, HostOk
  <2>2. /\ DOMAIN log[h] \subseteq DOMAIN log'[h]
        /\ \A k \in DOMAIN log[h] : log'[h][k] = log[h][k]
    BY <1>3, <2>1, SeqAppend DEF Domains
  <2>3. \A g \in Hosts \ {h} : log'[g] = log[g]
    BY <1>3 DEF Domains
  <2>4. ASSUME NEW g \in Hosts, NEW id, NEW ports, HasRecord(g, id, ports)
        PROVE  HasRecord(g, id, ports)'
    <3>1. PICK k \in DOMAIN log[g] : log[g][k].id = id /\ ports \subseteq Target(log[g][k].action)
      BY <2>4 DEF HasRecord
    <3>2. k \in DOMAIN log'[g] /\ log'[g][k] = log[g][k]
      BY <2>2, <2>3, <3>1
    <3>3. QED
      BY <3>1, <3>2 DEF HasRecord
  <2>5. QED
    BY <2>4
<1>4. QED
  BY <1>1, <1>2, <1>3

(* A packet leaves the head of an edge for where it is still seen.         *)
LEMMA Dequeued ==
  ASSUME Domains, Flow, NEW e \in Edges, queue[e] # <<>>,
         queue' = [queue EXCEPT ![e] = Tail(queue[e])]
  PROVE  /\ \A g \in Edges : /\ IsSeq(queue'[g])
                            /\ \A k \in DOMAIN queue'[g] :
                                 \E l \in DOMAIN queue[g] : queue'[g][k] = queue[g][l]
         /\ \A g \in Edges : \A k \in DOMAIN queue[g] :
              \/ queue[g][k] = Head(queue[e])
              \/ \E l \in DOMAIN queue'[g] : queue'[g][l] = queue[g][k]
         /\ \E k \in DOMAIN queue[e] : Head(queue[e]) = queue[e][k]
<1>1. /\ queue'[e] = Tail(queue[e])
      /\ \A g \in Edges \ {e} : queue'[g] = queue[g]
  BY DEF Domains
<1>2. IsSeq(queue[e]) /\ \A g \in Edges : IsSeq(queue[g])
  BY DEF Flow
<1>3. PICK t : t = Tail(queue[e])
  OBVIOUS
<1>4. /\ IsSeq(t)
      /\ 1 \in DOMAIN queue[e] /\ Head(queue[e]) = queue[e][1]
      /\ \A k \in DOMAIN t : k + 1 \in DOMAIN queue[e] /\ t[k] = queue[e][k + 1]
      /\ \A k \in DOMAIN queue[e] : k = 1 \/ (k - 1 \in DOMAIN t /\ t[k - 1] = queue[e][k])
  BY <1>2, <1>3, SeqTail
<1>5. queue'[e] = t
  BY <1>1, <1>3
<1>6. ASSUME NEW g \in Edges
      PROVE  /\ IsSeq(queue'[g])
             /\ \A k \in DOMAIN queue'[g] : \E l \in DOMAIN queue[g] : queue'[g][k] = queue[g][l]
             /\ \A k \in DOMAIN queue[g] :
                  \/ queue[g][k] = Head(queue[e])
                  \/ \E l \in DOMAIN queue'[g] : queue'[g][l] = queue[g][k]
  <2>1. CASE g = e
    <3>1. \A k \in DOMAIN t : \E l \in DOMAIN queue[e] : t[k] = queue[e][l]
      BY <1>4
    <3>2. \A k \in DOMAIN queue[e] : \/ queue[e][k] = Head(queue[e])
                                    \/ \E l \in DOMAIN t : t[l] = queue[e][k]
      BY <1>4
    <3>3. /\ IsSeq(queue'[e])
          /\ \A k \in DOMAIN queue'[e] : \E l \in DOMAIN queue[e] : queue'[e][k] = queue[e][l]
      BY <1>4, <1>5, <3>1
    <3>4. \A k \in DOMAIN queue[e] :
            \/ queue[e][k] = Head(queue[e])
            \/ \E l \in DOMAIN queue'[e] : queue'[e][l] = queue[e][k]
      BY <1>5, <3>2
    <3>5. IsSeq(queue'[g])
      BY <2>1, <3>3
    <3>6. \A k \in DOMAIN queue'[g] : \E l \in DOMAIN queue[g] : queue'[g][k] = queue[g][l]
      BY <2>1, <3>3
    <3>7. \A k \in DOMAIN queue[g] :
            \/ queue[g][k] = Head(queue[e])
            \/ \E l \in DOMAIN queue'[g] : queue'[g][l] = queue[g][k]
      BY <2>1, <3>4
    <3>8. QED
      BY <3>5, <3>6, <3>7
  <2>2. CASE g # e
    BY <1>1, <1>2, <2>2
  <2>3. QED
    BY <2>1, <2>2
<1>7. QED
  BY <1>4, <1>6

LEMMA ReceivePackets ==
  ASSUME Domains, AllHosts, Flow, Packets, NEW h \in Hosts, Receive(h)
  PROVE  Flow' /\ Packets'
<1> USE DEF evalVars, flowVars
<1>1. PICK e \in Edges : /\ queue[e] # <<>>
                        /\ held' = [held EXCEPT ![h] = Head(queue[e])]
                        /\ queue' = [queue EXCEPT ![e] = Tail(queue[e])]
  BY DEF Receive, EdgesTo
<1>2. /\ UNCHANGED <<fed, delivered, consumed, dropped, ruleSet, log>> /\ status[h] = "waiting"
  BY DEF Receive
<1>3. /\ \A g \in Edges : /\ IsSeq(queue'[g])
                         /\ \A k \in DOMAIN queue'[g] :
                              \E l \in DOMAIN queue[g] : queue'[g][k] = queue[g][l]
      /\ \A g \in Edges : \A k \in DOMAIN queue[g] :
           \/ queue[g][k] = Head(queue[e])
           \/ \E l \in DOMAIN queue'[g] : queue'[g][l] = queue[g][k]
  BY <1>1, Dequeued
<1>4. Flow'
  BY <1>2, <1>3 DEF Flow
<1>5. \A g \in Hosts : \A id, ports : HasRecord(g, id, ports)' <=> HasRecord(g, id, ports)
  BY <1>2 DEF HasRecord
<1>6. OnEdges' /\ AtSinks'
  <2>1. OnEdges'
    BY <1>3, <1>5 DEF Packets, OnEdges
  <2>2. AtSinks'
    BY <1>2, <1>5 DEF Packets, AtSinks
  <2>3. QED
    BY <2>1, <2>2
<1>7. ASSUME NEW id \in 1 .. fed PROVE Somewhere(id)'
  <2>1. held[h] = NoPacket /\ NoPacket.id = 0 /\ id # 0
    BY <1>2 DEF AllHosts, HostOk, NoPacket, Flow
  <2>2. held'[h] = Head(queue[e]) /\ \A g \in Hosts \ {h} : held'[g] = held[g]
    BY <1>1 DEF Domains
  <2>3. Somewhere(id)
    BY DEF Packets
  <2>4. CASE \E g \in Edges : \E k \in DOMAIN queue[g] : queue[g][k].id = id
    BY <1>3, <2>2, <2>4 DEF Somewhere
  <2>5. CASE \E g \in Hosts : held[g].id = id
    BY <2>1, <2>2, <2>5 DEF Somewhere
  <2>6. CASE \E d \in delivered \cup consumed \cup dropped : d.id = id
    BY <1>2, <2>6 DEF Somewhere
  <2>7. QED
    BY <2>3, <2>4, <2>5, <2>6 DEF Somewhere
<1>8. \A c \in consumed' : HasRecord(c.host, c.id, {})' /\ Explained(c)' /\ c.host \in Hosts
  BY <1>2, <1>5 DEF Packets, Explained
<1>9. QED
  BY <1>2, <1>4, <1>6, <1>7, <1>8 DEF Packets

LEMMA SendPackets ==
  ASSUME Domains, AllHosts, Flow, Packets, NEW h \in Hosts, Send(h)
  PROVE  Flow' /\ Packets'
<1> USE DEF evalVars, flowVars
<1>1. PICK port \in Target(verdict[h]) :
        /\ queue' = Delivering(EdgesFrom(h, port), Forwarded(h, port))
        /\ consumed' = IF EdgesFrom(h, port) = {} THEN consumed \cup {InHand(h)} ELSE consumed
  BY DEF Send
<1>2. /\ UNCHANGED <<fed, delivered, dropped, ruleSet, log>> /\ status[h] = "acting"
      /\ held' = [held EXCEPT ![h] = NoPacket]
  BY DEF Send
<1>3. PICK p : p = Forwarded(h, port)
  OBVIOUS
<1>4. /\ IsPacket(held[h]) /\ Decided(h)
      /\ HasRecord(h, held[h].id, Target(verdict[h]))
  BY <1>2 DEF AllHosts, HostOk
<1>5. IsPacket(p) /\ p.id = held[h].id
  BY <1>3, <1>4, ForwardedPacket DEF Forwarded
<1>6. \A e \in Edges : queue'[e] = IF e \in EdgesFrom(h, port) THEN Append(queue[e], p) ELSE queue[e]
  BY <1>1, <1>3 DEF Delivering
<1>7. /\ \A e \in Edges : IsSeq(queue'[e])
      /\ \A e \in Edges : \A k \in DOMAIN queue[e] : k \in DOMAIN queue'[e] /\ queue'[e][k] = queue[e][k]
      /\ \A e \in Edges : \A k \in DOMAIN queue'[e] :
           \/ k \in DOMAIN queue[e] /\ queue'[e][k] = queue[e][k]
           \/ e \in EdgesFrom(h, port) /\ queue'[e][k] = p
      /\ \A e \in EdgesFrom(h, port) : \E k \in DOMAIN queue'[e] : queue'[e][k] = p
  <2>1. \A e \in Edges : IsSeq(queue[e])
    BY DEF Flow
  <2>2. \A e \in Edges : /\ IsSeq(Append(queue[e], p))
                         /\ DOMAIN Append(queue[e], p) = DOMAIN queue[e] \cup {Len(queue[e]) + 1}
                         /\ \A k \in DOMAIN queue[e] : Append(queue[e], p)[k] = queue[e][k]
                         /\ Append(queue[e], p)[Len(queue[e]) + 1] = p
    BY <2>1, SeqAppend
  <2>3. EdgesFrom(h, port) \subseteq Edges
    BY DEF EdgesFrom
  <2>4. QED
    BY <1>6, <2>1, <2>2, <2>3
<1>8. Flow'
  BY <1>2, <1>5, <1>7 DEF Flow
<1>9. \A g \in Hosts : \A id, ports : HasRecord(g, id, ports)' <=> HasRecord(g, id, ports)
  BY <1>2 DEF HasRecord
<1>10. HasRecord(h, p.id, {port})
  BY <1>4, <1>5 DEF HasRecord
<1>11. OnEdges' /\ AtSinks'
  <2>1. ASSUME NEW e \in Edges, e.from \in Hosts, NEW k \in DOMAIN queue'[e]
        PROVE  HasRecord(e.from, queue'[e][k].id, {e.port})
    <3>1. CASE k \in DOMAIN queue[e] /\ queue'[e][k] = queue[e][k]
      BY <2>1, <3>1 DEF Packets, OnEdges
    <3>2. CASE e \in EdgesFrom(h, port) /\ queue'[e][k] = p
      BY <1>10, <3>2 DEF EdgesFrom
    <3>3. QED
      BY <1>7, <3>1, <3>2
  <2>2. OnEdges'
    BY <1>9, <2>1 DEF OnEdges
  <2>3. AtSinks'
    BY <1>2, <1>9 DEF Packets, AtSinks
  <2>4. QED
    BY <2>2, <2>3
<1>12. PICK c : c = InHand(h)
  OBVIOUS
<1>13. c.id = held[h].id /\ c.host = h /\ c.view = View(held[h])
  BY <1>12 DEF InHand
<1>14. ASSUME NEW id \in 1 .. fed PROVE Somewhere(id)'
  <2>1. \A g \in Hosts \ {h} : held'[g] = held[g]
    BY <1>2 DEF Domains
  <2>2. Somewhere(id)
    BY DEF Packets
  <2>3. CASE \E g \in Edges : \E k \in DOMAIN queue[g] : queue[g][k].id = id
    BY <1>7, <2>3 DEF Somewhere
  <2>4. CASE held[h].id = id
    <3>1. CASE EdgesFrom(h, port) = {}
      BY <1>1, <1>12, <1>13, <2>4, <3>1 DEF Somewhere
    <3>2. CASE EdgesFrom(h, port) # {}
      <4>1. PICK e \in EdgesFrom(h, port) : \E k \in DOMAIN queue'[e] : queue'[e][k] = p
        BY <1>7, <3>2
      <4>2. e \in Edges
        BY DEF EdgesFrom
      <4>3. QED
        BY <1>5, <2>4, <4>1, <4>2 DEF Somewhere
    <3>3. QED
      BY <3>1, <3>2
  <2>5. CASE \E g \in Hosts \ {h} : held[g].id = id
    BY <2>1, <2>5 DEF Somewhere
  <2>6. CASE \E d \in delivered \cup consumed \cup dropped : d.id = id
    BY <1>1, <1>2, <2>6 DEF Somewhere
  <2>7. QED
    BY <2>2, <2>3, <2>4, <2>5, <2>6 DEF Somewhere
<1>15. EdgesFrom(h, port) = {} => Explained(c) /\ HasRecord(h, held[h].id, {})
  <2>1. verdict[h] = DecidedAction(ruleSet[h], View(held[h]))
    BY <1>4 DEF Decided
  <2>2. \A q \in Target(verdict[h]) : q = port
    BY <1>1, TargetIsOne
  <2>3. EdgesFrom(h, port) = {} => Explained(c)
    BY <1>13, <2>1, <2>2 DEF Explained
  <2>4. QED
    BY <1>4, <2>3 DEF HasRecord
<1>16. \A d \in consumed' : HasRecord(d.host, d.id, {})' /\ Explained(d)' /\ d.host \in Hosts
  <2>1. \A d : Explained(d)' <=> Explained(d)
    BY <1>2 DEF Explained
  <2>2. ASSUME NEW d \in consumed' PROVE HasRecord(d.host, d.id, {}) /\ Explained(d) /\ d.host \in Hosts
    <3>1. CASE d \in consumed
      BY <3>1 DEF Packets
    <3>2. CASE d = c /\ EdgesFrom(h, port) = {}
      BY <1>13, <1>15, <3>2
    <3>3. QED
      BY <1>1, <1>12, <3>1, <3>2
  <2>3. QED
    BY <1>9, <2>1, <2>2
<1>17. QED
  BY <1>2, <1>8, <1>11, <1>14, <1>16 DEF Packets

LEMMA DiscardPackets ==
  ASSUME Domains, AllHosts, Flow, Packets, NEW h \in Hosts, Discard(h)
  PROVE  Flow' /\ Packets'
<1> USE DEF evalVars, flowVars
<1>1. /\ UNCHANGED <<fed, queue, delivered, dropped, ruleSet, log>> /\ status[h] = "acting"
      /\ held' = [held EXCEPT ![h] = NoPacket]
      /\ consumed' = consumed \cup {InHand(h)}
      /\ verdict[h].kind \in {"drop", "tag"}
  BY DEF Discard
<1>2. PICK c : c = InHand(h)
  OBVIOUS
<1>3. c.id = held[h].id /\ c.host = h /\ c.view = View(held[h])
  BY <1>2 DEF InHand
<1>4. /\ Decided(h) /\ HasRecord(h, held[h].id, Target(verdict[h]))
  BY <1>1 DEF AllHosts, HostOk
<1>5. \A g \in Hosts : \A id, ports : HasRecord(g, id, ports)' <=> HasRecord(g, id, ports)
  BY <1>1 DEF HasRecord
<1>6. Flow' /\ OnEdges' /\ AtSinks'
  BY <1>1, <1>5 DEF Flow, Packets, OnEdges, AtSinks
<1>7. ASSUME NEW id \in 1 .. fed PROVE Somewhere(id)'
  <2>1. \A g \in Hosts \ {h} : held'[g] = held[g]
    BY <1>1 DEF Domains
  <2>2. Somewhere(id)
    BY DEF Packets
  <2>3. QED
    BY <1>1, <1>2, <1>3, <2>1, <2>2 DEF Somewhere
<1>8. HasRecord(h, c.id, {}) /\ Explained(c)
  BY <1>1, <1>3, <1>4 DEF HasRecord, Decided, Explained
<1>9. \A d \in consumed' : HasRecord(d.host, d.id, {})' /\ Explained(d)' /\ d.host \in Hosts
  <2>1. \A d : Explained(d)' <=> Explained(d)
    BY <1>1 DEF Explained
  <2>2. \A d \in consumed' : HasRecord(d.host, d.id, {}) /\ Explained(d) /\ d.host \in Hosts
    BY <1>1, <1>2, <1>3, <1>8 DEF Packets
  <2>3. QED
    BY <1>5, <2>1, <2>2
<1>10. QED
  BY <1>1, <1>6, <1>7, <1>9 DEF Packets

(* A failing host drops the packet in its hands.                           *)
LEMMA FailPackets ==
  ASSUME Domains, Flow, Packets, NEW h \in Hosts, NEW why, Fail(h, why)
  PROVE  Flow' /\ Packets'
<1> USE DEF evalVars
<1>1. /\ UNCHANGED <<fed, queue, delivered, consumed, ruleSet, log>>
      /\ held' = [held EXCEPT ![h] = NoPacket]
      /\ dropped' = dropped \cup {InHand(h)}
  BY DEF Fail
<1>2. PICK d : d = InHand(h)
  OBVIOUS
<1>3. d.id = held[h].id
  BY <1>2 DEF InHand
<1>4. \A g \in Hosts : \A id, ports : HasRecord(g, id, ports)' <=> HasRecord(g, id, ports)
  BY <1>1 DEF HasRecord
<1>5. Flow' /\ OnEdges' /\ AtSinks'
  BY <1>1, <1>4 DEF Flow, Packets, OnEdges, AtSinks
<1>6. ASSUME NEW id \in 1 .. fed PROVE Somewhere(id)'
  <2>1. \A g \in Hosts \ {h} : held'[g] = held[g]
    BY <1>1 DEF Domains
  <2>2. Somewhere(id)
    BY DEF Packets
  <2>3. QED
    BY <1>1, <1>2, <1>3, <2>1, <2>2 DEF Somewhere
<1>7. \A c \in consumed' : HasRecord(c.host, c.id, {})' /\ Explained(c)' /\ c.host \in Hosts
  BY <1>1, <1>4 DEF Packets, Explained
<1>8. QED
  BY <1>1, <1>5, <1>6, <1>7 DEF Packets

(* The other steps of a host move no packet.                               *)
LEMMA QuietPackets ==
  ASSUME Flow, Packets, UNCHANGED <<ruleSet, held, queue, fed, delivered, consumed, dropped>>,
         \A g \in Hosts : \A id, ports : HasRecord(g, id, ports) => HasRecord(g, id, ports)'
  PROVE  Flow' /\ Packets'
<1>1. Flow' /\ OnEdges' /\ AtSinks'
  BY DEF Flow, Packets, OnEdges, AtSinks
<1>2. \A id \in 1 .. fed : Somewhere(id)'
  BY DEF Packets, Somewhere
<1>3. \A c \in consumed' : HasRecord(c.host, c.id, {})' /\ Explained(c)' /\ c.host \in Hosts
  BY DEF Packets, Explained
<1>4. QED
  BY <1>1, <1>2, <1>3 DEF Packets

LEMMA FeedPackets ==
  ASSUME Domains, Flow, Packets, Feed
  PROVE  Flow' /\ Packets'
<1> USE DEF evalVars
<1>1. PICK e \in Edges, payload \in Payloads :
        /\ e.from = Source
        /\ queue' = [queue EXCEPT ![e] = Append(queue[e],
             [id |-> fed + 1, payload |-> payload, source |-> Source, port |-> IN_PORT])]
  BY DEF Feed
<1>2. /\ fed' = fed + 1 /\ fed \in Nat
      /\ UNCHANGED <<ruleSet, held, log, delivered, consumed, dropped>>
  BY DEF Feed, Flow
<1>3. PICK p : p = [id |-> fed + 1, payload |-> payload, source |-> Source, port |-> IN_PORT]
  OBVIOUS
<1>4. IsPacket(p) /\ p.id = fed + 1
  BY <1>3 DEF IsPacket
<1>5. queue'[e] = Append(queue[e], p) /\ \A g \in Edges \ {e} : queue'[g] = queue[g]
  BY <1>1, <1>3 DEF Domains
<1>6. /\ IsSeq(queue'[e]) /\ DOMAIN queue'[e] = DOMAIN queue[e] \cup {Len(queue[e]) + 1}
      /\ \A k \in DOMAIN queue[e] : queue'[e][k] = queue[e][k]
      /\ queue'[e][Len(queue[e]) + 1] = p
  BY <1>5, SeqAppend DEF Flow
<1>7. Flow'
  <2>1. \A k \in DOMAIN queue'[e] : IsPacket(queue'[e][k])
    BY <1>4, <1>6 DEF Flow
  <2>2. \A g \in Edges : IsSeq(queue'[g]) /\ \A k \in DOMAIN queue'[g] : IsPacket(queue'[g][k])
    BY <1>5, <1>6, <2>1 DEF Flow
  <2>3. QED
    BY <1>2, <2>2 DEF Flow
<1>8. \A g \in Hosts : \A id, ports : HasRecord(g, id, ports)' <=> HasRecord(g, id, ports)
  BY <1>2 DEF HasRecord
<1>9. OnEdges' /\ AtSinks'
  <2>1. e.from \notin Hosts
    BY <1>1, RuleNodesAssumption
  <2>2. QED
    BY <1>2, <1>5, <1>8, <2>1 DEF Packets, OnEdges, AtSinks
<1>10. ASSUME NEW id \in 1 .. fed' PROVE Somewhere(id)'
  <2>1. CASE id = fed + 1
    BY <1>4, <1>6, <2>1 DEF Somewhere
  <2>2. CASE id # fed + 1
    <3>1. id \in 1 .. fed
      BY <1>2, <2>2
    <3>2. Somewhere(id)
      BY <3>1 DEF Packets
    <3>3. CASE \E g \in Edges : \E k \in DOMAIN queue[g] : queue[g][k].id = id
      BY <1>5, <1>6, <3>3 DEF Somewhere
    <3>4. CASE \/ \E h \in Hosts : held[h].id = id
               \/ \E d \in delivered \cup consumed \cup dropped : d.id = id
      BY <1>2, <3>4 DEF Somewhere
    <3>5. QED
      BY <3>2, <3>3, <3>4 DEF Somewhere
  <2>3. QED
    BY <2>1, <2>2
<1>11. \A c \in consumed' : HasRecord(c.host, c.id, {})' /\ Explained(c)' /\ c.host \in Hosts
  BY <1>2, <1>8 DEF Packets, Explained
<1>12. QED
  BY <1>7, <1>9, <1>10, <1>11 DEF Packets

LEMMA TakePackets ==
  ASSUME Domains, Flow, Packets, NEW s, Take(s)
  PROVE  Flow' /\ Packets'
<1> USE DEF evalVars
<1>1. PICK e \in Edges :
        /\ queue[e] # <<>>
        /\ delivered' = delivered \cup {[edge |-> e, id |-> Head(queue[e]).id]}
        /\ queue' = [queue EXCEPT ![e] = Tail(queue[e])]
  BY DEF Take, EdgesTo
<1>2. UNCHANGED <<fed, ruleSet, held, log, consumed, dropped>>
  BY DEF Take
<1>3. /\ \A g \in Edges : /\ IsSeq(queue'[g])
                         /\ \A k \in DOMAIN queue'[g] :
                              \E l \in DOMAIN queue[g] : queue'[g][k] = queue[g][l]
      /\ \A g \in Edges : \A k \in DOMAIN queue[g] :
           \/ queue[g][k] = Head(queue[e])
           \/ \E l \in DOMAIN queue'[g] : queue'[g][l] = queue[g][k]
      /\ \E k \in DOMAIN queue[e] : Head(queue[e]) = queue[e][k]
  BY <1>1, Dequeued
<1>4. PICK d : d = [edge |-> e, id |-> Head(queue[e]).id]
  OBVIOUS
<1>5. d.edge = e /\ d.id = Head(queue[e]).id /\ delivered' = delivered \cup {d}
  BY <1>1, <1>4
<1>6. Flow'
  BY <1>2, <1>3 DEF Flow
<1>7. \A g \in Hosts : \A id, ports : HasRecord(g, id, ports)' <=> HasRecord(g, id, ports)
  BY <1>2 DEF HasRecord
<1>8. OnEdges'
  BY <1>3, <1>7 DEF Packets, OnEdges
<1>9. AtSinks'
  <2>1. e.from \in Hosts => HasRecord(e.from, d.id, {e.port})
    BY <1>3, <1>5 DEF Packets, OnEdges
  <2>2. QED
    BY <1>5, <1>7, <2>1 DEF Packets, AtSinks
<1>10. ASSUME NEW id \in 1 .. fed PROVE Somewhere(id)'
  <2>1. Somewhere(id)
    BY DEF Packets
  <2>2. CASE \E g \in Edges : \E k \in DOMAIN queue[g] : queue[g][k].id = id
    BY <1>3, <1>5, <2>2 DEF Somewhere
  <2>3. CASE \/ \E h \in Hosts : held[h].id = id
             \/ \E x \in delivered \cup consumed \cup dropped : x.id = id
    BY <1>2, <1>5, <2>3 DEF Somewhere
  <2>4. QED
    BY <2>1, <2>2, <2>3 DEF Somewhere
<1>11. \A c \in consumed' : HasRecord(c.host, c.id, {})' /\ Explained(c)' /\ c.host \in Hosts
  BY <1>2, <1>7 DEF Packets, Explained
<1>12. QED
  BY <1>2, <1>6, <1>8, <1>9, <1>10, <1>11 DEF Packets

-----------------------------------------------------------------------------

Inv == Domains /\ AllHosts /\ Flow /\ Packets

LEMMA InvInit == Init => Inv
<1>1. ASSUME Init PROVE Packets
  <2>1. /\ queue = [e \in Edges |-> <<>>] /\ delivered = {} /\ consumed = {} /\ fed = 0
    BY <1>1 DEF Init
  <2>2. \A e \in Edges : DOMAIN queue[e] = {}
    BY <2>1
  <2>3. 1 .. fed = {}
    BY <2>1
  <2>4. QED
    BY <2>1, <2>2, <2>3 DEF Packets, OnEdges, AtSinks
<1>2. QED
  BY <1>1, HostInit DEF Inv

LEMMA InvStep == Inv /\ [Next]_vars => Inv'
<1> SUFFICES ASSUME Inv, [Next]_vars PROVE Inv'
  OBVIOUS
<1> USE DEF Inv, evalVars, flowVars
<1>1. ASSUME NEW h \in Hosts, HostStep(h) PROVE Inv'
  <2>1. /\ UNCHANGED ruleSet /\ Domains'
        /\ \A g \in Hosts \ {h} : UNCHANGED HostVars(g)
    BY <1>1, StepOfHost
  <2>2. \A g \in Hosts : HostOk(g)'
    <3>1. HostOk(h)'
      BY <1>1, HostStepOk
    <3>2. \A g \in Hosts \ {h} : HostOk(g)'
      BY <2>1, HostFrame DEF AllHosts
    <3>3. QED
      BY <3>1, <3>2
  <2>3. AllHosts'
    BY <2>2 DEF AllHosts
  <2>4. Flow' /\ Packets'
    <3>1. CASE Receive(h)
      BY <3>1, ReceivePackets
    <3>2. CASE Send(h)
      BY <3>2, SendPackets
    <3>3. CASE Discard(h)
      BY <3>3, DiscardPackets
    <3>4. CASE GuestFails(h) \/ SendFails(h) \/ Halt(h)
      <4>1. PICK why : Fail(h, why)
        BY <3>4 DEF GuestFails, SendFails, Halt
      <4>2. QED
        BY <4>1, FailPackets
    <3>5. CASE ~(Receive(h) \/ Send(h) \/ Discard(h) \/ GuestFails(h) \/ SendFails(h) \/ Halt(h))
      <4>1. UNCHANGED <<held, queue, fed, delivered, consumed, dropped>>
        BY <1>1, <3>5 DEF HostStep, Load, ReceiveCancelled, EndOfInput, StopAtMatch, PassRule,
           FinishScan, RecordVerdict, CheckCancelled
      <4>2. QED
        BY <1>1, <2>1, <4>1, RecordsKept, QuietPackets
    <3>6. QED
      BY <3>1, <3>2, <3>3, <3>4, <3>5
  <2>5. QED
    BY <2>1, <2>3, <2>4
<1>2. ASSUME UNCHANGED <<ruleSet, rules, status, failure, held, scan, verdict, log>>
      PROVE  AllHosts' /\ \A g \in Hosts : \A id, ports : HasRecord(g, id, ports) => HasRecord(g, id, ports)'
  <2>1. \A g : UNCHANGED HostVars(g)
    BY <1>2 DEF HostVars
  <2>2. \A g \in Hosts : HostOk(g)'
    BY <2>1, HostFrame DEF AllHosts
  <2>3. QED
    BY <1>2, <2>2 DEF AllHosts, HasRecord
<1>3. CASE Feed
  <2>1. UNCHANGED <<ruleSet, rules, status, failure, held, scan, verdict, log>> /\ DOMAIN queue' = DOMAIN queue
    BY <1>3 DEF Feed
  <2>2. QED
    BY <1>2, <1>3, <2>1, FeedPackets DEF Domains
<1>4. ASSUME NEW s \in Sinks, Take(s) PROVE Inv'
  <2>1. UNCHANGED <<ruleSet, rules, status, failure, held, scan, verdict, log>> /\ DOMAIN queue' = DOMAIN queue
    BY <1>4 DEF Take
  <2>2. QED
    BY <1>2, <1>4, <2>1, TakePackets DEF Domains
<1>5. ASSUME UNCHANGED <<ruleSet, rules, status, failure, held, scan, verdict, log,
                         queue, fed, delivered, consumed, dropped>>
      PROVE  Inv'
  BY <1>2, <1>5, QuietPackets DEF Domains
<1>6. ASSUME NEW n \in Sinks \cup {Source}, Leave(n) PROVE Inv'
  BY <1>5, <1>6 DEF Leave
<1>7. CASE Cancel
  BY <1>5, <1>7 DEF Cancel
<1>8. CASE UNCHANGED vars
  BY <1>5, <1>8 DEF vars
<1>9. QED
  BY <1>1, <1>3, <1>4, <1>6, <1>7, <1>8 DEF Next

LEMMA RuleInvariant == Spec => []Inv
<1>1. QED
  BY InvInit, InvStep, PTL DEF Spec

(* Whatever the rule sets, their priorities and the conditions mean, the   *)
(* evaluator's loop over the sorted rules returns the action and the tags  *)
(* that the rule set decides as it was declared.                           *)
THEOREM EvaluatorFindsDecision == Spec => []DecisionIsBest
<1>1. Inv => DecisionIsBest
  BY DEF Inv, AllHosts, HostOk, Decided, DecisionIsBest
<1>2. QED
  BY <1>1, RuleInvariant, PTL

-----------------------------------------------------------------------------
(* Packets that a failed host took along *)

(* Why a packet was dropped, and that its host has said so.                *)
DropOk(d) ==
  /\ d.host \in Hosts /\ failure[d.host] # "none"
  /\ failure[d.host] = "halt" => DecidedAction(ruleSet[d.host], d.view).kind = "halt"
  /\ failure[d.host] = "send" =>
       \/ cancelled
       \/ \E port \in Target(DecidedAction(ruleSet[d.host], d.view)) :
            \E e \in EdgesFrom(d.host, port) : ~Alive(e.to)
  /\ failure[d.host] \in {"unknown_port", "send", "halt"} => HasRecord(d.host, d.id, {})

Drops ==
  /\ \A d \in dropped : DropOk(d)
  /\ \A d, other \in dropped : other.host = d.host => other = d
  /\ \A h \in Hosts : failure[h] # "none" => \E d \in dropped : d.host = h

Drained == \A e \in Edges : e.to \in Hosts /\ status[e.to] = "done" => queue[e] = <<>>

(* What a step never undoes.                                               *)
Lasting ==
  /\ UNCHANGED ruleSet
  /\ cancelled => cancelled'
  /\ \A n : ~Alive(n) => ~Alive(n)'
  /\ \A g \in Hosts : failure[g] # "none" => failure'[g] = failure[g]
  /\ \A g \in Hosts : \A id, ports : HasRecord(g, id, ports) => HasRecord(g, id, ports)'

LEMMA DropLasts ==
  ASSUME Lasting, NEW d, DropOk(d)
  PROVE  DropOk(d)'
<1>1. d.host \in Hosts /\ failure[d.host] # "none" /\ failure'[d.host] = failure[d.host]
  BY DEF DropOk, Lasting
<1>2. HasRecord(d.host, d.id, {}) => HasRecord(d.host, d.id, {})'
  BY <1>1 DEF Lasting
<1>3. ruleSet' = ruleSet /\ (cancelled => cancelled') /\ \A n : ~Alive(n) => ~Alive(n)'
  BY DEF Lasting
<1>4. QED
  BY <1>1, <1>2, <1>3 DEF DropOk

(* A host that has ended takes no step.                                    *)
LEMMA EndedHost ==
  ASSUME NEW h, HostStep(h)
  PROVE  status[h] \notin Ended
  BY DEF Ended, HostStep, Load, Receive, ReceiveCancelled, EndOfInput, StopAtMatch, PassRule, FinishScan,
         Evaluating, GuestFails, RecordVerdict, Send, SendFails, Discard, Halt, CheckCancelled

LEMMA HostStepLasts ==
  ASSUME Inv, NEW h \in Hosts, HostStep(h)
  PROVE  Lasting
<1> USE DEF evalVars, flowVars
<1>1. /\ UNCHANGED ruleSet
      /\ \A g \in Hosts \ {h} : UNCHANGED HostVars(g)
  BY StepOfHost DEF Inv
<1>2. UNCHANGED <<cancelled, gone>>
  BY DEF HostStep, Load, Receive, ReceiveCancelled, EndOfInput, StopAtMatch, PassRule, FinishScan,
         Fail, GuestFails, RecordVerdict, Send, SendFails, Discard, Halt, CheckCancelled
<1>3. status[h] \notin Ended
  BY EndedHost
<1>4. \A n : ~Alive(n) => ~Alive(n)'
  <2>1. \A g \in Hosts \ {h} : status'[g] = status[g]
    BY <1>1 DEF HostVars
  <2>2. QED
    BY <1>2, <1>3, <2>1 DEF Alive
<1>5. failure[h] = "none"
  BY <1>3 DEF Inv, AllHosts, HostOk, Ended
<1>6. \A g \in Hosts : failure[g] # "none" => failure'[g] = failure[g]
  BY <1>1, <1>5 DEF HostVars
<1>7. \A g \in Hosts : \A id, ports : HasRecord(g, id, ports) => HasRecord(g, id, ports)'
  BY RecordsKept DEF Inv
<1>8. QED
  BY <1>1, <1>2, <1>4, <1>6, <1>7 DEF Lasting

LEMMA QuietLasts ==
  ASSUME UNCHANGED <<ruleSet, status, failure, log>>, cancelled => cancelled', gone \subseteq gone'
  PROVE  Lasting
  BY DEF Lasting, Alive, HasRecord

(* Nothing is dropped: what was said of the dropped packets stays true.    *)
LEMMA QuietDrops ==
  ASSUME Drops, Lasting, UNCHANGED <<dropped, failure>>
  PROVE  Drops'
<1>1. \A d \in dropped : DropOk(d)'
  BY DropLasts DEF Drops
<1>2. QED
  BY <1>1 DEF Drops

LEMMA FailDrops ==
  ASSUME Inv, Drops, Lasting, NEW h \in Hosts, NEW why, Fail(h, why), why # "none",
         status[h] \notin Ended,
         why \in {"unknown_port", "send", "halt"} =>
           status[h] = "acting",
         why = "halt" => verdict[h].kind = "halt",
         why = "send" => cancelled \/ \E port \in Target(verdict[h]) :
                           \E e \in EdgesFrom(h, port) : ~Alive(e.to)
  PROVE  Drops'
<1> USE DEF evalVars
<1>1. /\ failure'[h] = why /\ \A g \in Hosts \ {h} : failure'[g] = failure[g]
      /\ dropped' = dropped \cup {InHand(h)}
  BY DEF Fail, Inv, Domains
<1>2. PICK c : c = InHand(h)
  OBVIOUS
<1>3. c.id = held[h].id /\ c.host = h /\ c.view = View(held[h])
  BY <1>2 DEF InHand
<1>4. failure[h] = "none"
  BY DEF Inv, AllHosts, HostOk, Ended
<1>5. \A d \in dropped : d.host # h /\ DropOk(d)'
  BY <1>4, DropLasts DEF Drops, DropOk
<1>6. why \in {"unknown_port", "send", "halt"} =>
        HasRecord(h, c.id, {})' /\ verdict[h] = DecidedAction(ruleSet[h], c.view)
  <2>1. ASSUME status[h] = "acting"
        PROVE  /\ HasRecord(h, held[h].id, Target(verdict[h]))
               /\ verdict[h] = DecidedAction(ruleSet[h], View(held[h]))
    BY <2>1 DEF Inv, AllHosts, HostOk, Decided
  <2>2. HasRecord(h, held[h].id, Target(verdict[h])) => HasRecord(h, c.id, {})
    BY <1>3 DEF HasRecord
  <2>3. HasRecord(h, c.id, {}) => HasRecord(h, c.id, {})'
    BY DEF Lasting
  <2>4. QED
    BY <1>3, <2>1, <2>2, <2>3
<1>7. DropOk(c)'
  <2>1. UNCHANGED <<ruleSet, cancelled>> /\ \A n : ~Alive(n) => ~Alive(n)'
    BY DEF Fail, Lasting
  <2>2. why = "halt" => DecidedAction(ruleSet'[h], c.view).kind = "halt"
    BY <1>6, <2>1
  <2>3. why = "send" => \/ cancelled'
                        \/ \E port \in Target(DecidedAction(ruleSet'[h], c.view)) :
                             \E e \in EdgesFrom(h, port) : (~Alive(e.to))'
    BY <1>6, <2>1
  <2>4. QED
    BY <1>1, <1>3, <1>6, <2>2, <2>3 DEF DropOk
<1>8. \A d, other \in dropped' : other.host = d.host => other = d
  BY <1>1, <1>2, <1>3, <1>5 DEF Drops
<1>9. \A g \in Hosts : failure'[g] # "none" => \E d \in dropped' : d.host = g
  BY <1>1, <1>2, <1>3 DEF Drops
<1>10. QED
  BY <1>1, <1>2, <1>5, <1>7, <1>8, <1>9 DEF Drops

LEMMA HostStepDrops ==
  ASSUME Inv, Drops, Drained, NEW h \in Hosts, HostStep(h)
  PROVE  Drops' /\ Drained'
<1> USE DEF evalVars, flowVars
<1>1. Lasting /\ status[h] \notin Ended
  BY HostStepLasts, EndedHost
<1>2. Domains /\ Flow
  BY DEF Inv
<1>3. \A g \in Hosts \ {h} : status'[g] = status[g]
  BY StepOfHost DEF Inv, HostVars
<1>4. ASSUME \A e \in Edges : queue[e] = <<>> /\ ~Alive(e.to) => queue'[e] = <<>>,
             status'[h] # "done"
      PROVE  Drained'
  BY <1>3, <1>4 DEF Drained, Alive, Ended
<1>5. ASSUME UNCHANGED queue, status'[h] # "done" PROVE Drained'
  BY <1>4, <1>5
<1>6. CASE GuestFails(h)
  <2>1. Fail(h, "guest")
    BY <1>6 DEF GuestFails
  <2>2. Drops'
    BY <1>1, <2>1, FailDrops
  <2>3. UNCHANGED queue /\ status'[h] # "done"
    BY <1>2, <2>1 DEF Fail, Domains
  <2>4. QED
    BY <1>5, <2>2, <2>3
<1>7. CASE SendFails(h)
  <2>1. PICK why \in {"unknown_port", "send"} :
          /\ Fail(h, why)
          /\ why = "send" => cancelled \/ \E port \in Target(verdict[h]) :
                               \E e \in EdgesFrom(h, port) : ~Alive(e.to)
    BY <1>7 DEF SendFails
  <2>2. status[h] = "acting"
    BY <1>7 DEF SendFails
  <2>3. Drops'
    BY <1>1, <2>1, <2>2, FailDrops
  <2>4. UNCHANGED queue /\ status'[h] # "done"
    BY <1>2, <2>1 DEF Fail, Domains
  <2>5. QED
    BY <1>5, <2>3, <2>4
<1>8. CASE Halt(h)
  <2>1. Fail(h, "halt") /\ status[h] = "acting" /\ verdict[h].kind = "halt"
    BY <1>8 DEF Halt
  <2>2. Drops'
    BY <1>1, <2>1, FailDrops
  <2>3. UNCHANGED queue /\ status'[h] # "done"
    BY <1>2, <2>1 DEF Fail, Domains
  <2>4. QED
    BY <1>5, <2>2, <2>3
<1>9. ASSUME ~(GuestFails(h) \/ SendFails(h) \/ Halt(h)) PROVE Drops'
  <2>1. UNCHANGED <<dropped, failure>>
    BY <1>9 DEF HostStep, Load, Receive, ReceiveCancelled, EndOfInput, StopAtMatch, PassRule,
       FinishScan, RecordVerdict, Send, Discard, CheckCancelled
  <2>2. QED
    BY <1>1, <2>1, QuietDrops
<1>10. CASE Receive(h)
  <2>1. PICK e \in Edges : queue[e] # <<>> /\ queue' = [queue EXCEPT ![e] = Tail(queue[e])]
    BY <1>10 DEF Receive, EdgesTo
  <2>2. \A g \in Edges : queue[g] = <<>> => queue'[g] = <<>>
    BY <1>2, <2>1 DEF Domains
  <2>3. status'[h] # "done"
    BY <1>2, <1>10 DEF Receive, Domains
  <2>4. Drained'
    BY <1>4, <2>2, <2>3
  <2>5. QED
    BY <1>9, <1>10, <2>4 DEF Receive, GuestFails, SendFails, Halt
<1>11. CASE Send(h)
  <2>1. PICK port : /\ CanSend(EdgesFrom(h, port))
                    /\ queue' = Delivering(EdgesFrom(h, port), Forwarded(h, port))
    BY <1>11 DEF Send
  <2>2. \A e \in Edges : ~Alive(e.to) => queue'[e] = queue[e]
    BY <2>1 DEF CanSend, Delivering
  <2>3. status'[h] # "done"
    BY <1>2, <1>11 DEF Send, Domains
  <2>4. Drained'
    BY <1>4, <2>2, <2>3
  <2>5. UNCHANGED <<dropped, failure>>
    BY <1>11 DEF Send
  <2>6. QED
    BY <1>1, <2>4, <2>5, QuietDrops
<1>12. CASE EndOfInput(h)
  <2>1. /\ UNCHANGED <<queue, dropped, failure>>
        /\ \A e \in EdgesTo(h) : queue[e] = <<>>
    BY <1>12 DEF EndOfInput
  <2>2. Drained'
    BY <1>3, <2>1 DEF Drained, EdgesTo
  <2>3. QED
    BY <1>1, <2>1, <2>2, QuietDrops
<1>13. CASE ~(\/ GuestFails(h) \/ SendFails(h) \/ Halt(h) \/ Receive(h) \/ Send(h) \/ EndOfInput(h))
  <2>1. UNCHANGED queue /\ status'[h] # "done"
    BY <1>1, <1>2, <1>13 DEF HostStep, Load, ReceiveCancelled, StopAtMatch, PassRule,
       FinishScan, RecordVerdict, Discard, CheckCancelled, Domains, Ended
  <2>2. QED
    BY <1>5, <1>9, <1>13, <2>1
<1>14. QED
  BY <1>6, <1>7, <1>8, <1>10, <1>11, <1>12, <1>13

LEMMA DropsStep == Inv /\ Drops /\ Drained /\ [Next]_vars => Drops' /\ Drained'
<1> SUFFICES ASSUME Inv, Drops, Drained, [Next]_vars PROVE Drops' /\ Drained'
  OBVIOUS
<1> USE DEF evalVars, flowVars
<1>1. ASSUME UNCHANGED <<ruleSet, status, failure, log, dropped>>, cancelled => cancelled',
             gone \subseteq gone',
             \A e \in Edges : queue[e] = <<>> /\ ~Alive(e.to) => queue'[e] = <<>>
      PROVE  Drops' /\ Drained'
  <2>1. Drops'
    BY <1>1, QuietLasts, QuietDrops
  <2>2. Drained'
    BY <1>1 DEF Drained, Alive, Ended
  <2>3. QED
    BY <2>1, <2>2
<1>2. ASSUME NEW h \in Hosts, HostStep(h) PROVE Drops' /\ Drained'
  BY <1>2, HostStepDrops
<1>3. CASE Feed
  <2>1. PICK e \in Edges : Alive(e.to) /\ \E p : queue' = [queue EXCEPT ![e] = Append(queue[e], p)]
    BY <1>3 DEF Feed
  <2>2. \A g \in Edges : ~Alive(g.to) => queue'[g] = queue[g]
    BY <2>1 DEF Inv, Domains
  <2>3. QED
    BY <1>1, <1>3, <2>2 DEF Feed
<1>4. ASSUME NEW s \in Sinks, Take(s) PROVE Drops' /\ Drained'
  <2>1. PICK e \in Edges : queue[e] # <<>> /\ queue' = [queue EXCEPT ![e] = Tail(queue[e])]
    BY <1>4 DEF Take, EdgesTo
  <2>2. \A g \in Edges : queue[g] = <<>> => queue'[g] = <<>>
    BY <2>1 DEF Inv, Domains
  <2>3. QED
    BY <1>1, <1>4, <2>2 DEF Take
<1>5. ASSUME NEW n, Leave(n) PROVE Drops' /\ Drained'
  BY <1>1, <1>5 DEF Leave
<1>6. CASE Cancel
  BY <1>1, <1>6 DEF Cancel
<1>7. CASE UNCHANGED vars
  BY <1>1, <1>7 DEF vars
<1>8. QED
  BY <1>2, <1>3, <1>4, <1>5, <1>6, <1>7 DEF Next

LEMMA DropsInvariant == Spec => [](Drops /\ Drained)
<1>1. Init => Drops /\ Drained
  BY DEF Init, Drops, Drained
<1>2. QED
  BY <1>1, DropsStep, RuleInvariant, PTL DEF Spec

(* Every packet that left a host, was consumed by it or made it fail had   *)
(* been recorded before, with the port it was sent to.                     *)
THEOREM EveryActionIsRecorded == Spec => []AuditTrail
<1>1. Inv /\ Drops => AuditTrail
  <2> SUFFICES ASSUME Inv, Drops PROVE AuditTrail
    OBVIOUS
  <2>1. ASSUME NEW h \in Hosts, failure[h] \in {"unknown_port", "send", "halt"}
        PROVE  \E d \in dropped : d.host = h /\ HasRecord(h, d.id, {})
    BY <2>1 DEF Drops, DropOk
  <2>2. QED
    BY <2>1 DEF Inv, Packets, OnEdges, AtSinks, AuditTrail
<1>2. QED
  BY <1>1, RuleInvariant, DropsInvariant, PTL

(* In every workflow of rule nodes, whatever fails or is cancelled, each   *)
(* packet fed is on its way, with a consumer, or finished with by a host   *)
(* whose rule set discards it; the others were taken along by a node that  *)
(* ended early, one in hand per host and with an error that explains it.   *)
(* A host that ended well has lost none.                                   *)
THEOREM NoPacketIsLost == Spec => []NothingLost
<1>1. Inv /\ Drops /\ Drained => NothingLost
  <2> SUFFICES ASSUME Inv, Drops, Drained PROVE NothingLost
    OBVIOUS
  <2>1. ASSUME NEW id \in 1 .. fed
        PROVE  \/ \E e \in Edges : OnEdge(id, e) /\ (Alive(e.to) \/ EndedEarly(e.to))
               \/ \E h \in Hosts : held[h].id = id /\ Alive(h)
               \/ \E d \in delivered \cup consumed \cup dropped : d.id = id
    <3>1. Somewhere(id)
      BY DEF Inv, Packets
    <3>2. ASSUME NEW e \in Edges, NEW k \in DOMAIN queue[e], queue[e][k].id = id
          PROVE  OnEdge(id, e) /\ (Alive(e.to) \/ EndedEarly(e.to))
      <4>1. queue[e] # <<>>
        OBVIOUS
      <4>2. ~(e.to \in Hosts /\ status[e.to] = "done")
        BY <4>1 DEF Drained
      <4>3. QED
        BY <3>2, <4>2 DEF OnEdge, Alive, EndedEarly, Ended
    <3>3. ASSUME NEW h \in Hosts, held[h].id = id PROVE Alive(h)
      <4>1. held[h] # NoPacket
        BY <3>3 DEF NoPacket, Inv, Flow
      <4>2. QED
        BY <4>1 DEF Inv, AllHosts, HostOk, Alive, Ended
    <3>4. QED
      BY <3>1, <3>2, <3>3 DEF Somewhere
  <2>2. \A c \in consumed : Explained(c)
    BY DEF Inv, Packets
  <2>3. QED
    BY <2>1, <2>2 DEF Explained, Drops, DropOk, Drained, NothingLost
<1>2. QED
  BY <1>1, RuleInvariant, DropsInvariant, PTL

-----------------------------------------------------------------------------
(* What the contract foretells *)

ActionsOf(rs) == {rs.default} \cup {rs.rules[i].action : i \in DOMAIN rs.rules}

(* A packet on an edge names the node at the edge's start; so a packet in  *)
(* a host's hands comes from a node with an edge to the host.              *)
NamesSender == \A e \in Edges : \A k \in DOMAIN queue[e] : queue[e][k].source = e.from /\ e.from \in Nodes

CameAlong(p, h) == p.source \in Nodes /\ \E e \in Edges : e.from = p.source /\ e.to = h

HeldCameAlong == \A h \in Hosts : held[h] # NoPacket => CameAlong(held[h], h)

(* A send to an undeclared port is an action of the rule set.              *)
NamesUndeclared(h) == \E action \in ActionsOf(ruleSet[h]) : \E port \in Target(action) : port \notin Outputs[h]

UnknownIsNamed == \A h \in Hosts : failure[h] = "unknown_port" => NamesUndeclared(h)

LEMMA DecidedIsDeclared ==
  ASSUME NEW rs, NEW view
  PROVE  DecidedAction(rs, view) \in ActionsOf(rs)
<1>1. DecidingRules(rs, view) \subseteq DOMAIN rs.rules
  BY DEF DecidingRules, MatchingRules
<1>2. QED
  BY <1>1 DEF DecidedAction, ActionsOf

LEMMA ForetoldInit == Init => NamesSender /\ HeldCameAlong /\ UnknownIsNamed
<1> SUFFICES ASSUME Init PROVE NamesSender /\ HeldCameAlong /\ UnknownIsNamed
  OBVIOUS
<1>1. \A e \in Edges : queue[e] = <<>> /\ DOMAIN queue[e] = {}
  BY DEF Init
<1>2. \A h \in Hosts : held[h] = NoPacket /\ failure[h] = "none"
  BY DEF Init
<1>3. QED
  BY <1>1, <1>2 DEF NamesSender, HeldCameAlong, UnknownIsNamed

LEMMA ForetoldStep ==
  Inv /\ NamesSender /\ HeldCameAlong /\ UnknownIsNamed /\ [Next]_vars
    => (NamesSender /\ HeldCameAlong /\ UnknownIsNamed)'
<1> SUFFICES ASSUME Inv, NamesSender, HeldCameAlong, UnknownIsNamed, [Next]_vars
             PROVE  (NamesSender /\ HeldCameAlong /\ UnknownIsNamed)'
  OBVIOUS
<1> USE DEF evalVars, flowVars
<1>i. Domains /\ AllHosts /\ Flow
  BY DEF Inv
<1>q. ASSUME UNCHANGED queue PROVE NamesSender'
  BY <1>q DEF NamesSender
<1>h. ASSUME UNCHANGED held PROVE HeldCameAlong'
  BY <1>h DEF HeldCameAlong, CameAlong
<1>f. ASSUME UNCHANGED <<ruleSet, failure>> PROVE UnknownIsNamed'
  BY <1>f DEF UnknownIsNamed, NamesUndeclared
<1>g. ASSUME NEW h \in Hosts, UNCHANGED ruleSet, NEW v, failure' = [failure EXCEPT ![h] = v],
             v = "unknown_port" => NamesUndeclared(h)
      PROVE  UnknownIsNamed'
  <2>1. ASSUME NEW g \in Hosts, failure'[g] = "unknown_port" PROVE NamesUndeclared(g)
    BY <1>g, <1>i, <2>1 DEF Domains, UnknownIsNamed
  <2>2. \A g \in Hosts : NamesUndeclared(g)' <=> NamesUndeclared(g)
    BY <1>g DEF NamesUndeclared
  <2>3. QED
    BY <2>1, <2>2 DEF UnknownIsNamed
<1>d. ASSUME NEW h \in Hosts, held' = [held EXCEPT ![h] = NoPacket] PROVE HeldCameAlong'
  BY <1>d, <1>i DEF Domains, HeldCameAlong, CameAlong
<1>1. ASSUME NEW h \in Hosts, HostStep(h) PROVE (NamesSender /\ HeldCameAlong /\ UnknownIsNamed)'
  <2>1. CASE Receive(h)
    <3>1. PICK e \in Edges : /\ e.to = h /\ queue[e] # <<>>
                             /\ held' = [held EXCEPT ![h] = Head(queue[e])]
                             /\ queue' = [queue EXCEPT ![e] = Tail(queue[e])]
      BY <2>1 DEF Receive, EdgesTo
    <3>2. /\ \A g \in Edges : \A k \in DOMAIN queue'[g] :
               \E l \in DOMAIN queue[g] : queue'[g][k] = queue[g][l]
          /\ \E k \in DOMAIN queue[e] : Head(queue[e]) = queue[e][k]
      BY <1>i, <3>1, Dequeued
    <3>3. NamesSender'
      BY <3>2 DEF NamesSender
    <3>4. CameAlong(Head(queue[e]), h)
      BY <3>1, <3>2 DEF NamesSender, CameAlong
    <3>5. ASSUME NEW g \in Hosts, held'[g] # NoPacket PROVE CameAlong(held'[g], g)
      <4>1. CASE g = h
        BY <1>i, <3>1, <3>4, <4>1 DEF Domains
      <4>2. CASE g # h
        BY <1>i, <3>1, <3>5, <4>2 DEF Domains, HeldCameAlong
      <4>3. QED
        BY <4>1, <4>2
    <3>6. HeldCameAlong'
      BY <3>5 DEF HeldCameAlong, CameAlong
    <3>7. UnknownIsNamed'
      BY <1>f, <2>1 DEF Receive
    <3>8. QED
      BY <3>3, <3>6, <3>7
  <2>2. CASE Send(h)
    <3>1. PICK port : queue' = Delivering(EdgesFrom(h, port), Forwarded(h, port))
      BY <2>2 DEF Send
    <3>2. status[h] = "acting" /\ held' = [held EXCEPT ![h] = NoPacket] /\ UNCHANGED <<ruleSet, failure>>
      BY <2>2 DEF Send
    <3>3. PICK p : p = Forwarded(h, port)
      OBVIOUS
    <3>4. IsPacket(held[h])
      BY <1>i, <3>2 DEF AllHosts, HostOk
    <3>5. p.source = h /\ h \in Nodes
      BY <3>3, <3>4 DEF Forwarded, IsPacket, Nodes
    <3>6. \A e \in Edges : queue'[e] = IF e \in EdgesFrom(h, port) THEN Append(queue[e], p) ELSE queue[e]
      BY <3>1, <3>3 DEF Delivering
    <3>7. \A e \in EdgesFrom(h, port) : e \in Edges /\ e.from = h
      BY DEF EdgesFrom
    <3>8. \A e \in Edges : /\ Len(queue[e]) \in Nat
                           /\ DOMAIN Append(queue[e], p) = DOMAIN queue[e] \cup {Len(queue[e]) + 1}
                           /\ \A k \in DOMAIN queue[e] : Append(queue[e], p)[k] = queue[e][k]
                           /\ Append(queue[e], p)[Len(queue[e]) + 1] = p
      BY <1>i, SeqAppend DEF Flow
    <3>9. ASSUME NEW e \in Edges, NEW k \in DOMAIN queue'[e]
          PROVE  queue'[e][k].source = e.from /\ e.from \in Nodes
      <4>1. \/ k \in DOMAIN queue[e] /\ queue'[e][k] = queue[e][k]
            \/ e \in EdgesFrom(h, port) /\ queue'[e][k] = p
        BY <3>6, <3>8, <3>9
      <4>2. QED
        BY <3>5, <3>7, <4>1 DEF NamesSender
    <3>10. NamesSender'
      BY <3>9 DEF NamesSender
    <3>11. QED
      BY <1>d, <1>f, <3>2, <3>10
  <2>3. CASE Discard(h)
    BY <1>d, <1>f, <1>q, <2>3 DEF Discard
  <2>4. CASE SendFails(h)
    <3>1. PICK v : /\ Fail(h, v)
                   /\ v = "unknown_port" => \E port \in Target(verdict[h]) : port \notin Outputs[h]
      BY <2>4 DEF SendFails
    <3>2. /\ status[h] = "acting" /\ UNCHANGED <<ruleSet, queue>>
          /\ failure' = [failure EXCEPT ![h] = v] /\ held' = [held EXCEPT ![h] = NoPacket]
      BY <2>4, <3>1 DEF SendFails, Fail
    <3>3. verdict[h] \in ActionsOf(ruleSet[h])
      BY <1>i, <3>2, DecidedIsDeclared DEF AllHosts, HostOk, Decided
    <3>4. v = "unknown_port" => NamesUndeclared(h)
      BY <3>1, <3>3 DEF NamesUndeclared
    <3>5. QED
      BY <1>d, <1>g, <1>q, <3>2, <3>4
  <2>5. CASE GuestFails(h) \/ Halt(h)
    BY <1>d, <1>g, <1>q, <2>5 DEF GuestFails, Halt, Fail
  <2>6. CASE ~(Receive(h) \/ Send(h) \/ Discard(h) \/ SendFails(h) \/ GuestFails(h) \/ Halt(h))
    <3>1. UNCHANGED <<ruleSet, failure, held, queue>>
      BY <1>1, <2>6 DEF HostStep, Load, ReceiveCancelled, EndOfInput, StopAtMatch, PassRule,
         FinishScan, RecordVerdict, CheckCancelled
    <3>2. QED
      BY <1>f, <1>h, <1>q, <3>1
  <2>7. QED
    BY <2>1, <2>2, <2>3, <2>4, <2>5, <2>6
<1>2. CASE Feed
  <2>1. PICK e \in Edges : \E p :
          /\ e.from = Source /\ p.source = Source
          /\ queue' = [queue EXCEPT ![e] = Append(queue[e], p)]
    <3>1. PICK e \in Edges, payload \in Payloads :
            /\ e.from = Source
            /\ queue' = [queue EXCEPT ![e] = Append(queue[e],
                 [id |-> fed + 1, payload |-> payload, source |-> Source, port |-> IN_PORT])]
      BY <1>2 DEF Feed
    <3>2. PICK p : p = [id |-> fed + 1, payload |-> payload, source |-> Source, port |-> IN_PORT]
      OBVIOUS
    <3>3. p.source = Source
      BY <3>2
    <3>4. QED
      BY <3>1, <3>2, <3>3
  <2>p. PICK p : /\ e.from = Source /\ p.source = Source
                 /\ queue' = [queue EXCEPT ![e] = Append(queue[e], p)]
    BY <2>1
  <2>2. /\ DOMAIN Append(queue[e], p) = DOMAIN queue[e] \cup {Len(queue[e]) + 1}
        /\ \A k \in DOMAIN queue[e] : Append(queue[e], p)[k] = queue[e][k]
        /\ Append(queue[e], p)[Len(queue[e]) + 1] = p
    BY <1>i, SeqAppend DEF Flow
  <2>3. queue'[e] = Append(queue[e], p) /\ \A g \in Edges \ {e} : queue'[g] = queue[g]
    BY <1>i, <2>p DEF Domains
  <2>4. ASSUME NEW g \in Edges, NEW k \in DOMAIN queue'[g]
        PROVE  queue'[g][k].source = g.from /\ g.from \in Nodes
    BY <2>p, <2>2, <2>3 DEF NamesSender, Nodes
  <2>5. NamesSender'
    BY <2>4 DEF NamesSender
  <2>6. QED
    BY <1>2, <1>f, <1>h, <2>5 DEF Feed
<1>3. ASSUME NEW s \in Sinks, Take(s) PROVE (NamesSender /\ HeldCameAlong /\ UnknownIsNamed)'
  <2>1. PICK e \in Edges : queue[e] # <<>> /\ queue' = [queue EXCEPT ![e] = Tail(queue[e])]
    BY <1>3 DEF Take, EdgesTo
  <2>2. \A g \in Edges : \A k \in DOMAIN queue'[g] :
          \E l \in DOMAIN queue[g] : queue'[g][k] = queue[g][l]
    BY <1>i, <2>1, Dequeued
  <2>3. NamesSender'
    BY <2>2 DEF NamesSender
  <2>4. QED
    BY <1>3, <1>f, <1>h, <2>3 DEF Take
<1>4. ASSUME UNCHANGED <<ruleSet, failure, held, queue>>
      PROVE  (NamesSender /\ HeldCameAlong /\ UnknownIsNamed)'
  BY <1>4, <1>f, <1>h, <1>q
<1>5. ASSUME NEW n, Leave(n) PROVE (NamesSender /\ HeldCameAlong /\ UnknownIsNamed)'
  BY <1>4, <1>5 DEF Leave
<1>6. CASE Cancel
  BY <1>4, <1>6 DEF Cancel
<1>7. CASE UNCHANGED vars
  BY <1>4, <1>7 DEF vars
<1>8. QED
  BY <1>1, <1>2, <1>3, <1>5, <1>6, <1>7 DEF Next

(* A node with an edge to h is reported neither as unknown nor as without  *)
(* a path to h.                                                            *)
LEMMA SenderHasPath ==
  ASSUME NEW p, NEW h, CameAlong(p, h)
  PROVE  p.source \in Nodes /\ HasPath(p.source, h)
<1>1. p.source \in Visited(p.source)
  BY DEF CameAlong, Visited
<1>2. QED
  BY <1>1 DEF CameAlong, HasPath

(* What is reported of a rule set is reported of its default action or of  *)
(* one of its rules.                                                       *)
LEMMA ReportsOf ==
  ASSUME NEW h \in Nodes, NEW rs, NEW v
  PROVE  v \in RuleSetViolations(h, rs) <=>
           \/ v \in ActionViolations(h, DefaultAction, rs.default)
           \/ \E i \in DOMAIN rs.rules :
                v \in ActionViolations(h, rs.rules[i].id, rs.rules[i].action)
                      \cup ProvenanceViolations(h, rs.rules[i])
<1> DEFINE Reports(r) == ActionViolations(h, r.id, r.action) \cup ProvenanceViolations(h, r)
           R == {rs.rules[i] : i \in DOMAIN rs.rules}
<1>1. RuleSetViolations(h, rs) = ActionViolations(h, DefaultAction, rs.default) \cup
                                 UNION {Reports(r) : r \in R}
  BY DEF RuleSetViolations
<1> HIDE DEF Reports
<1>2. v \in UNION {Reports(r) : r \in R} <=> \E i \in DOMAIN rs.rules : v \in Reports(rs.rules[i])
  OBVIOUS
<1>3. QED
  BY <1>1, <1>2 DEF Reports

(* An action of the rule set that names an undeclared port is reported.    *)
LEMMA UndeclaredIsReported ==
  ASSUME NEW h \in Hosts, NamesUndeclared(h)
  PROVE  RuleSetViolations(h, ruleSet[h]) # {}
<1> DEFINE rs == ruleSet[h]
<1>1. PICK action \in ActionsOf(rs) : \E port \in Target(action) : port \notin Outputs[h]
  BY DEF NamesUndeclared
<1>2. \A site : ActionViolations(h, site, action) # {}
  BY <1>1 DEF ActionViolations
<1>3. h \in Nodes
  BY DEF Nodes
<1>4. CASE action = rs.default
  <2>1. ActionViolations(h, DefaultAction, rs.default) \subseteq RuleSetViolations(h, rs)
    BY <1>3, ReportsOf
  <2>2. QED
    BY <1>2, <1>4, <2>1
<1>5. CASE action # rs.default
  <2>1. PICK i \in DOMAIN rs.rules : action = rs.rules[i].action
    BY <1>5 DEF ActionsOf
  <2>2. ActionViolations(h, rs.rules[i].id, rs.rules[i].action) \subseteq RuleSetViolations(h, rs)
    BY <1>3, ReportsOf
  <2>3. QED
    BY <1>2, <2>1, <2>2
<1>6. QED
  BY <1>4, <1>5

(* A report about a source names a node from which no packet can come.     *)
LEMMA ReportedSources ==
  ASSUME NEW h \in Hosts, NEW v \in RuleSetViolations(h, ruleSet[h]),
         v.kind \in {"unknown_source_node", "unreachable_source_node"}
  PROVE  v.name \notin Nodes \/ ~HasPath(v.name, h)
<1> DEFINE rs == ruleSet[h]
<1>1. h \in Nodes
  BY DEF Nodes
<1>2. \A site, action : \A w \in ActionViolations(h, site, action) :
        w.kind \in {"unknown_route_port", "missing_dead_letter_port"}
  BY DEF ActionViolations
<1>3. \/ v \in ActionViolations(h, DefaultAction, rs.default)
      \/ \E i \in DOMAIN rs.rules : \/ v \in ActionViolations(h, rs.rules[i].id, rs.rules[i].action)
                                    \/ v \in ProvenanceViolations(h, rs.rules[i])
  BY <1>1, ReportsOf
<1>4. PICK rule : v \in ProvenanceViolations(h, rule)
  BY <1>2, <1>3
<1>5. QED
  BY <1>4 DEF ProvenanceViolations

(* What rule_set_violations reports is what the run will meet, whatever    *)
(* the workflow, the rule sets and the meaning of their conditions: a host *)
(* without violations never sends to a port that it does not declare, and  *)
(* no packet ever comes from a node that was reported as unknown or        *)
(* unreachable.                                                            *)
THEOREM ViolationsAlwaysForetell == Spec => []ViolationsForetellRun
<1>1. HeldCameAlong /\ UnknownIsNamed => ViolationsForetellRun
  <2> SUFFICES ASSUME HeldCameAlong, UnknownIsNamed, NEW h \in Hosts
               PROVE  LET violations == RuleSetViolations(h, ruleSet[h])
                      IN  /\ violations = {} => failure[h] # "unknown_port"
                          /\ held[h] # NoPacket =>
                               \A v \in violations :
                                 v.kind \in {"unknown_source_node", "unreachable_source_node"} =>
                                   v.name # View(held[h]).source
    BY DEF ViolationsForetellRun
  <2>1. failure[h] = "unknown_port" => RuleSetViolations(h, ruleSet[h]) # {}
    BY UndeclaredIsReported DEF UnknownIsNamed
  <2>2. ASSUME held[h] # NoPacket, NEW v \in RuleSetViolations(h, ruleSet[h]),
               v.kind \in {"unknown_source_node", "unreachable_source_node"}
        PROVE  v.name # View(held[h]).source
    <3>1. held[h].source \in Nodes /\ HasPath(held[h].source, h)
      BY <2>2, SenderHasPath DEF HeldCameAlong
    <3>2. View(held[h]).source = held[h].source
      BY DEF View
    <3>3. QED
      BY <2>2, <3>1, <3>2, ReportedSources
  <2>3. QED
    BY <2>1, <2>2
<1>2. QED
  BY <1>1, ForetoldInit, ForetoldStep, RuleInvariant, PTL DEF Spec
=============================================================================
