---------------------------- MODULE Review_proof ----------------------------
(***************************************************************************)
(* Proofs about Review, for any receipts, readings, forms, verdicts and    *)
(* settings that satisfy its assumptions.  Review's invariants speak of    *)
(* what the judgement makes of the files, not of how they came to be: they *)
(* follow from the types of the files, which every edit preserves.  The    *)
(* sums come first.                                                        *)
(***************************************************************************)
EXTENDS Review, FiniteSetTheorems, WellFoundedInduction, TLAPS

(* Among finite sets there is one that has none of the others inside.      *)
LEMMA MinimalSet ==
  ASSUME NEW F, F # {}, \A s \in F : IsFiniteSet(s)
  PROVE  \E s \in F : \A t \in F : t \subseteq s => t = s
<1> DEFINE R == {ss \in Nat \X Nat : ss[1] < ss[2]}
           N == {Cardinality(s) : s \in F}
<1>1. N \subseteq Nat /\ N # {}
  BY FS_CardinalityType
<1>2. \E x \in N : \A y \in N : ~(<<y, x>> \in R)
  <2>1. IsWellFoundedOn(R, Nat)
    BY NatLessThanWellFounded DEF OpToRel
  <2> HIDE DEF R, N
  <2>2. QED
    BY <1>1, <2>1, WFMin
<1>3. PICK s \in F : \A t \in F : ~(Cardinality(t) < Cardinality(s))
  <2>1. PICK x \in N : \A y \in N : ~(<<y, x>> \in R)
    BY <1>2
  <2>2. PICK s \in F : x = Cardinality(s)
    BY <2>1
  <2>3. ASSUME NEW t \in F PROVE ~(Cardinality(t) < Cardinality(s))
    <3>1. Cardinality(t) \in N /\ Cardinality(t) \in Nat /\ x \in Nat
      BY <1>1, <2>3
    <3>2. <<Cardinality(t), x>> \notin R
      BY <2>1, <3>1
    <3>3. QED
      BY <2>2, <3>1, <3>2
  <2>4. QED
    BY <2>3
<1>4. ASSUME NEW t \in F, t \subseteq s PROVE t = s
  <2>1. IsFiniteSet(s) /\ t \in SUBSET s
    BY <1>4
  <2>2. Cardinality(t) <= Cardinality(s) /\ (Cardinality(s) = Cardinality(t) => s = t)
    BY <2>1, FS_Subset
  <2>3. Cardinality(t) \in Nat /\ Cardinality(s) \in Nat
    BY <2>1, <1>4, FS_CardinalityType
  <2>4. QED
    BY <1>3, <2>2, <2>3
<1>5. QED
  BY <1>4

-----------------------------------------------------------------------------
Chosen(s) == CHOOSE x \in s : TRUE

IsFold(f, S, h) ==
    h = [s \in SUBSET S |-> IF s = {} THEN 0 ELSE f[Chosen(s)] + h[s \ {Chosen(s)}]]

LEMMA SumIsFold ==
  ASSUME NEW f, NEW S
  PROVE  SumFunctionOnSet(f, S) = (CHOOSE h : IsFold(f, S, h))[S]
BY DEF SumFunctionOnSet, FoldFunctionOnSet, MapThenFoldSet, IsFold, Chosen

LEMMA FoldsAgree ==
  ASSUME NEW f, NEW S, NEW T, IsFiniteSet(T), NEW g, NEW h, IsFold(f, S, g), IsFold(f, T, h)
  PROVE  \A s \in SUBSET S : s \subseteq T => g[s] = h[s]
<1> DEFINE F == {s \in SUBSET S : s \subseteq T /\ g[s] # h[s]}
<1> SUFFICES ASSUME F # {} PROVE FALSE
  OBVIOUS
<1>1. \A s \in F : IsFiniteSet(s)
  BY FS_Subset
<1>2. PICK s \in F : \A t \in F : t \subseteq s => t = s
  <2> HIDE DEF F
  <2>1. QED
    BY <1>1, MinimalSet
<1>3. /\ g[s] = IF s = {} THEN 0 ELSE f[Chosen(s)] + g[s \ {Chosen(s)}]
      /\ h[s] = IF s = {} THEN 0 ELSE f[Chosen(s)] + h[s \ {Chosen(s)}]
  BY DEF IsFold
<1>4. s # {}
  BY <1>3
<1>5. Chosen(s) \in s
  BY <1>4 DEF Chosen
<1>6. s \ {Chosen(s)} \notin F
  BY <1>2, <1>5
<1>7. QED
  BY <1>3, <1>4, <1>6

LEMMA FoldExists ==
  ASSUME NEW f, NEW S, IsFiniteSet(S)
  PROVE  \E h : IsFold(f, S, h)
<1> DEFINE F == {s \in SUBSET S : ~\E h : IsFold(f, s, h)}
<1> SUFFICES ASSUME S \in F PROVE FALSE
  OBVIOUS
<1>1. \A s \in SUBSET S : IsFiniteSet(s)
  BY FS_Subset
<1>2. PICK m \in F : \A t \in F : t \subseteq m => t = m
  <2>1. F # {} /\ \A s \in F : IsFiniteSet(s)
    BY <1>1
  <2> HIDE DEF F
  <2>2. QED
    BY <2>1, MinimalSet
<1> DEFINE fold(t) == CHOOSE h : IsFold(f, t, h)
           sum(t) == fold(t)[t]
           h == [s \in SUBSET m |-> IF s = {} THEN 0 ELSE f[Chosen(s)] + sum(s \ {Chosen(s)})]
<1>3. ASSUME NEW t \in SUBSET m, t # m PROVE IsFold(f, t, fold(t))
  <2>1. t \notin F /\ t \in SUBSET S
    BY <1>2, <1>3
  <2>2. \E g : IsFold(f, t, g)
    BY <2>1
  <2> HIDE DEF F
  <2>3. QED
    BY <2>2
<1>4. ASSUME NEW t \in SUBSET m, t # m PROVE h[t] = sum(t)
  <2> HIDE DEF F
  <2>1. IsFold(f, t, fold(t))
    BY <1>3, <1>4
  <2>2. sum(t) = IF t = {} THEN 0 ELSE f[Chosen(t)] + fold(t)[t \ {Chosen(t)}]
    <3> HIDE DEF fold
    <3>1. QED
      BY <2>1 DEF IsFold
  <2>3. CASE t = {}
    BY <2>2, <2>3
  <2>4. CASE t # {}
    <3> DEFINE u == t \ {Chosen(t)}
    <3>1. u \in SUBSET m /\ u # m /\ u \subseteq t /\ IsFiniteSet(u) /\ u \in SUBSET S
      BY <1>1, <1>4 DEF F
    <3>2. IsFold(f, u, fold(u))
      BY <1>3, <3>1
    <3>3. fold(t)[u] = fold(u)[u]
      <4> HIDE DEF fold, u
      <4>1. QED
        BY <2>1, <3>1, <3>2, FoldsAgree
    <3>4. h[t] = f[Chosen(t)] + sum(u)
      BY <2>4
    <3>5. QED
      <4> HIDE DEF h, fold
      <4>1. QED
        BY <2>2, <2>4, <3>3, <3>4
  <2>5. QED
    BY <2>3, <2>4
<1>5. IsFold(f, m, h)
  <2>1. ASSUME NEW s \in SUBSET m, s # {} PROVE sum(s \ {Chosen(s)}) = h[s \ {Chosen(s)}]
    <3>1. Chosen(s) \in s
      BY <2>1 DEF Chosen
    <3>2. s \ {Chosen(s)} \in SUBSET m /\ s \ {Chosen(s)} # m
      BY <3>1
    <3> HIDE DEF h, sum
    <3>3. QED
      BY <1>4, <3>2
  <2>2. h = [s \in SUBSET m |-> IF s = {} THEN 0 ELSE f[Chosen(s)] + h[s \ {Chosen(s)}]]
    <3> HIDE DEF F, fold, sum
    <3>1. QED
      BY <2>1, Zenon
  <2>3. QED
    BY <2>2 DEF IsFold
<1>6. QED
  <2> HIDE DEF h
  <2>1. QED
    BY <1>2, <1>5

-----------------------------------------------------------------------------
(* The sum is that of the chosen element and of the others ...             *)
LEMMA SumChosen ==
  ASSUME NEW f, NEW S, IsFiniteSet(S)
  PROVE  SumFunctionOnSet(f, S) =
           IF S = {} THEN 0 ELSE f[Chosen(S)] + SumFunctionOnSet(f, S \ {Chosen(S)})
<1> DEFINE fold(t) == CHOOSE h : IsFold(f, t, h)
           T == S \ {Chosen(S)}
<1>1. IsFiniteSet(T) /\ T \subseteq S /\ T \in SUBSET S
  BY FS_RemoveElement
<1>2. IsFold(f, S, fold(S)) /\ IsFold(f, T, fold(T))
  BY <1>1, FoldExists
<1>3. SumFunctionOnSet(f, S) = fold(S)[S] /\ SumFunctionOnSet(f, T) = fold(T)[T]
  BY SumIsFold
<1> HIDE DEF fold
<1>4. fold(S)[T] = fold(T)[T]
  <2> HIDE DEF T
  <2>1. QED
    BY <1>1, <1>2, FoldsAgree
<1>5. fold(S)[S] = IF S = {} THEN 0 ELSE f[Chosen(S)] + fold(S)[T]
  BY <1>2 DEF IsFold
<1>6. QED
  BY <1>3, <1>4, <1>5

LEMMA SumEmpty == ASSUME NEW f PROVE SumFunctionOnSet(f, {}) = 0
BY SumChosen, FS_EmptySet

(* ... and it is a number, or a natural one, when all its terms are ...   *)
LEMMA SumType ==
  ASSUME NEW D \in {Int, Nat}, NEW f, NEW S, IsFiniteSet(S), \A x \in S : f[x] \in D
  PROVE  SumFunctionOnSet(f, S) \in D
<1> DEFINE F == {s \in SUBSET S : SumFunctionOnSet(f, s) \notin D}
<1> SUFFICES ASSUME F # {} PROVE FALSE
  OBVIOUS
<1>0. 0 \in D /\ \A i, j \in D : i + j \in D
  OBVIOUS
<1>1. \A s \in F : IsFiniteSet(s)
  BY FS_Subset
<1>2. PICK s \in F : \A t \in F : t \subseteq s => t = s
  <2> HIDE DEF F
  <2>1. QED
    BY <1>1, MinimalSet
<1>3. SumFunctionOnSet(f, s) = IF s = {} THEN 0 ELSE f[Chosen(s)] + SumFunctionOnSet(f, s \ {Chosen(s)})
  BY <1>1, SumChosen
<1>4. s # {}
  BY <1>0, <1>3
<1>5. Chosen(s) \in s
  BY <1>4 DEF Chosen
<1>6. s \ {Chosen(s)} \notin F /\ s \ {Chosen(s)} \in SUBSET S
  BY <1>2, <1>5
<1>7. QED
  BY <1>0, <1>3, <1>4, <1>5, <1>6

(* ... and that of any element and of the others.                          *)
LEMMA SumOf ==
  ASSUME NEW f, NEW S, IsFiniteSet(S), \A x \in S : f[x] \in Int, NEW x \in S
  PROVE  SumFunctionOnSet(f, S) = f[x] + SumFunctionOnSet(f, S \ {x})
<1> DEFINE Sum(s) == SumFunctionOnSet(f, s)
           F == {s \in SUBSET S : \E y \in s : Sum(s) # f[y] + Sum(s \ {y})}
<1> SUFFICES ASSUME F # {} PROVE FALSE
  OBVIOUS
<1>1. \A s \in SUBSET S : IsFiniteSet(s) /\ Sum(s) \in Int
  <2> SUFFICES ASSUME NEW s \in SUBSET S PROVE IsFiniteSet(s) /\ Sum(s) \in Int
    OBVIOUS
  <2>1. IsFiniteSet(s)
    BY FS_Subset
  <2>2. QED
    BY <2>1, SumType
<1>2. PICK s \in F : \A t \in F : t \subseteq s => t = s
  <2>1. \A s \in F : IsFiniteSet(s)
    BY <1>1
  <2> HIDE DEF F
  <2>2. QED
    BY <2>1, MinimalSet
<1>3. PICK y \in s : Sum(s) # f[y] + Sum(s \ {y})
  BY <1>2
<1> DEFINE c == Chosen(s)
<1>4. c \in s /\ s # {} /\ s \in SUBSET S
  BY <1>2, <1>3 DEF Chosen
<1>5. Sum(s) = f[c] + Sum(s \ {c})
  BY <1>1, <1>4, SumChosen
<1>6. c # y
  BY <1>3, <1>5
<1>7. s \ {c} \notin F /\ s \ {y} \notin F
  BY <1>2, <1>3, <1>4
<1>8. /\ s \ {c} \in SUBSET S /\ y \in s \ {c}
      /\ s \ {y} \in SUBSET S /\ c \in s \ {y}
      /\ (s \ {y}) \ {c} \in SUBSET S /\ (s \ {c}) \ {y} = (s \ {y}) \ {c}
  BY <1>3, <1>4, <1>6
<1>9. Sum(s \ {c}) = f[y] + Sum((s \ {y}) \ {c}) /\ Sum(s \ {y}) = f[c] + Sum((s \ {y}) \ {c})
  BY <1>7, <1>8
<1>10. f[c] \in Int /\ f[y] \in Int /\ Sum((s \ {y}) \ {c}) \in Int
  BY <1>1, <1>3, <1>4, <1>8
<1>11. QED
  <2> HIDE DEF Sum, F, c
  <2>1. QED
    BY <1>3, <1>5, <1>9, <1>10

(* Of one function over a subset and of one below it over the set itself:  *)
(* what the subset has of g is not in f.                                   *)
LEMMA SumSplit ==
  ASSUME NEW f, NEW g, NEW S, NEW V, IsFiniteSet(S), V \subseteq S,
         \A x \in S : f[x] \in Int /\ g[x] \in Int /\ (IF x \in V THEN f[x] <= 0 ELSE f[x] <= g[x])
  PROVE  SumFunctionOnSet(g, V) + SumFunctionOnSet(f, S) <= SumFunctionOnSet(g, S)
<1> DEFINE Sum(h, s) == SumFunctionOnSet(h, s)
           F == {s \in SUBSET S : ~(Sum(g, V \cap s) + Sum(f, s) <= Sum(g, s))}
<1> SUFFICES ASSUME F # {} PROVE FALSE
  <2>1. S \cap V = V /\ V \cap S = V
    OBVIOUS
  <2>2. QED
    BY <2>1
<1>1. \A s \in SUBSET S : IsFiniteSet(s) /\ Sum(f, s) \in Int /\ Sum(g, s) \in Int
  <2> SUFFICES ASSUME NEW s \in SUBSET S PROVE IsFiniteSet(s) /\ Sum(f, s) \in Int /\ Sum(g, s) \in Int
    OBVIOUS
  <2>1. IsFiniteSet(s)
    BY FS_Subset
  <2>2. QED
    BY <2>1, SumType
<1>2. PICK s \in F : \A t \in F : t \subseteq s => t = s
  <2>1. \A s \in F : IsFiniteSet(s)
    BY <1>1
  <2> HIDE DEF F
  <2>2. QED
    BY <2>1, MinimalSet
<1>3. s # {}
  <2> SUFFICES ASSUME s = {} PROVE FALSE
    OBVIOUS
  <2>1. V \cap s = {} /\ Sum(f, {}) = 0 /\ Sum(g, {}) = 0
    BY SumEmpty
  <2>2. Sum(g, V \cap s) = 0 /\ Sum(f, s) = 0 /\ Sum(g, s) = 0
    BY <2>1
  <2>3. QED
    BY <1>2, <2>2
<1>4. PICK x \in s : TRUE
  BY <1>3
<1> DEFINE t == s \ {x}
<1>5. t \in SUBSET S /\ t \notin F /\ s \in SUBSET S /\ x \in S /\ V \cap t \in SUBSET S /\ V \cap s \in SUBSET S
  BY <1>2, <1>4
<1>6. Sum(g, V \cap t) + Sum(f, t) <= Sum(g, t)
  BY <1>5
<1>7. Sum(f, s) = f[x] + Sum(f, t) /\ Sum(g, s) = g[x] + Sum(g, t)
  <2>1. IsFiniteSet(s) /\ \A y \in s : f[y] \in Int /\ g[y] \in Int
    BY <1>1, <1>5
  <2>2. QED
    BY <1>4, <2>1, SumOf
<1>8. Sum(g, V \cap s) = IF x \in V THEN g[x] + Sum(g, V \cap t) ELSE Sum(g, V \cap t)
  <2>1. CASE x \in V
    <3>1. IsFiniteSet(V \cap s) /\ x \in V \cap s /\ V \cap t = (V \cap s) \ {x} /\ \A y \in V \cap s : g[y] \in Int
      BY <1>1, <1>4, <1>5, <2>1
    <3>2. QED
      BY <2>1, <3>1, SumOf
  <2>2. CASE x \notin V
    <3>1. V \cap t = V \cap s
      BY <2>2
    <3>2. QED
      BY <2>2, <3>1
  <2>3. QED
    BY <2>1, <2>2
<1>9. ~(Sum(g, V \cap s) + Sum(f, s) <= Sum(g, s))
  BY <1>2
<1>10. /\ Sum(g, V \cap t) \in Int /\ Sum(f, t) \in Int /\ Sum(g, t) \in Int
       /\ f[x] \in Int /\ g[x] \in Int /\ (IF x \in V THEN f[x] <= 0 ELSE f[x] <= g[x])
  BY <1>1, <1>5
<1>11. QED
  <2> HIDE DEF Sum, F, t
  <2>1. QED
    BY <1>6, <1>7, <1>8, <1>9, <1>10

(* The terms that are left out of a sum of naturals make it no larger.     *)
LEMMA SumSubset ==
  ASSUME NEW g, NEW S, NEW V, IsFiniteSet(S), V \subseteq S, \A x \in S : g[x] \in Nat
  PROVE  SumFunctionOnSet(g, V) <= SumFunctionOnSet(g, S)
<1> DEFINE zero == [x \in S |-> 0]
<1>1. \A x \in S : zero[x] = 0
  OBVIOUS
<1> HIDE DEF zero
<1>2. SumFunctionOnSet(zero, S) \in Nat /\ SumFunctionOnSet(g, S) \in Nat
  BY <1>1, SumType
<1>3. SumFunctionOnSet(g, V) \in Nat
  BY FS_Subset, SumType
<1>4. SumFunctionOnSet(g, V) + SumFunctionOnSet(zero, S) <= SumFunctionOnSet(g, S)
  <2>1. \A x \in S : zero[x] \in Int /\ g[x] \in Int /\ (IF x \in V THEN zero[x] <= 0 ELSE zero[x] <= g[x])
    BY <1>1
  <2> QED
    BY <2>1, SumSplit
<1>5. QED
  BY <1>2, <1>3, <1>4

-----------------------------------------------------------------------------
(* Whatever forms, verdicts and settings people send, in any order, the    *)
(* files hold what these can hold: a corrected field is one of a form or   *)
(* none, a verdict one that was given (save_override, save_decision,       *)
(* save_allowance_decision, save_trip_yaml).                               *)
THEOREM EditsAreTyped == Spec => []TypeOK
<1>1. Init => TypeOK
  BY DEF Init, TypeOK
<1>2. TypeOK /\ [Next]_vars => TypeOK'
  <2> SUFFICES ASSUME TypeOK, [Next]_vars PROVE TypeOK'
    OBVIOUS
  <2>1. CASE UNCHANGED vars
    BY <2>1 DEF TypeOK, vars
  <2>2. ASSUME NEW r \in Receipts, NEW form \in Forms, NEW codes \in Confirmed \cup {{}, None},
               SaveOverride(r, form, codes)
        PROVE  TypeOK'
    <3>1. edits' = [edits EXCEPT ![r] = Corrected(r, form)]
      BY <2>2 DEF SaveOverride
    <3>2. Corrected(r, form) \in [Fields -> FormValues \cup {Unset}]
      <4>1. \A f \in Fields : f \in DOMAIN form => form[f] \in FormValues
        BY DEF FormValues
      <4>2. \A f \in Fields : edits[r][f] \in FormValues \cup {Unset}
        BY DEF TypeOK
      <4>3. QED
        BY <4>1, <4>2 DEF Corrected
    <3>3. edits' \in [Receipts -> [Fields -> FormValues \cup {Unset}]]
      BY <3>1, <3>2 DEF TypeOK
    <3>4. ASSUME NEW q \in Receipts, NEW f \in Fields
          PROVE  edits'[q][f] = Unset \/ \E g \in Forms : f \in DOMAIN g /\ g[f] = edits'[q][f]
      <4>1. CASE q = r
        <5>1. edits'[q][f] = Corrected(r, form)[f]
          BY <3>1, <4>1 DEF TypeOK
        <5>2. QED
          BY <5>1 DEF Corrected, TypeOK
      <4>2. CASE q # r
        <5>1. edits'[q] = edits[q]
          BY <3>1, <4>2 DEF TypeOK
        <5>2. QED
          BY <5>1 DEF TypeOK
      <4>3. QED
        BY <4>1, <4>2
    <3>5. trip' \in TripSettings
      BY <2>2 DEF SaveOverride, Proposals, TypeOK
    <3>6. cleared' \in [Receipts -> Confirmed \cup {{}}]
      BY <2>2 DEF SaveOverride, TypeOK
    <3>7. QED
      BY <2>2, <3>3, <3>4, <3>5, <3>6 DEF TypeOK, SaveOverride
  <2>3. ASSUME NEW r \in Receipts, NEW v \in Verdicts, SaveDecision(r, v[1], v[2])
        PROVE  TypeOK'
    BY <2>3 DEF TypeOK, SaveDecision, ManualSpecs
  <2>4. ASSUME NEW r \in Receipts, WithdrawDecision(r)
        PROVE  TypeOK'
    BY <2>4 DEF TypeOK, WithdrawDecision
  <2>5. ASSUME NEW i \in Items, NEW spec, spec = None \/ <<i, spec>> \in Adjustments, SaveAllowanceDecision(i, spec)
        PROVE  TypeOK'
    <3>1. spec \in {a[2] : a \in Adjustments} \cup {None}
      BY <2>5
    <3>2. /\ allowance' \in [Items -> {a[2] : a \in Adjustments} \cup {None}]
          /\ \A h \in Items : allowance'[h] = IF h = i THEN spec ELSE allowance[h]
      BY <2>5, <3>1 DEF TypeOK, SaveAllowanceDecision
    <3>3. \A h \in Items : allowance'[h] = None \/ <<h, allowance'[h]>> \in Adjustments
      BY <2>5, <3>2 DEF TypeOK
    <3>4. QED
      BY <2>5, <3>2, <3>3 DEF TypeOK, SaveAllowanceDecision
  <2>6. ASSUME NEW settings \in TripSettings, SaveTripYaml(settings)
        PROVE  TypeOK'
    BY <2>6 DEF TypeOK, SaveTripYaml
  <2>7. ASSUME NEW a \in Adjustments, SaveAllowanceDecision(a[1], a[2]) PROVE TypeOK'
    <3>1. a[1] \in Items /\ <<a[1], a[2]>> \in Adjustments
      BY AdjustmentAssumption
    <3>2. QED
      BY <2>5, <2>7, <3>1
  <2>8. QED
    BY <2>1, <2>2, <2>3, <2>4, <2>5, <2>6, <2>7 DEF Next
<1>3. QED
  BY <1>1, <1>2, PTL DEF Spec

-----------------------------------------------------------------------------
(* What the judgement reads: a receipt after its corrections, the settings *)
(* of the trip, the verdicts of people.                                    *)
LEMMA MergedTypes ==
  ASSUME TypeOK, NEW r \in Receipts
  PROVE  /\ Merged(r).amount \in Nat \cup {None} /\ Merged(r).nights \in Nat \cup {None}
         /\ Merged(r).date \in Int \cup {None} /\ Merged(r).until \in Int \cup {None}
<1>1. /\ extracted[r] \in Readings
      /\ Fields \subseteq DOMAIN extracted[r]
      /\ \A f \in Fields : OfField(f, extracted[r][f])
  BY ReadingAssumption DEF TypeOK
<1>2. ASSUME NEW f \in Fields PROVE Merged(r)[f] = IF edits[r][f] # Unset THEN edits[r][f] ELSE extracted[r][f]
  BY <1>1 DEF Merged
<1>3. ASSUME NEW f \in Fields PROVE OfField(f, Merged(r)[f])
  <2>1. CASE edits[r][f] = Unset
    BY <1>1, <1>2, <2>1
  <2>2. CASE edits[r][f] # Unset
    <3>1. PICK form \in Forms : f \in DOMAIN form /\ form[f] = edits[r][f]
      BY <2>2 DEF TypeOK
    <3>2. QED
      BY <1>2, <2>2, <3>1, FormAssumption
  <2>3. QED
    BY <2>1, <2>2
<1>4. OfField("amount", Merged(r)["amount"]) /\ OfField("nights", Merged(r)["nights"])
      /\ OfField("date", Merged(r)["date"]) /\ OfField("until", Merged(r)["until"])
  BY <1>3 DEF Fields
<1>5. QED
  BY <1>4 DEF OfField

LEMMA NightsType ==
  ASSUME TypeOK, NEW r \in Receipts
  PROVE  Nights(Merged(r)) \in Nat \ {0}
BY MergedTypes DEF Nights

LEMMA DaysType ==
  ASSUME TypeOK
  PROVE  Days \in Int \cup {None}
BY SettingAssumption DEF TypeOK, Days

(* Manual amounts.                                                         *)
LEMMA DecisionTypes ==
  ASSUME TypeOK, NEW r \in Receipts, decision[r] # None
  PROVE  /\ decision[r].verdict \in {"pay", "reduced", "denied"}
         /\ decision[r].verdict = "reduced" => decision[r].amount \in Nat
<1>1. PICK v \in Verdicts : decision[r] = [verdict |-> v[1], amount |-> v[2]]
  BY DEF TypeOK, ManualSpecs
<1>2. QED
  BY <1>1, VerdictAssumption

(* The rules pay something only for a receipt without open warnings of the *)
(* blocking kind (decide_receipt).                                         *)
LEMMA PaidIsClean ==
  ASSUME TypeOK, NEW r \in Receipts, PaidByRule(r)
  PROVE  Warnings(r) \cap Blocking = {}
<1>1. ~Stands(r)
  BY DEF PaidByRule, ReceiptRow, Row
<1>2. ReceiptRow(r).approved = DecideReceipt(r).approved
  BY <1>1 DEF ReceiptRow, Row
<1>3. DecideReceipt(r).approved # 0
  BY <1>2 DEF PaidByRule
<1>4. ASSUME Warnings(r) \cap Blocking # {} PROVE FALSE
  <2>1. DecideReceipt(r) = ToReview
    BY <1>4 DEF DecideReceipt
  <2>2. QED
    BY <1>3, <2>1 DEF ToReview, Judge
<1>5. QED
  BY <1>4

LEMMA PaidIsConfirmed ==
  ASSUME TypeOK, NEW r \in Receipts, PaidByRule(r), NEW code \in Blocking, code \in CrossChecked(r)
  PROVE  code \in cleared[r]
BY PaidIsClean DEF Warnings

(* The checks across receipts mark both receipts.                          *)
LEMMA MarksBoth ==
  ASSUME TypeOK, NEW a \in Receipts, NEW b \in Receipts, a # b
  PROVE  /\ Merged(a).approval # None /\ Merged(a).approval = Merged(b).approval
              => "DUP_APPROVAL" \in CrossChecked(a) \cap CrossChecked(b)
         /\ SameTicket(a, b) => "DUP_TICKET" \in CrossChecked(a) \cap CrossChecked(b)
         /\ SameNight(a, b) => "LODGING_OVERLAP" \in CrossChecked(a) \cap CrossChecked(b)
<1>1. b \in Receipts \ {a} /\ a \in Receipts \ {b}
  OBVIOUS
<1>2. ASSUME Merged(a).approval # None, Merged(a).approval = Merged(b).approval
      PROVE  "DUP_APPROVAL" \in CrossChecked(a) \cap CrossChecked(b)
  <2>1. DupApproval(a) /\ DupApproval(b)
    BY <1>1, <1>2 DEF DupApproval
  <2>2. "DUP_APPROVAL" \in Validated(a) /\ "DUP_APPROVAL" \in Validated(b)
    BY <2>1 DEF Validated
  <2>3. QED
    BY <2>2 DEF CrossChecked
<1>3. ASSUME SameTicket(a, b) PROVE "DUP_TICKET" \in CrossChecked(a) \cap CrossChecked(b)
  <2>1. SameTicket(b, a)
    BY <1>3 DEF SameTicket
  <2>2. QED
    BY <1>1, <1>3, <2>1 DEF CrossChecked
<1>4. ASSUME SameNight(a, b) PROVE "LODGING_OVERLAP" \in CrossChecked(a) \cap CrossChecked(b)
  <2>1. /\ Nights(Merged(a)) \in Nat /\ Nights(Merged(b)) \in Nat
        /\ Merged(a).date \in Int /\ Merged(b).date \in Int
    BY <1>4, NightsType, MergedTypes DEF SameNight
  <2>2. PICK n \in 0..(Nights(Merged(a)) - 1), k \in 0..(Nights(Merged(b)) - 1) :
             Merged(a).date + n = Merged(b).date + k
    BY <1>4 DEF SameNight
  <2>3. Merged(a).date < Merged(b).date + Nights(Merged(b)) /\ Merged(b).date < Merged(a).date + Nights(Merged(a))
    BY <2>1, <2>2
  <2>4. Overlap(a, b) /\ Overlap(b, a)
    BY <1>4, <2>3 DEF SameNight, Overlap
  <2>5. QED
    BY <1>1, <2>4 DEF CrossChecked
<1>5. QED
  BY <1>2, <1>3, <1>4

(* Two receipts for the same thing are both paid by the rules only when a  *)
(* person has confirmed it on each (mark_dup_approval, apply_cross_checks, *)
(* clear_warnings), after any edits in any order.                          *)
THEOREM DuplicatesAreConfirmed == Spec => []NothingPaidTwice
<1>1. ASSUME TypeOK PROVE NothingPaidTwice
  <2>1. {"DUP_APPROVAL", "DUP_TICKET", "LODGING_OVERLAP"} \subseteq Blocking
    BY DEF Blocking
  <2>2. ASSUME NEW a \in Receipts, NEW b \in Receipts, a # b, PaidByRule(a), PaidByRule(b),
               NEW code \in Blocking, code \in CrossChecked(a) \cap CrossChecked(b)
        PROVE  code \in cleared[a] \cap cleared[b]
    BY <1>1, <2>2, PaidIsConfirmed
  <2>3. QED
    BY <1>1, <2>1, <2>2, MarksBoth DEF NothingPaidTwice
<1>2. QED
  BY <1>1, EditsAreTyped, PTL

-----------------------------------------------------------------------------
(* The rules pay for no more nights than the trip has: a longer stay marks *)
(* every lodging of the trip (apply_cross_checks), so that only those that *)
(* a person has confirmed are paid.                                        *)
THEOREM NightsAreChecked == Spec => []NightsFitTheTrip
<1>1. ASSUME TypeOK PROVE NightsFitTheTrip
  <2> DEFINE paid == {r \in Lodgings : PaidByRule(r) /\ "LODGING_NIGHTS_EXCEED" \notin cleared[r]}
             most == IF Days > 1 THEN Days - 1 ELSE 0
  <2>1. Lodgings \subseteq Receipts /\ IsFiniteSet(Lodgings) /\ paid \subseteq Lodgings
    BY ReceiptAssumption, FS_Subset DEF Lodgings
  <2>2. \A r \in Lodgings : NightsOf[r] \in Nat
    BY <1>1, <2>1, NightsType DEF NightsOf
  <2>3. ASSUME Days # None, NightsExceed PROVE SumFunctionOnSet(NightsOf, paid) <= most
    <3>1. ASSUME NEW r \in paid PROVE FALSE
      <4>1. r \in Receipts /\ r \in Lodgings /\ PaidByRule(r) /\ "LODGING_NIGHTS_EXCEED" \notin cleared[r]
        BY <2>1
      <4>2. "LODGING_NIGHTS_EXCEED" \in CrossChecked(r) /\ "LODGING_NIGHTS_EXCEED" \in Blocking
        BY <2>3, <4>1 DEF CrossChecked, Blocking
      <4>3. QED
        BY <1>1, <4>1, <4>2, PaidIsConfirmed
    <3>2. paid = {}
      <4> HIDE DEF paid
      <4>1. QED
        BY <3>1
    <3>3. SumFunctionOnSet(NightsOf, paid) = 0
      <4> HIDE DEF paid
      <4>1. QED
        BY <3>2, SumEmpty
    <3>4. Days \in Int
      BY <1>1, <2>3, DaysType
    <3>5. QED
      BY <3>3, <3>4
  <2>4. ASSUME Days # None, ~NightsExceed PROVE SumFunctionOnSet(NightsOf, paid) <= most
    <3> HIDE DEF paid
    <3>1. SumFunctionOnSet(NightsOf, paid) <= SumFunctionOnSet(NightsOf, Lodgings)
      BY <2>1, <2>2, SumSubset
    <3>2. SumFunctionOnSet(NightsOf, Lodgings) \in Nat /\ SumFunctionOnSet(NightsOf, paid) \in Nat
      <4>1. IsFiniteSet(paid) /\ \A r \in paid : NightsOf[r] \in Nat
        BY <2>1, <2>2, FS_Subset
      <4>2. QED
        BY <2>1, <2>2, <4>1, SumType
    <3>3. Days \in Int
      BY <1>1, <2>4, DaysType
    <3>4. ~(SumFunctionOnSet(NightsOf, Lodgings) > most)
      BY <2>4 DEF NightsExceed
    <3>5. most \in Int
      BY <3>3
    <3> HIDE DEF most
    <3>6. QED
      BY <3>1, <3>2, <3>4, <3>5
  <2>5. QED
    BY <2>3, <2>4 DEF NightsFitTheTrip
<1>2. QED
  BY <1>1, EditsAreTyped, PTL

-----------------------------------------------------------------------------
(* Whole division.                                                         *)
LEMMA ProductType == ASSUME NEW a \in Nat, NEW b \in Nat PROVE a * b \in Nat
OBVIOUS

LEMMA QuotientType == ASSUME NEW a \in Nat, NEW b \in Nat \ {0} PROVE a \div b \in Nat
OBVIOUS

(* What is even for one day is even for all of them.                       *)
LEMMA EvenQuotient ==
  ASSUME NEW a \in Nat, NEW b \in Nat \ {0}, NEW n \in Nat, a % b = 0
  PROVE  (a * n) \div b = (a \div b) * n
<1> DEFINE q == a \div b
<1>1. q \in Nat
  BY QuotientType
<1>2. a = b * q
  OBVIOUS
<1> HIDE DEF q
<1>3. a * n = b * (q * n) /\ q * n \in Nat
  BY <1>1, <1>2
<1>4. \A k \in Nat : (b * k) \div b = k
  OBVIOUS
<1>5. (a * n) \div b = q * n
  BY <1>3, <1>4
<1>6. QED
  BY <1>5 DEF q

LEMMA SmallerFactor ==
  ASSUME NEW b \in Nat \ {0}, NEW x \in Int, NEW y \in Int, b * x < b * y
  PROVE  x < y
<1>1. ASSUME y <= x PROVE FALSE
  <2>1. x - y \in Nat /\ b * (x - y) = b * x - b * y
    BY <1>1
  <2>2. b * (x - y) \in Nat
    BY <2>1, ProductType
  <2>3. QED
    BY <2>1, <2>2
<1>2. QED
  BY <1>1

(* Rounding each of n days instead of their sum loses less than n.         *)
LEMMA RoundedQuotient ==
  ASSUME NEW a \in Nat, NEW b \in Nat \ {0}, NEW n \in Nat \ {0}
  PROVE  /\ (a \div b) * n <= (a * n) \div b
         /\ (a * n) \div b < (a \div b) * n + n
<1> DEFINE q == a \div b
           s == a % b
           m == (a * n) \div b
<1>1. q \in Nat /\ m \in Nat
  BY QuotientType, ProductType
<1>2. a = b * q + s /\ s \in 0..(b - 1)
  OBVIOUS
<1>3. b * m <= a * n /\ a * n < b * m + b
  <2> DEFINE c == a * n
  <2>1. c \in Nat
    BY ProductType
  <2> HIDE DEF c
  <2>2. b * (c \div b) <= c /\ c < b * (c \div b) + b
    BY <2>1
  <2>3. QED
    BY <2>2 DEF c
<1> HIDE DEF q, s, m
<1>4. q * n \in Nat /\ s * n \in Nat /\ a * n = b * (q * n) + s * n
  BY <1>1, <1>2, ProductType
<1>5. s * n < b * n
  <2>1. (b - s) \in Nat \ {0} /\ (b - s) * n = b * n - s * n
    BY <1>2
  <2>2. (b - s) * n > 0
    BY <2>1
  <2>3. QED
    BY <1>4, <2>1, <2>2
<1>6. b * (q * n) < b * (m + 1)
  BY <1>1, <1>3, <1>4
<1>7. b * m < b * (q * n + n)
  BY <1>1, <1>3, <1>4, <1>5
<1>8. q * n < m + 1
  BY <1>1, <1>4, <1>6, SmallerFactor
<1>9. m < q * n + n
  BY <1>1, <1>4, <1>7, SmallerFactor
<1>10. QED
  BY <1>1, <1>4, <1>8, <1>9 DEF q, m

(* A verdict and an amount that are in order for a claim: what is open for *)
(* review pays nothing.                                                    *)
Fits(row, claim) ==
    /\ row.approved \in 0..claim
    /\ row.verdict = "review" => row.approved = 0

LEMMA LodgingFits ==
  ASSUME TypeOK, NEW r \in Receipts, Merged(r).amount # None
  PROVE  Fits(Lodging(Merged(r)), Merged(r).amount)
<1> DEFINE m == Merged(r)
           known == DOMAIN trip.law.caps
           used == IF m.region \in known THEN m.region ELSE trip.lodging_region
           cap == trip.law.caps[used] * Nights(m)
           limit == cap + (cap * trip.law.over[1]) \div trip.law.over[2]
<1>1. m.amount \in Nat /\ Nights(m) \in Nat /\ trip \in TripSettings
  BY MergedTypes, NightsType DEF TypeOK
<1>2. used \in known => cap \in Nat
  <2>1. used \in known => trip.law.caps[used] \in Nat
    BY <1>1, SettingAssumption
  <2> HIDE DEF m, used, known
  <2>2. QED
    BY <1>1, <2>1, ProductType
<1>3. used \in known /\ trip.law.over # None => limit \in Nat
  <2>1. trip.law.over # None => trip.law.over[1] \in Nat /\ trip.law.over[2] \in Nat \ {0}
    BY <1>1, SettingAssumption DEF Parts
  <2> HIDE DEF cap, used, known
  <2>2. ASSUME used \in known, trip.law.over # None PROVE limit \in Nat
    <3>1. cap * trip.law.over[1] \in Nat
      BY <1>2, <2>1, <2>2, ProductType
    <3>2. (cap * trip.law.over[1]) \div trip.law.over[2] \in Nat
      BY <2>1, <2>2, <3>1, QuotientType
    <3>3. QED
      BY <1>2, <2>2, <3>2
  <2>3. QED
    BY <2>2
<1>4. Lodging(m) =
        IF trip.grade = 1 THEN Judge("pay", m.amount)
        ELSE IF used \notin known THEN ToReview
        ELSE IF m.amount <= cap THEN Judge("pay", m.amount)
        ELSE IF ~trip.over_cap_reason THEN Judge("reduced", cap)
        ELSE IF trip.law.over = None THEN ToReview
        ELSE IF m.amount <= limit THEN Judge("pay", m.amount)
        ELSE Judge("reduced", limit)
  BY DEF Lodging
<1> HIDE DEF m, cap, used, known, limit
<1>5. Fits(Judge("pay", m.amount), m.amount) /\ Fits(ToReview, m.amount)
  BY <1>1 DEF Fits, Judge, ToReview
<1>6. ASSUME NEW x \in Nat, ~(m.amount <= x) PROVE Fits(Judge("reduced", x), m.amount)
  BY <1>1, <1>6 DEF Fits, Judge
<1>7. Fits(Lodging(m), m.amount)
  BY <1>2, <1>3, <1>4, <1>5, <1>6
<1>8. QED
  BY <1>7 DEF m

LEMMA RuleFits ==
  ASSUME TypeOK, NEW r \in Receipts
  PROVE  Fits(DecideReceipt(r), Claimed(r)) /\ Claimed(r) \in Nat
<1>1. Claimed(r) \in Nat
  BY MergedTypes DEF Claimed
<1>2. Fits(ToReview, Claimed(r)) /\ Fits(Judge("denied", 0), Claimed(r))
  BY <1>1 DEF Fits, ToReview, Judge
<1>3. CASE Merged(r).amount = None
  <2>1. DecideReceipt(r) = ToReview
    BY <1>3 DEF DecideReceipt
  <2>2. QED
    BY <1>1, <1>2, <2>1
<1>4. CASE Merged(r).amount # None
  <2>1. Claimed(r) = Merged(r).amount
    BY <1>4 DEF Claimed
  <2>2. Fits(Judge("pay", Merged(r).amount), Claimed(r))
    BY <1>1, <2>1 DEF Fits, Judge
  <2>3. Fits(Rail(Merged(r)), Claimed(r)) /\ Fits(Taxi(Merged(r)), Claimed(r)) /\ Fits(Lodging(Merged(r)), Claimed(r))
    BY <1>2, <1>4, <2>1, <2>2, LodgingFits DEF Rail, Taxi
  <2>4. DecideReceipt(r) \in {ToReview, Judge("denied", 0), Judge("pay", Merged(r).amount),
                              Rail(Merged(r)), Taxi(Merged(r)), Lodging(Merged(r))}
    BY DEF DecideReceipt
  <2>5. QED
    BY <1>1, <1>2, <2>2, <2>3, <2>4
<1>5. QED
  BY <1>3, <1>4

LEMMA RowFits ==
  ASSUME TypeOK, NEW r \in Receipts
  PROVE  Fits(ReceiptRow(r), Claimed(r))
<1>1. Fits(DecideReceipt(r), Claimed(r)) /\ Claimed(r) \in Nat
  BY RuleFits
<1>2. CASE ~Stands(r)
  BY <1>1, <1>2 DEF ReceiptRow, Row, Fits
<1>3. CASE Stands(r)
  <2>1. /\ decision[r].verdict \in {"pay", "reduced", "denied"}
        /\ decision[r].verdict = "reduced" => decision[r].amount \in Nat /\ decision[r].amount < Claimed(r)
    BY <1>3, DecisionTypes DEF Stands
  <2>2. ManualAmount(r) \in 0..Claimed(r)
    BY <1>1, <2>1 DEF ManualAmount
  <2>3. QED
    BY <1>3, <2>1, <2>2 DEF ReceiptRow, Row, Fits
<1>4. QED
  BY <1>2, <1>3

-----------------------------------------------------------------------------
(* Allowances.                                                             *)
LEMMA TableTypes ==
  ASSUME TypeOK
  PROVE  /\ Table.daily \in Nat /\ Table.meal \in Nat
         /\ Ratio = None \/ (Ratio[1] \in Nat /\ Ratio[2] \in Nat \ {0})
<1>1. trip \in TripSettings
  BY DEF TypeOK
<1>2. (IF trip.grade = None THEN 2 ELSE trip.grade) \in {1, 2}
  BY <1>1, SettingAssumption
<1>3. Table.daily \in Nat /\ Table.meal \in Nat
  BY <1>1, <1>2, SettingAssumption DEF Table
<1>4. Ratio = None \/ (Ratio[1] \in Nat /\ Ratio[2] \in Nat \ {0})
  BY <1>1, SettingAssumption DEF Ratio, Parts
<1>5. QED
  BY <1>3, <1>4

LEMMA RatioType ==
  ASSUME TypeOK, NEW x \in Nat
  PROVE  OfRatio(x) \in Nat \cup {None}
<1>1. CASE Ratio = None
  BY <1>1 DEF OfRatio
<1>2. CASE Ratio # None
  <2>1. Ratio[1] \in Nat /\ Ratio[2] \in Nat \ {0}
    BY <1>2, TableTypes
  <2>2. (x * Ratio[1]) \div Ratio[2] \in Nat
    BY <2>1, ProductType, QuotientType
  <2>3. QED
    BY <1>2, <2>2 DEF OfRatio
<1>3. QED
  BY <1>1, <1>2

LEMMA PlannedType ==
  ASSUME TypeOK, NEW i \in Items
  PROVE  Planned(i) \in Nat \cup {None} /\ Unit(i) \in Nat \cup {None}
<1>1. /\ Table.daily \in Nat /\ Table.meal \in Nat /\ Days \in Int \cup {None} /\ trip \in TripSettings
  BY TableTypes, DaysType DEF TypeOK
<1>2. Unit(i) \in Nat \cup {None}
  BY <1>1, RatioType DEF Unit
<1>3. InCity \in Nat \cup {None}
  <2>1. trip.law.short # None => trip.law.short \in Nat /\ trip.law.long \in Nat
    BY <1>1, SettingAssumption
  <2>2. trip.law.cut \in Nat \cup {None}
    BY <1>1, SettingAssumption
  <2>3. QED
    BY <2>1, <2>2 DEF InCity
<1>4. ASSUME Days \in Nat PROVE OfRatio(Table.daily * Days) \in Nat \cup {None} /\ Table.meal * Days \in Nat
  BY <1>1, <1>4, ProductType, RatioType
<1>5. Planned(i) \in Nat \cup {None}
  BY <1>1, <1>3, <1>4 DEF Planned
<1>6. QED
  BY <1>2, <1>5

LEMMA AdjustedType ==
  ASSUME TypeOK, NEW i \in Items
  PROVE  Adjusted(i) \in Nat \cup {None}
<1>1. CASE allowance[i] = None
  BY <1>1 DEF Adjusted
<1>2. CASE allowance[i] # None
  <2>1. \/ allowance[i].amount \in Nat /\ allowance[i].days = None
        \/ allowance[i].amount = None /\ allowance[i].days \in Nat
    <3>1. <<i, allowance[i]>> \in Adjustments
      BY <1>2 DEF TypeOK
    <3>2. <<i, allowance[i]>>[2] = allowance[i]
      OBVIOUS
    <3>3. QED
      BY <3>1, <3>2, AdjustmentAssumption
  <2>2. Unit(i) \in Nat /\ allowance[i].days \in Nat => Unit(i) * allowance[i].days \in Nat
    BY ProductType
  <2>3. QED
    BY <1>2, <2>1, <2>2, PlannedType DEF Adjusted
<1>3. QED
  BY <1>1, <1>2

LEMMA AllowanceType ==
  ASSUME TypeOK, NEW i \in Items
  PROVE  AllowanceRow(i).approved \in Nat
<1>1. RuleAllowance(i).approved \in Nat
  BY PlannedType DEF RuleAllowance, Judge, ToReview
<1>2. CASE Adjusted(i) = None
  BY <1>1, <1>2 DEF AllowanceRow, Row
<1>3. CASE Adjusted(i) # None
  BY <1>3, AdjustedType DEF AllowanceRow, Row
<1>4. QED
  BY <1>2, <1>3

(* No receipt is approved above its claim, whatever the order in which its *)
(* amount was corrected and a person judged it (apply_manual_decisions),   *)
(* and what is open for review and what is approved of the receipts is     *)
(* together no more than what is claimed (totals).                         *)
THEOREM NothingAboveTheClaim == Spec => []ApprovedWithinClaim
<1>1. ASSUME TypeOK PROVE ApprovedWithinClaim
  <2> DEFINE open == {r \in Receipts : ReceiptRow(r).verdict = "review"}
  <2>1. \A r \in Receipts : ReceiptRow(r).approved \in 0..Claimed(r)
    BY <1>1, RowFits DEF Fits
  <2>2. \A r \in Receipts : /\ Approved[r] \in Nat /\ Claims[r] \in Nat
                            /\ Approved[r] <= Claims[r]
                            /\ r \in open => Approved[r] = 0
    <3> SUFFICES ASSUME NEW r \in Receipts
                 PROVE  /\ Approved[r] \in Nat /\ Claims[r] \in Nat
                        /\ Approved[r] <= Claims[r]
                        /\ r \in open => Approved[r] = 0
      OBVIOUS
    <3>1. Approved[r] = ReceiptRow(r).approved /\ Claims[r] = Claimed(r)
      BY DEF Approved, Claims
    <3>2. Fits(ReceiptRow(r), Claimed(r)) /\ Claimed(r) \in Nat
      BY <1>1, RowFits, RuleFits
    <3>3. QED
      BY <3>1, <3>2 DEF Fits
  <2>3. SumFunctionOnSet(Claims, open) + SumFunctionOnSet(Approved, Receipts) <= SumFunctionOnSet(Claims, Receipts)
    <3>1. open \subseteq Receipts /\ IsFiniteSet(Receipts)
      BY ReceiptAssumption
    <3>2. \A r \in Receipts : Approved[r] \in Int /\ Claims[r] \in Int
                              /\ (IF r \in open THEN Approved[r] <= 0 ELSE Approved[r] <= Claims[r])
      BY <2>2
    <3> HIDE DEF open
    <3>3. QED
      BY <3>1, <3>2, SumSplit
  <2>4. /\ SumFunctionOnSet(Claims, open) \in Nat /\ SumFunctionOnSet(Approved, Receipts) \in Nat
        /\ SumFunctionOnSet(Claims, Receipts) \in Nat
    <3>1. IsFiniteSet(Receipts) /\ IsFiniteSet(open) /\ open \subseteq Receipts
      BY ReceiptAssumption, FS_Subset
    <3> HIDE DEF open
    <3>2. QED
      BY <2>2, <3>1, SumType
  <2>5. Allowances \in Nat
    <3> DEFINE f == [i \in AllowanceItems |-> AllowanceRow(i).approved]
    <3>1. AllowanceItems \subseteq Items
      BY DEF AllowanceItems, Items
    <3>2. \A i \in AllowanceItems : f[i] \in Nat
      BY <1>1, <3>1, AllowanceType
    <3>3. IsFiniteSet(AllowanceItems)
      <4>1. IsFiniteSet({"incity"}) /\ IsFiniteSet({"daily"})
        BY FS_Singleton
      <4>2. IsFiniteSet({"daily", "meal"})
        <5>1. IsFiniteSet({"daily"} \cup {"meal"})
          BY <4>1, FS_AddElement
        <5>2. {"daily"} \cup {"meal"} = {"daily", "meal"}
          OBVIOUS
        <5>3. QED
          BY <5>1, <5>2
      <4>3. QED
        BY <4>1, <4>2 DEF AllowanceItems
    <3> HIDE DEF f
    <3>4. SumFunctionOnSet(f, AllowanceItems) \in Nat
      BY <3>2, <3>3, SumType
    <3>5. QED
      BY <3>4 DEF f, Allowances
  <2>6. TotalReview + TotalApproved <= TotalClaimed + Allowances
    <3>1. /\ TotalReview = SumFunctionOnSet(Claims, open) /\ TotalClaimed = SumFunctionOnSet(Claims, Receipts)
          /\ TotalApproved = SumFunctionOnSet(Approved, Receipts) + Allowances
      BY DEF TotalReview, TotalApproved, TotalClaimed
    <3> HIDE DEF open
    <3>2. QED
      BY <2>3, <2>4, <2>5, <3>1
  <2>7. QED
    BY <2>1, <2>6 DEF ApprovedWithinClaim
<1>2. QED
  BY <1>1, EditsAreTyped, PTL

-----------------------------------------------------------------------------
(* All the days at once are worth the amounts for one day and what was     *)
(* rounded down on each.                                                   *)
LEMMA RoundedDays ==
  ASSUME TypeOK, NEW i \in {"daily", "meal"}, Days \in Nat, Days # 0, Unit(i) # None
  PROVE  /\ Unit(i) * Days <= Planned(i) /\ Planned(i) < Unit(i) * Days + Days
         /\ (Ratio # None => (Table.daily * Ratio[1]) % Ratio[2] = 0) => Planned(i) = Unit(i) * Days
<1>1. CASE i = "meal"
  <2>1. Planned(i) = Table.meal * Days /\ Unit(i) = Table.meal
    BY <1>1, ReceiptAssumption DEF Planned, Unit
  <2>2. Table.meal * Days \in Nat
    BY TableTypes, ProductType
  <2>3. QED
    BY <2>1, <2>2
<1>2. CASE i = "daily"
  <2>1. Ratio # None
    BY <1>2 DEF Unit, OfRatio
  <2>2. Table.daily \in Nat /\ Ratio[1] \in Nat /\ Ratio[2] \in Nat \ {0}
    BY <2>1, TableTypes
  <2>3. (Table.daily * Days) * Ratio[1] = (Table.daily * Ratio[1]) * Days /\ Table.daily * Ratio[1] \in Nat
    BY <2>2, ProductType
  <2>4. Planned(i) = ((Table.daily * Ratio[1]) * Days) \div Ratio[2]
    BY <1>2, <2>1, <2>3, ReceiptAssumption DEF Planned, OfRatio
  <2>5. Unit(i) = (Table.daily * Ratio[1]) \div Ratio[2]
    BY <1>2, <2>1 DEF Unit, OfRatio
  <2>6. Unit(i) * Days <= Planned(i) /\ Planned(i) < Unit(i) * Days + Days
    BY <2>2, <2>3, <2>4, <2>5, RoundedQuotient
  <2>7. ASSUME (Table.daily * Ratio[1]) % Ratio[2] = 0
        PROVE  Planned(i) = Unit(i) * Days
    <3>1. ((Table.daily * Ratio[1]) * Days) \div Ratio[2] = ((Table.daily * Ratio[1]) \div Ratio[2]) * Days
      BY <2>2, <2>3, <2>7, EvenQuotient
    <3>2. QED
      BY <2>4, <2>5, <3>1
  <2>8. QED
    BY <2>1, <2>6, <2>7
<1>3. QED
  BY <1>1, <1>2

(* A person who grants exactly the days of the trip gives what the rule    *)
(* gives, but for what is rounded down on each day (allowance_units rounds *)
(* a day, allowance_rows the whole trip), and never more.                  *)
THEOREM FullDaysArePaidInFull == Spec => []FullDaysAreFullPay
<1> DEFINE even == Ratio # None => (Table.daily * Ratio[1]) % Ratio[2] = 0
<1>1. ASSUME TypeOK, NEW i \in AllowanceItems \ {"incity"},
             allowance[i] # None, AllowanceRow(i).manual, allowance[i].days = Days,
             RuleAllowance(i).approved > 0
      PROVE  LET row == AllowanceRow(i)  rule == RuleAllowance(i).approved IN
             /\ row.approved <= rule /\ rule < row.approved + Days
             /\ even => row.approved = rule
             /\ row.approved = rule => row.verdict = "pay"
             /\ ~row.over
  <2>1. i \in {"daily", "meal"} /\ i \in Items
    BY DEF AllowanceItems, Items
  <2>2. RuleAllowance(i) = Judge("pay", Planned(i)) /\ Planned(i) # None
    BY <1>1 DEF RuleAllowance, ToReview, Judge
  <2>3. RuleAllowance(i).approved = Planned(i) /\ RuleAllowance(i).verdict = "pay"
    BY <2>2 DEF Judge
  <2>4. Planned(i) \in Nat /\ Planned(i) # 0
    BY <1>1, <2>1, <2>2, <2>3, PlannedType
  <2>5. Days # None /\ Days \in Nat /\ Days # 0
    <3>1. Days # None /\ ~(Days < 1)
      BY <2>1, <2>4, <2>2 DEF Planned
    <3>2. QED
      BY <1>1, <3>1, DaysType
  <2>6. allowance[i].amount = None
    <3>1. <<i, allowance[i]>> \in Adjustments /\ <<i, allowance[i]>>[2] = allowance[i]
      BY <1>1, <2>1 DEF TypeOK
    <3>2. allowance[i].days # None
      BY <1>1, <2>5
    <3>3. QED
      BY <3>1, <3>2, AdjustmentAssumption
  <2>7. Adjusted(i) # None
    BY <1>1 DEF AllowanceRow, Row
  <2>8. Unit(i) # None /\ Adjusted(i) = Unit(i) * Days
    BY <1>1, <2>6, <2>7 DEF Adjusted
  <2>9. Adjusted(i) \in Nat /\ Adjusted(i) <= Planned(i) /\ Planned(i) < Adjusted(i) + Days
        /\ (even => Planned(i) = Adjusted(i))
    <3>1. Adjusted(i) \in Nat
      BY <1>1, <2>1, <2>7, AdjustedType
    <3>2. QED
      BY <1>1, <2>1, <2>5, <2>8, <3>1, RoundedDays
  <2>10. PICK verdict : /\ AllowanceRow(i) = Row(RuleAllowance(i), TRUE, Adjusted(i), verdict)
                        /\ Adjusted(i) = Planned(i) => verdict = "pay"
    <3>1. Adjusted(i) = Planned(i) => ~(Adjusted(i) < Planned(i)) /\ Adjusted(i) # 0
      BY <2>4
    <3>2. QED
      BY <2>7, <3>1 DEF AllowanceRow
  <2>11. AllowanceRow(i).verdict = verdict /\ AllowanceRow(i).approved = Adjusted(i)
    BY <2>10 DEF Row
  <2>12. AllowanceRow(i).over = (RuleAllowance(i).verdict # "review" /\ Adjusted(i) > RuleAllowance(i).approved)
    BY <2>10 DEF Row
  <2>13. ~(Adjusted(i) > RuleAllowance(i).approved)
    BY <2>3, <2>4, <2>9
  <2>14. ~AllowanceRow(i).over
    BY <2>12, <2>13, Zenon
  <2>15. QED
    BY <2>3, <2>9, <2>10, <2>11, <2>14
<1>2. TypeOK => FullDaysAreFullPay
  BY <1>1 DEF FullDaysAreFullPay
<1>3. QED
  BY <1>2, EditsAreTyped, PTL

=============================================================================
