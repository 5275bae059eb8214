-------------------------- MODULE JobHistoryProofs --------------------------
(***************************************************************************)
(* The execution history keeps its bound and its order, finished runs stay *)
(* on record, and drift annotations belong to their own runs, for any      *)
(* number of replicas, Jobs and history limits.                            *)
(***************************************************************************)
EXTENDS JobHistory, NatLemmas

Unique(S) == \A x, y \in S : x.name = y.name => x = y

(* Two views of the same Job, with the same start in the same phase. *)
Same(x, y) ==
    /\ x.name = y.name /\ x.born = y.born
    /\ x.start = y.start /\ x.phase = y.phase

(* The constants, as numbers. *)
LEMMA ConstantFacts ==
    /\ \A n \in Names : n \in Nat
    /\ HistoryLimit \in Nat /\ HistoryLimit >= 1
    /\ MaxTime \in Nat /\ MaxTime >= 1 /\ MinAge \in Nat /\ MaxChanges \in Nat
    /\ Skew \in Nat
BY NamesAssumption, SpecAssumption, TimeAssumption, JobsAssumption

(* The fields of a record. *)
LEMMA RecordFields ==
    ASSUME NEW x \in ExecutionRecord
    PROVE  /\ x.name \in Names /\ x.name \in Nat /\ x.start \in Nat
           /\ x.end \in Nat /\ x.expected \in Nat /\ x.phase \in Phases
           /\ x.born \in Nat
BY ConstantFacts DEF ExecutionRecord

-----------------------------------------------------------------------------
(* The order of the ring.                                                  *)

(* Newer is a strict order, total on records of different names. *)
LEMMA NewerOrder ==
    ASSUME NEW x \in ExecutionRecord, NEW y \in ExecutionRecord,
           NEW z \in ExecutionRecord
    PROVE  /\ ~Newer(x, x)
           /\ Newer(x, y) /\ Newer(y, z) => Newer(x, z)
           /\ Newer(x, y) \/ Newer(y, x) \/ x.name = y.name
           /\ x.start >= y.start /\ Newer(z, x) => z.start >= y.start
BY RecordFields DEF Newer

(* A finite set of records has a newest one. *)
LEMMA NewestExists ==
    ASSUME NEW S, S \subseteq ExecutionRecord, IsFiniteSet(S), S # {}
    PROVE  \E m \in S : \A x \in S : ~Newer(x, m)
<1>. DEFINE Above(m) == {x \in S : Newer(x, m)}
            C == {Cardinality(Above(m)) : m \in S}
<1>1. \A m \in S : IsFiniteSet(Above(m)) /\ Cardinality(Above(m)) \in Nat
  <2>. SUFFICES ASSUME NEW m \in S
                PROVE  IsFiniteSet(Above(m)) /\ Cardinality(Above(m)) \in Nat
    OBVIOUS
  <2>1. Above(m) \in SUBSET S
    OBVIOUS
  <2>2. IsFiniteSet(Above(m))
    BY <2>1, FS_Subset
  <2>. QED  BY <2>2, FS_CardinalityType
<1>2. PICK c \in C : \A d \in C : c <= d
  <2>1. C \subseteq Nat /\ C # {}
    BY <1>1
  <2>. HIDE DEF C
  <2>. QED  BY <2>1, LeastNat
<1>3. PICK m \in S : c = Cardinality(Above(m))
  BY <1>2
<1>4. ASSUME NEW x \in S, Newer(x, m) PROVE FALSE
  <2>1. x \in Above(m) /\ x \notin Above(x)
    BY <1>4, NewerOrder
  <2>2. Above(x) \in SUBSET Above(m)
    BY <1>4, NewerOrder
  <2>3. /\ Cardinality(Above(x)) <= Cardinality(Above(m))
        /\ Cardinality(Above(x)) # Cardinality(Above(m))
    <3>1. Above(x) # Above(m)
      BY <2>1
    <3>2. IsFiniteSet(Above(m))
      BY <1>1, <1>3
    <3>. HIDE DEF Above
    <3>. QED  BY <2>2, <3>1, <3>2, FS_Subset
  <2>4. Cardinality(Above(m)) <= Cardinality(Above(x))
    BY <1>2, <1>3, <1>4
  <2>5. Cardinality(Above(m)) \in Nat /\ Cardinality(Above(x)) \in Nat
    BY <1>1, <1>3, <1>4
  <2>. HIDE DEF Above
  <2>. QED  BY <2>3, <2>4, <2>5
<1>. QED  BY <1>3, <1>4

(* A set of records has an oldest one. *)
LEMMA OldestExists ==
    ASSUME NEW S, S \subseteq ExecutionRecord, S # {}
    PROVE  \E m \in S : \A x \in S : ~Newer(m, x)
<1>1. PICK t \in {x.start : x \in S} : \A u \in {x.start : x \in S} : t <= u
  <2>1. {x.start : x \in S} \subseteq Nat /\ {x.start : x \in S} # {}
    BY RecordFields
  <2>. QED  BY <2>1, LeastNat
<1>. DEFINE N == {x.name : x \in {y \in S : y.start = t}}
<1>2. PICK n \in N : \A k \in N : n <= k
  <2>1. N \subseteq Nat /\ N # {}
    BY <1>1, RecordFields
  <2>. HIDE DEF N
  <2>. QED  BY <2>1, LeastNat
<1>3. PICK m \in S : m.start = t /\ m.name = n
  BY <1>2
<1>4. ASSUME NEW x \in S PROVE ~Newer(m, x)
  <2>1. m.start <= x.start
    BY <1>1, <1>3
  <2>2. x.start = t => m.name <= x.name
    BY <1>2, <1>3
  <2>3. m \in ExecutionRecord /\ x \in ExecutionRecord
    OBVIOUS
  <2>. QED  BY <1>3, <2>1, <2>2, <2>3, RecordFields DEF Newer
<1>. QED  BY <1>4

(* Truncate keeps at most `limit` records, and what it cuts off is older   *)
(* than `limit` records that it keeps.                                     *)
LEMMA TruncateFacts ==
    ASSUME NEW recs, recs \subseteq ExecutionRecord, Unique(recs),
           IsFiniteSet(recs), NEW limit \in Nat
    PROVE  /\ Truncate(recs, limit) \subseteq recs
           /\ Cardinality(Truncate(recs, limit)) <= limit
           /\ \A p \in recs \ Truncate(recs, limit) :
                 \E X \in SUBSET Truncate(recs, limit) :
                    Cardinality(X) >= limit /\ \A x \in X : Newer(x, p)
<1>. DEFINE T == Truncate(recs, limit)
            Above(p) == {q \in recs : Newer(q, p)}
<1>1. T \subseteq recs /\ T = {p \in recs : Cardinality(Above(p)) < limit}
  BY DEF Truncate
<1>2. IsFiniteSet(T) /\ Cardinality(T) \in Nat
  <2>1. IsFiniteSet(T)
    BY <1>1, FS_Subset
  <2>. QED  BY <2>1, FS_CardinalityType
<1>3. \A p \in recs : IsFiniteSet(Above(p)) /\ Cardinality(Above(p)) \in Nat
  <2>. SUFFICES ASSUME NEW p \in recs
                PROVE  IsFiniteSet(Above(p)) /\ Cardinality(Above(p)) \in Nat
    OBVIOUS
  <2>1. Above(p) \in SUBSET recs
    OBVIOUS
  <2>2. IsFiniteSet(Above(p))
    BY <2>1, FS_Subset
  <2>. QED  BY <2>2, FS_CardinalityType
<1>4. Cardinality(T) <= limit
  <2>1. CASE T = {}
    BY <2>1, FS_EmptySet
  <2>2. CASE T # {}
    <3>1. PICK p \in T : \A x \in T : ~Newer(p, x)
      BY <1>1, <2>2, OldestExists
    <3>2. T \ {p} \in SUBSET Above(p)
      BY <1>1, <3>1, NewerOrder DEF Unique
    <3>3. Cardinality(T \ {p}) <= Cardinality(Above(p))
      <4>1. IsFiniteSet(Above(p))
        BY <1>1, <1>3, <3>1
      <4>. HIDE DEF T, Above
      <4>. QED  BY <3>2, <4>1, FS_Subset
    <3>4. Cardinality(T \ {p}) = Cardinality(T) - 1
      <4>. HIDE DEF T
      <4>. QED  BY <1>2, <3>1, FS_RemoveElement
    <3>5. Cardinality(Above(p)) < limit /\ Cardinality(Above(p)) \in Nat
      BY <1>1, <1>3, <3>1
    <3>. HIDE DEF T, Above
    <3>. QED  BY <1>2, <3>3, <3>4, <3>5
  <2>. QED  BY <2>1, <2>2
<1>5. ASSUME NEW p \in recs \ T
      PROVE  \E X \in SUBSET T : Cardinality(X) >= limit /\ \A x \in X : Newer(x, p)
  <2>0. \A q \in recs \ T : Cardinality(Above(q)) >= limit
    BY <1>1, <1>3
  <2>1. CASE Above(p) \subseteq T
    <3>1. Cardinality(Above(p)) >= limit /\ \A x \in Above(p) : Newer(x, p)
      BY <2>0, <1>5
    <3>. HIDE DEF T, Above
    <3>. QED  BY <2>1, <3>1
  <2>2. CASE ~(Above(p) \subseteq T)
    <3>1. PICK e \in Above(p) \ T : \A x \in Above(p) \ T : ~Newer(x, e)
      <4>1. Above(p) \ T \in SUBSET recs /\ Above(p) \ T # {}
        BY <2>2
      <4>2. IsFiniteSet(Above(p) \ T)
        BY <4>1, FS_Subset
      <4>3. Above(p) \ T \subseteq ExecutionRecord
        BY <4>1
      <4>. HIDE DEF T, Above
      <4>. QED  BY <4>1, <4>2, <4>3, NewestExists
    <3>2. \A x \in Above(e) : Newer(x, p) /\ x \in T
      <4>1. e \in recs /\ Newer(e, p)
        BY <3>1
      <4>2. ASSUME NEW x \in Above(e) PROVE Newer(x, p)
        BY <4>1, NewerOrder
      <4>3. ASSUME NEW x \in Above(e) PROVE x \in T
        <5>1. x \in Above(p) /\ Newer(x, e)
          BY <4>2
        <5>. HIDE DEF T, Above
        <5>. QED  BY <3>1, <5>1
      <4>. QED  BY <4>2, <4>3
    <3>3. Cardinality(Above(e)) >= limit
      BY <2>0, <3>1
    <3>4. Above(e) \in SUBSET T
      BY <3>2
    <3>. HIDE DEF T, Above
    <3>. QED  BY <3>2, <3>3, <3>4
  <2>. QED  BY <2>1, <2>2
<1>. QED  BY <1>1, <1>4, <1>5

-----------------------------------------------------------------------------
(* Merging and annotating.                                                 *)

(* The union that Merge truncates. *)
Replacing(existing, incoming) ==
    {pq \in existing \X incoming :
        pq[2].name = pq[1].name /\ shouldReplace(pq[1], pq[2])}

Union(existing, incoming) ==
    {p \in existing : ~\E q \in incoming : q.name = p.name /\ shouldReplace(p, q)}
    \cup {q \in incoming : \A p \in existing : q.name # p.name}
    \cup {[pq[2] EXCEPT !.expected = pq[1].expected] :
            pq \in Replacing(existing, incoming)}

(* Merge is that union, truncated. *)
LEMMA MergeIsUnion ==
    ASSUME NEW existing, NEW incoming, NEW limit
    PROVE  Merge(existing, incoming, limit) = Truncate(Union(existing, incoming), limit)
BY DEF Merge, Union, Replacing

(* The record of a Job. *)
LEMMA RecordOf ==
    ASSUME NEW j \in Job
    PROVE  /\ jobToRecord(j) \in ExecutionRecord
           /\ jobToRecord(j).name = j.name
           /\ jobToRecord(j).start = (IF j.start = Unset THEN j.created ELSE j.start)
           /\ jobToRecord(j).phase = jobOutcome(j)
           /\ jobToRecord(j).expected = Unset
           /\ jobToRecord(j).born = j.created
           /\ j.name \in Names /\ j.created \in Nat /\ j.start \in Nat
<1>1. jobOutcome(j) \in Phases
  BY DEF jobOutcome, Phases, Job, Conditions
<1>. QED  BY <1>1 DEF jobToRecord, ExecutionRecord, Job, Unset

(* Every record of the union is one on record that nothing replaces, or    *)
(* the view of a Job; names stay unique.                                   *)
LEMMA UnionFacts ==
    ASSUME NEW E, E \subseteq ExecutionRecord, Unique(E), IsFiniteSet(E),
           NEW I, I \subseteq ExecutionRecord, Unique(I), IsFiniteSet(I)
    PROVE  /\ Union(E, I) \subseteq ExecutionRecord
           /\ Unique(Union(E, I))
           /\ IsFiniteSet(Union(E, I))
           /\ \A x \in Union(E, I) :
                 \/ x \in E
                 \/ \E q \in I : /\ Same(x, q) /\ x.end = q.end
                                /\ \/ x.expected = q.expected
                                   \/ \E p \in E : /\ p.name = x.name
                                                   /\ shouldReplace(p, q)
                                                   /\ x.expected = p.expected
           /\ \A p \in E :
                 \/ p \in Union(E, I)
                 \/ \E q \in I : /\ q.name = p.name /\ shouldReplace(p, q)
                                /\ [q EXCEPT !.expected = p.expected] \in Union(E, I)
<1>. DEFINE K == {p \in E : ~\E q \in I : q.name = p.name /\ shouldReplace(p, q)}
            N == {q \in I : \A p \in E : q.name # p.name}
            P == Replacing(E, I)
            R == {[pq[2] EXCEPT !.expected = pq[1].expected] : pq \in P}
<1>1. Union(E, I) = K \cup N \cup R
  BY DEF Union
<1>2. \A pq \in P : /\ pq[1] \in E /\ pq[2] \in I /\ pq[2].name = pq[1].name
                    /\ shouldReplace(pq[1], pq[2])
  BY DEF Replacing
<1>3. \A p \in E, q \in I : q.name = p.name /\ shouldReplace(p, q) => <<p, q>> \in P
  BY DEF Replacing
<1>4. \A p \in E, q \in I :
         LET x == [q EXCEPT !.expected = p.expected]
         IN  /\ x \in ExecutionRecord /\ x.name = q.name /\ x.start = q.start
             /\ x.phase = q.phase /\ x.end = q.end /\ x.expected = p.expected
             /\ x.born = q.born
  BY DEF ExecutionRecord
<1>5. \A x \in R : \E p \in E, q \in I :
          /\ x = [q EXCEPT !.expected = p.expected] /\ q.name = p.name
          /\ shouldReplace(p, q)
  BY <1>2
<1>6. K \subseteq E /\ N \subseteq I
  OBVIOUS
<1>7. R \subseteq ExecutionRecord
  BY <1>4, <1>5
<1>8. Union(E, I) \subseteq ExecutionRecord
  BY <1>1, <1>6, <1>7
<1>9. IsFiniteSet(Union(E, I))
  <2>1. IsFiniteSet(K) /\ IsFiniteSet(N)
    BY <1>6, FS_Subset
  <2>2. IsFiniteSet(P)
    <3>1. IsFiniteSet(E \X I) /\ P \in SUBSET (E \X I)
      BY FS_Product DEF Replacing
    <3>. QED  BY <3>1, FS_Subset
  <2>3. IsFiniteSet(R)
    <3>. DEFINE h == [pq \in P |-> [pq[2] EXCEPT !.expected = pq[1].expected]]
    <3>1. h \in Surjection(P, R)
      BY DEF Surjection
    <3>. HIDE DEF h, P, R
    <3>. QED  BY <2>2, <3>1, FS_Surjection
  <2>. HIDE DEF K, N, R
  <2>4. IsFiniteSet(K \cup N)
    BY <2>1, FS_Union
  <2>5. IsFiniteSet((K \cup N) \cup R)
    BY <2>3, <2>4, FS_Union
  <2>. QED  BY <1>1, <2>5
<1>10. Unique(Union(E, I))
  <2>. SUFFICES ASSUME NEW x \in K \cup N \cup R, NEW y \in K \cup N \cup R,
                       x.name = y.name
                PROVE  x = y
    BY <1>1 DEF Unique
  <2>1. ASSUME NEW a \in R, NEW b \in K, a.name = b.name PROVE FALSE
    <3>1. PICK p \in E, q \in I : /\ a = [q EXCEPT !.expected = p.expected]
                                  /\ q.name = p.name /\ shouldReplace(p, q)
      BY <1>5
    <3>2. p.name = b.name
      BY <1>4, <2>1, <3>1
    <3>3. p = b
      BY <3>2, <1>6 DEF Unique
    <3>. QED  BY <3>1, <3>3
  <2>2. ASSUME NEW a \in R, NEW b \in N, a.name = b.name PROVE FALSE
    <3>1. PICK p \in E, q \in I : /\ a = [q EXCEPT !.expected = p.expected]
                                  /\ q.name = p.name /\ shouldReplace(p, q)
      BY <1>5
    <3>2. b.name = p.name
      BY <1>4, <2>2, <3>1
    <3>. QED  BY <3>2
  <2>3. ASSUME NEW a \in R, NEW b \in R, a.name = b.name PROVE a = b
    <3>1. PICK p \in E, q \in I : /\ a = [q EXCEPT !.expected = p.expected]
                                  /\ q.name = p.name /\ shouldReplace(p, q)
      BY <1>5
    <3>2. PICK p2 \in E, q2 \in I : /\ b = [q2 EXCEPT !.expected = p2.expected]
                                  /\ q2.name = p2.name /\ shouldReplace(p2, q2)
      BY <1>5
    <3>3. q.name = q2.name /\ p.name = p2.name
      BY <1>4, <2>3, <3>1, <3>2
    <3>4. q = q2 /\ p = p2
      BY <3>3 DEF Unique
    <3>. QED  BY <3>1, <3>2, <3>4
  <2>4. ASSUME NEW a \in K, NEW b \in N, a.name = b.name PROVE FALSE
    BY <2>4
  <2>5. ASSUME NEW a \in K, NEW b \in K, a.name = b.name PROVE a = b
    BY <2>5, <1>6 DEF Unique
  <2>6. ASSUME NEW a \in N, NEW b \in N, a.name = b.name PROVE a = b
    BY <2>6, <1>6 DEF Unique
  <2>. HIDE DEF K, N, R
  <2>. QED  BY <2>1, <2>2, <2>3, <2>4, <2>5, <2>6
<1>11. ASSUME NEW x \in Union(E, I)
       PROVE  \/ x \in E
              \/ \E q \in I : /\ Same(x, q) /\ x.end = q.end
                             /\ \/ x.expected = q.expected
                                \/ \E p \in E : /\ p.name = x.name
                                                /\ shouldReplace(p, q)
                                                /\ x.expected = p.expected
  <2>1. CASE x \in K
    BY <2>1
  <2>2. CASE x \in N
    BY <2>2 DEF Same
  <2>3. CASE x \in R
    <3>1. PICK p \in E, q \in I : /\ x = [q EXCEPT !.expected = p.expected]
                                  /\ q.name = p.name /\ shouldReplace(p, q)
      BY <1>5, <2>3
    <3>2. Same(x, q) /\ x.end = q.end /\ p.name = x.name /\ x.expected = p.expected
      BY <1>4, <3>1 DEF Same
    <3>. QED  BY <3>1, <3>2
  <2>. QED  BY <1>1, <2>1, <2>2, <2>3
<1>12. ASSUME NEW p \in E
       PROVE  \/ p \in Union(E, I)
              \/ \E q \in I : /\ q.name = p.name /\ shouldReplace(p, q)
                             /\ [q EXCEPT !.expected = p.expected] \in Union(E, I)
  <2>1. CASE p \in K
    BY <1>1, <2>1
  <2>2. CASE p \notin K
    <3>1. PICK q \in I : q.name = p.name /\ shouldReplace(p, q)
      BY <2>2
    <3>2. <<p, q>> \in P
      BY <1>3, <3>1
    <3>3. [q EXCEPT !.expected = p.expected] \in R
      BY <3>2
    <3>. QED  BY <1>1, <3>1, <3>3
  <2>. QED  BY <2>1, <2>2
<1>. QED  BY <1>8, <1>9, <1>10, <1>11, <1>12

(* Annotating changes at most the annotation of a record, to the drift of  *)
(* its own start.                                                          *)
LEMMA AnnotateFacts ==
    ASSUME NEW recs, recs \subseteq ExecutionRecord, Unique(recs),
           IsFiniteSet(recs), NEW last \in Nat
    PROVE  /\ Annotate(recs, last) \subseteq ExecutionRecord
           /\ Unique(Annotate(recs, last))
           /\ IsFiniteSet(Annotate(recs, last))
           /\ Cardinality(Annotate(recs, last)) <= Cardinality(recs)
           /\ \A a \in Annotate(recs, last) : \E p \in recs :
                 /\ Same(a, p) /\ a.end = p.end
                 /\ \/ a.expected = p.expected
                    \/ a.start = last /\ a.expected = Drift(last)
           /\ \A p \in recs : \E a \in Annotate(recs, last) :
                 a = [p EXCEPT !.expected = a.expected]
<1>. DEFINE M == {p \in Newest(recs) : p.start = last}
            mark(p) == [p EXCEPT !.expected = Drift(last)]
            A == Annotate(recs, last)
            h == [p \in recs |-> IF p \in M THEN mark(p) ELSE p]
<1>1. A = (recs \ M) \cup {mark(p) : p \in M}
  BY DEF Annotate
<1>2. M \subseteq recs /\ \A p \in M : p.start = last
  BY DEF Newest
<1>3. Drift(last) \in Nat
  BY DEF Drift, Unset
<1>4. \A p \in recs : /\ mark(p) \in ExecutionRecord /\ Same(mark(p), p)
                      /\ mark(p).end = p.end /\ mark(p).expected = Drift(last)
                      /\ mark(p) = [p EXCEPT !.expected = mark(p).expected]
                      /\ p = [p EXCEPT !.expected = p.expected]
  BY <1>3 DEF ExecutionRecord, Same
<1>5. h \in Surjection(recs, A)
  <2>1. h \in [recs -> A]
    BY <1>1, <1>2
  <2>2. \A a \in A : \E p \in recs : h[p] = a
    BY <1>1, <1>2
  <2>. HIDE DEF A, h
  <2>. QED  BY <2>1, <2>2 DEF Surjection
<1>6. IsFiniteSet(A) /\ Cardinality(A) <= Cardinality(recs)
  <2>. HIDE DEF A, h
  <2>. QED  BY <1>5, FS_Surjection
<1>7. A \subseteq ExecutionRecord
  BY <1>1, <1>2, <1>4
<1>8. ASSUME NEW a \in A
      PROVE  \E p \in recs : /\ Same(a, p) /\ a.end = p.end
                             /\ \/ a.expected = p.expected
                                \/ a.start = last /\ a.expected = Drift(last)
  <2>1. CASE a \in recs \ M
    BY <2>1 DEF Same
  <2>2. CASE a \in {mark(p) : p \in M}
    <3>1. PICK p \in M : a = mark(p)
      BY <2>2
    <3>2. p \in recs /\ p.start = last
      BY <1>2, <3>1
    <3>3. Same(a, p) /\ a.end = p.end /\ a.expected = Drift(last)
      BY <1>4, <3>1, <3>2
    <3>. QED  BY <3>2, <3>3 DEF Same
  <2>. QED  BY <1>1, <2>1, <2>2
<1>9. Unique(A)
  <2>. SUFFICES ASSUME NEW x \in A, NEW y \in A, x.name = y.name PROVE x = y
    BY DEF Unique
  <2>1. PICK p \in recs : x = h[p]
    BY <1>5 DEF Surjection
  <2>2. PICK q \in recs : y = h[q]
    BY <1>5 DEF Surjection
  <2>3. x.name = p.name /\ y.name = q.name
    BY <1>4, <2>1, <2>2 DEF Same
  <2>. QED  BY <2>1, <2>2, <2>3 DEF Unique
<1>10. ASSUME NEW p \in recs
       PROVE  \E a \in A : a = [p EXCEPT !.expected = a.expected]
  <2>1. CASE p \in M
    <3>1. mark(p) \in A /\ mark(p) = [p EXCEPT !.expected = mark(p).expected]
      BY <1>1, <1>4, <2>1
    <3>. HIDE DEF A, mark
    <3>. QED  BY <3>1
  <2>2. CASE p \notin M
    <3>1. p \in A /\ p = [p EXCEPT !.expected = p.expected]
      BY <1>1, <1>4, <2>2
    <3>. HIDE DEF A
    <3>. QED  BY <3>1
  <2>. QED  BY <2>1, <2>2
<1>. QED  BY <1>6, <1>7, <1>8, <1>9, <1>10

-----------------------------------------------------------------------------
(* The inductive invariant.                                                *)

RecordsOf(J) == {jobToRecord(j) : j \in J}

(* Everything that stands for a run: the records, the Jobs and what the    *)
(* informers have of them.                                                 *)
Views == recent \cup RecordsOf(jobs)
           \cup UNION {RecordsOf(seenJobs[r]) : r \in Replicas}

(* Jobs have unique names, and there are finitely many of everything. *)
Bounded ==
    /\ IsFiniteSet(recent) /\ IsFiniteSet(jobs) /\ Unique(jobs)
    /\ \A r \in Replicas : IsFiniteSet(seenJobs[r]) /\ Unique(seenJobs[r])

(* A view of a Job's name is of that Job or of an earlier one.  If of that *)
(* Job, it shows its start or its creation, and its outcome if it has one. *)
JobFits(x, j) ==
    /\ x.born <= j.created
    /\ x.born = j.created =>
          /\ x.start \in {x.born, jobToRecord(j).start}
          /\ isTerminal(x.phase) =>
                x.phase = jobOutcome(j) /\ x.start = jobToRecord(j).start

(* Views of one Job show one start besides its creation, the one that its  *)
(* finished views have, and agree on the outcome.  Every start of a Job is *)
(* before the creation of the next of its name.                            *)
PairFits(x, y) ==
    /\ x.born = y.born =>
          /\ x.start = y.start \/ x.start = x.born \/ y.start = y.born
          /\ isTerminal(x.phase) => y.start \in {x.start, x.born}
          /\ isTerminal(x.phase) /\ isTerminal(y.phase) =>
                x.phase = y.phase /\ x.start = y.start
    /\ x.born < y.born => x.start < y.born

(* Runs lie in the past, start no more than Skew before their Job is       *)
(* created, and fit the Job of their name, if there is one, and each other.*)
RunsAgree ==
    /\ latch <= now
    /\ \A x \in Views : /\ 1 <= x.start /\ x.start <= now
                        /\ 1 <= x.born /\ x.born <= now
                        /\ x.born <= x.start + Skew
    /\ \A x \in Views, j \in jobs : x.name = j.name => JobFits(x, j)
    /\ \A x \in Views :
          \/ x.start <= gone[x.name] /\ x.born <= gone[x.name]
          \/ \E j \in jobs : j.name = x.name
    /\ \A x, y \in Views : x.name = y.name => PairFits(x, y)

HInv == TypeOK /\ Bounded /\ RunsAgree

(* The records of a set of Jobs. *)
LEMMA RecordsFacts ==
    ASSUME NEW J, J \subseteq Job, IsFiniteSet(J), Unique(J)
    PROVE  /\ RecordsOf(J) \subseteq ExecutionRecord
           /\ IsFiniteSet(RecordsOf(J))
           /\ Unique(RecordsOf(J))
           /\ \A x \in RecordsOf(J) : x.expected = Unset /\ \E j \in J : x.name = j.name
<1>1. \A j \in J : /\ jobToRecord(j) \in ExecutionRecord
                   /\ jobToRecord(j).name = j.name
                   /\ jobToRecord(j).expected = Unset
  BY RecordOf
<1>2. IsFiniteSet(RecordsOf(J))
  <2>. DEFINE h == [j \in J |-> jobToRecord(j)]
  <2>1. h \in Surjection(J, RecordsOf(J))
    BY DEF Surjection, RecordsOf
  <2>. HIDE DEF h
  <2>. QED  BY <2>1, FS_Surjection
<1>3. Unique(RecordsOf(J))
  BY <1>1 DEF Unique, RecordsOf
<1>. QED  BY <1>1, <1>2, <1>3 DEF RecordsOf

(* The views, typed. *)
LEMMA ViewsType ==
    ASSUME TypeOK PROVE Views \subseteq ExecutionRecord
<1>1. \A j \in Job : jobToRecord(j) \in ExecutionRecord
  BY RecordOf
<1>. QED  BY <1>1 DEF Views, RecordsOf, TypeOK

(* What a reconcile leaves on record: every record is of a run that was on *)
(* record or in the cache.                                                 *)
Rewritten(recs) ==
    /\ recs \subseteq ExecutionRecord /\ Unique(recs) /\ IsFiniteSet(recs)
    /\ Cardinality(recs) <= HistoryLimit
    /\ \A x \in recs : \E y \in Views : Same(x, y)

(* The same holds of fewer records. *)
LEMMA RewrittenLess ==
    ASSUME NEW S, Rewritten(S), NEW T, T \subseteq S
    PROVE  Rewritten(T)
<1>1. IsFiniteSet(S) /\ IsFiniteSet(T) /\ Cardinality(T) <= Cardinality(S)
  BY FS_Subset DEF Rewritten
<1>2. Cardinality(T) \in Nat /\ Cardinality(S) \in Nat
  BY <1>1, FS_CardinalityType
<1>3. Cardinality(T) <= HistoryLimit
  BY <1>1, <1>2, ConstantFacts DEF Rewritten
<1>. QED  BY <1>1, <1>3 DEF Rewritten, Unique

(* What a merge is made of. *)
LEMMA MergedParts ==
    ASSUME HInv, NEW r \in Replicas
    PROVE  \E I : /\ I \subseteq ExecutionRecord /\ IsFiniteSet(I) /\ Unique(I)
                  /\ I \subseteq Views
                  /\ \A q \in I : q.expected = Unset /\ q.name \in Live(r)
                  /\ recent \subseteq ExecutionRecord
                  /\ IsFiniteSet(recent) /\ Unique(recent)
                  /\ Merged(r) = Truncate(Union(recent, I), HistoryLimit)
<1>. DEFINE O == listOwnedJobs(r)
            I == RecordsOf(O)
<1>1. O \subseteq Job /\ IsFiniteSet(O) /\ Unique(O) /\ O \subseteq seenJobs[r]
  <2>1. O \in SUBSET seenJobs[r]
    BY DEF listOwnedJobs
  <2>2. IsFiniteSet(O)
    BY <2>1, FS_Subset DEF HInv, Bounded
  <2>. QED  BY <2>1, <2>2 DEF HInv, Bounded, TypeOK, Unique
<1>2. /\ I \subseteq ExecutionRecord /\ IsFiniteSet(I) /\ Unique(I)
      /\ \A q \in I : q.expected = Unset /\ \E j \in O : q.name = j.name
  <2>. HIDE DEF O
  <2>. QED  BY <1>1, RecordsFacts
<1>3. recent \subseteq ExecutionRecord /\ IsFiniteSet(recent) /\ Unique(recent)
  BY DEF HInv, TypeOK, Bounded, Unique
<1>4. Merged(r) = Truncate(Union(recent, I), HistoryLimit)
  BY MergeIsUnion DEF Merged, RecordsOf
<1>5. I \subseteq Views
  BY <1>1 DEF Views, RecordsOf
<1>6. \A q \in I : q.name \in Live(r)
  BY <1>2 DEF Live, liveJobNames
<1>. HIDE DEF I
<1>. QED  BY <1>2, <1>3, <1>4, <1>5, <1>6

(* The merge of the records with those of the owned Jobs. *)
LEMMA MergedFacts ==
    ASSUME HInv, NEW r \in Replicas
    PROVE  /\ Rewritten(Merged(r))
           /\ updateLastObservedTimes(Merged(r)) \in Nat
           /\ updateLastObservedTimes(Merged(r)) <= now
           /\ updateLastObservedTimes(Merged(r)) >= latch
           /\ \A p \in Merged(r) : updateLastObservedTimes(Merged(r)) >= p.start
<1>1. PICK I : /\ I \subseteq ExecutionRecord /\ IsFiniteSet(I) /\ Unique(I)
               /\ I \subseteq Views
               /\ recent \subseteq ExecutionRecord
               /\ IsFiniteSet(recent) /\ Unique(recent)
               /\ Merged(r) = Truncate(Union(recent, I), HistoryLimit)
  BY MergedParts
<1>. DEFINE U == Union(recent, I)
            M == Merged(r)
<1>4. M = Truncate(U, HistoryLimit)
  BY <1>1
<1>5. /\ U \subseteq ExecutionRecord /\ Unique(U) /\ IsFiniteSet(U)
      /\ \A x \in U : x \in recent \/ \E q \in I : Same(x, q)
  BY <1>1, UnionFacts
<1>6. I \subseteq Views /\ recent \subseteq Views
  BY <1>1 DEF Views
<1>7. M \subseteq U /\ Cardinality(M) <= HistoryLimit
  <2>. HIDE DEF U, M
  <2>. QED  BY <1>4, <1>5, TruncateFacts, ConstantFacts
<1>8. IsFiniteSet(M)
  <2>. HIDE DEF U, M
  <2>. QED  BY <1>5, <1>7, FS_Subset
<1>9. \A x \in M : \E y \in Views : Same(x, y)
  <2>1. \A x \in recent : Same(x, x)
    BY DEF Same
  <2>. HIDE DEF U, M
  <2>. QED  BY <1>5, <1>6, <1>7, <2>1
<1>10. Rewritten(M)
  <2>. HIDE DEF U, M
  <2>. QED  BY <1>5, <1>7, <1>8, <1>9 DEF Rewritten, Unique
<1>11. now \in Nat /\ latch \in Nat /\ latch <= now
  BY ConstantFacts DEF HInv, TypeOK, RunsAgree
<1>12. \A p \in M : p.start \in Nat /\ p.start <= now
  <2>. HIDE DEF M
  <2>. QED  BY <1>9, <1>10, RecordFields DEF HInv, RunsAgree, Same, Rewritten
<1>. DEFINE T == {latch} \cup {p.start : p \in M}
<1>13. \E m \in T : \A u \in T : u <= m
  <2>1. T \subseteq Nat /\ T # {} /\ \A u \in T : u <= now
    BY <1>11, <1>12
  <2>. HIDE DEF T
  <2>. QED  BY <2>1, <1>11, GreatestNat
<1>14. \E t \in T : t >= latch /\ \A p \in M : t >= p.start
  <2>1. PICK m \in T : \A u \in T : u <= m
    BY <1>13
  <2>2. m \in Nat
    BY <1>11, <1>12, <2>1
  <2>3. m >= latch
    BY <1>11, <2>1, <2>2
  <2>4. ASSUME NEW p \in M PROVE m >= p.start
    <3>1. p.start \in T
      OBVIOUS
    <3>. QED  BY <1>12, <2>1, <2>2, <3>1
  <2>. QED  BY <2>1, <2>3, <2>4
<1>15. /\ updateLastObservedTimes(M) \in T
       /\ updateLastObservedTimes(M) >= latch
       /\ \A p \in M : updateLastObservedTimes(M) >= p.start
  <2>. HIDE DEF M
  <2>. QED  BY <1>14, Zenon DEF updateLastObservedTimes
<1>16. \A t \in T : t \in Nat /\ t <= now
  BY <1>11, <1>12
<1>. HIDE DEF M, T
<1>. QED  BY <1>10, <1>15, <1>16 DEF M

(* What a reconcile does to the records and the latch. *)
LEMMA ReconcileFacts ==
    ASSUME HInv, NEW r \in Replicas, Reconcile(r)
    PROVE  /\ Rewritten(recent')
           /\ latch' \in Nat /\ latch' <= now
           /\ UNCHANGED <<now, cronjob, jobs, changes, gone, seenCronJob, seenJobs>>
<1>1. Rewritten(recent) /\ latch \in Nat /\ latch <= now
  <2>1. \A x \in recent : x \in Views /\ Same(x, x)
    BY DEF Views, Same
  <2>. QED  BY <2>1 DEF HInv, TypeOK, Bounded, RunsAgree, Rewritten, Unique
<1>2. \A recs, live : dropOrphanedRunning(recs, live) \subseteq recs
  BY DEF dropOrphanedRunning
<1>3. \A live : Rewritten(dropOrphanedRunning(recent, live))
  BY <1>1, <1>2, RewrittenLess
<1>4. CASE ReconcileSuccess(r)
  <2>1. PICK M : M = Merged(r)
    OBVIOUS
  <2>2. PICK last : last = updateLastObservedTimes(M)
    OBVIOUS
  <2>3. /\ recent' = dropOrphanedRunning(Annotate(M, last), Live(r))
        /\ latch' = last
        /\ UNCHANGED <<world, seenCronJob, seenJobs>>
    BY <1>4, <2>1, <2>2, Zenon DEF ReconcileSuccess, Write
  <2>4. Rewritten(M) /\ last \in Nat /\ last <= now
    BY <2>1, <2>2, MergedFacts
  <2>5. Rewritten(Annotate(M, last))
    <3>1. /\ Annotate(M, last) \subseteq ExecutionRecord
          /\ Unique(Annotate(M, last)) /\ IsFiniteSet(Annotate(M, last))
          /\ Cardinality(Annotate(M, last)) <= Cardinality(M)
          /\ \A a \in Annotate(M, last) : \E p \in M : Same(a, p)
      BY <2>4, AnnotateFacts DEF Rewritten
    <3>2. Cardinality(Annotate(M, last)) <= HistoryLimit
      <4>1. Cardinality(Annotate(M, last)) \in Nat /\ Cardinality(M) \in Nat
        BY <2>4, <3>1, FS_CardinalityType DEF Rewritten
      <4>. QED  BY <2>4, <3>1, <4>1, ConstantFacts DEF Rewritten
    <3>3. \A a \in Annotate(M, last) : \E y \in Views : Same(a, y)
      BY <2>4, <3>1 DEF Rewritten, Same
    <3>. QED  BY <3>1, <3>2, <3>3 DEF Rewritten
  <2>6. Rewritten(recent')
    BY <1>2, <2>3, <2>5, RewrittenLess
  <2>. QED  BY <2>3, <2>4, <2>6 DEF world
<1>5. CASE ReconcileUnsatisfiable(r)
  BY <1>5, MergedFacts DEF ReconcileUnsatisfiable, Write, world
<1>6. CASE ReconcileSuspended(r) \/ ReconcileNotFound(r) \/ ReconcileInvalid(r)
  BY <1>1, <1>3, <1>6 DEF ReconcileSuspended, ReconcileNotFound, ReconcileInvalid,
     Write, world
<1>. QED  BY <1>4, <1>5, <1>6 DEF Reconcile

(* The initial state. *)
LEMMA HInvInit == Init => HInv
<1>. SUFFICES ASSUME Init PROVE HInv
  OBVIOUS
<1>1. IsFiniteSet({}) /\ Cardinality({}) = 0
  BY FS_EmptySet
<1>2. cronjob \in CronJob
  BY DEF Init, CronJob
<1>3. TypeOK
  BY <1>1, <1>2, ConstantFacts DEF Init, TypeOK, Unset
<1>4. Bounded
  BY <1>1 DEF Init, Bounded, Unique
<1>5. Views = {}
  BY DEF Init, Views, RecordsOf
<1>6. RunsAgree
  BY <1>5 DEF Init, RunsAgree, Unset
<1>. QED  BY <1>3, <1>4, <1>6 DEF HInv

(* The types of the initial world are kept. *)
LEMMA HTypeNext == HInv /\ [Next]_vars => TypeOK'
<1>. SUFFICES ASSUME HInv, [Next]_vars PROVE TypeOK'
  OBVIOUS
<1>0. TypeOK /\ now \in Nat /\ MaxTime \in Nat
  BY ConstantFacts DEF HInv, TypeOK
<1>1. ASSUME NEW r \in Replicas, Reconcile(r) PROVE TypeOK'
  <2>1. /\ Rewritten(recent') /\ latch' \in Nat
        /\ UNCHANGED <<now, cronjob, jobs, changes, gone, seenCronJob, seenJobs>>
    BY <1>1, ReconcileFacts
  <2>. QED  BY <1>0, <2>1 DEF TypeOK, Rewritten, Unique
<1>2. ASSUME NEW r \in Replicas, SyncCronJob(r) \/ SyncJobs(r) PROVE TypeOK'
  BY <1>0, <1>2 DEF SyncCronJob, SyncJobs, world, TypeOK
<1>3. CASE Tick
  BY <1>0, <1>3 DEF Tick, views, TypeOK
<1>4. CASE PublishActive
  <2>1. cronjob' \in CronJob
    BY <1>0, <1>4 DEF PublishActive, TypeOK, CronJob, Job
  <2>. QED  BY <1>0, <1>4, <2>1 DEF PublishActive, views, TypeOK
<1>5. ASSUME NEW n \in Names, CreateJob(n) PROVE TypeOK'
  <2>1. PICK t \in StartTimes \cup {Unset} :
           jobs' = jobs \cup {[name |-> n, owner |-> cronjob.uid, created |-> now,
                               start |-> t, cond |-> "None", end |-> Unset]}
    BY <1>5 DEF CreateJob
  <2>2. t \in Nat
    BY <1>0, <2>1 DEF StartTimes, Unset
  <2>3. jobs' \subseteq Job
    BY <1>0, <2>1, <2>2 DEF Job, Unset, Conditions, TypeOK, CronJob
  <2>. QED  BY <1>0, <1>5, <2>3 DEF CreateJob, views, TypeOK
<1>6. ASSUME NEW j \in jobs, StartJob(j) PROVE TypeOK'
  <2>1. PICK t \in Nat : jobs' = (jobs \ {j}) \cup {[j EXCEPT !.start = t]}
    BY <1>6 DEF StartJob, StartTimes
  <2>2. j \in Job /\ [j EXCEPT !.start = t] \in Job
    BY <1>0 DEF Job, TypeOK
  <2>. QED  BY <1>0, <1>6, <2>1, <2>2 DEF StartJob, views, TypeOK
<1>7. ASSUME NEW j \in jobs, FinishJob(j) PROVE TypeOK'
  <2>1. PICK c \in Endings :
          jobs' = (jobs \ {j}) \cup
                {[j EXCEPT !.cond = c,
                           !.end = IF c \in {"SuccessCriteriaMet", "Undated"}
                                   THEN Unset ELSE now]}
    BY <1>7 DEF FinishJob
  <2>2. PICK e \in Nat : e = IF c \in {"SuccessCriteriaMet", "Undated"}
                           THEN Unset ELSE now
    BY <1>0 DEF Unset
  <2>3. c \in Conditions /\ j \in Job /\ jobs \subseteq Job
    BY <1>0, JobsAssumption DEF Conditions, TypeOK
  <2>4. [j EXCEPT !.cond = c, !.end = e] \in Job
    BY <2>2, <2>3 DEF Job
  <2>5. jobs' \subseteq Job
    BY <2>1, <2>2, <2>3, <2>4
  <2>. QED  BY <1>0, <1>7, <2>5 DEF FinishJob, views, TypeOK
<1>8. ASSUME NEW j \in jobs, DeleteJob(j) PROVE TypeOK'
  <2>1. j.name \in Names /\ now \in 0..MaxTime
    BY <1>0 DEF TypeOK, Job
  <2>2. gone' \in [Names -> 0..MaxTime] /\ jobs' \subseteq Job
    BY <1>0, <1>8, <2>1 DEF DeleteJob, TypeOK
  <2>. QED  BY <1>0, <1>8, <2>2 DEF DeleteJob, views, TypeOK
<1>9. ASSUME NEW v \in Verdicts, ChangeCronJob(v) PROVE TypeOK'
  <2>0. \/ cronjob' = [cronjob EXCEPT !.verdict = v, !.active = {}]
        \/ cronjob' = [verdict |-> v, uid |-> cronjob.uid + 1, active |-> {}]
        \/ cronjob' = [cronjob EXCEPT !.verdict = v]
    BY <1>9 DEF ChangeCronJob
  <2>1. cronjob' \in CronJob
    <3>1. cronjob \in CronJob /\ cronjob.uid + 1 \in Nat /\ {} \in SUBSET Names
      BY <1>0 DEF TypeOK, CronJob
    <3>2. CASE cronjob' = [cronjob EXCEPT !.verdict = v, !.active = {}]
      BY <3>1, <3>2 DEF CronJob
    <3>3. CASE cronjob' = [verdict |-> v, uid |-> cronjob.uid + 1, active |-> {}]
      BY <3>1, <3>3 DEF CronJob
    <3>4. CASE cronjob' = [cronjob EXCEPT !.verdict = v]
      BY <3>1, <3>4 DEF CronJob
    <3>. QED  BY <2>0, <3>2, <3>3, <3>4
  <2>2. gone' \in [Names -> 0..MaxTime] /\ jobs' \subseteq Job
        /\ changes' \in 0..MaxChanges
    BY <1>0, <1>9, ConstantFacts DEF ChangeCronJob, TypeOK
  <2>. QED  BY <1>0, <1>9, <2>1, <2>2 DEF ChangeCronJob, views, TypeOK
<1>10. CASE UNCHANGED vars
  BY <1>0, <1>10 DEF vars, TypeOK
<1>. QED
  BY <1>1, <1>2, <1>3, <1>4, <1>5, <1>6, <1>7, <1>8, <1>9, <1>10 DEF Next

(* The agreement of views survives when the views stay of the same runs.   *)
LEMMA AgreeCarry ==
    ASSUME HInv, TypeOK', latch' <= now', now <= now', UNCHANGED <<jobs, gone>>,
           \A x \in Views' : \E y \in Views : Same(x, y)
    PROVE  RunsAgree'
<1>1. now \in Nat /\ now' \in Nat /\ Views \subseteq ExecutionRecord
  BY ConstantFacts, ViewsType DEF HInv, TypeOK
<1>2. \A x \in Views : x.start \in Nat /\ x.born \in Nat
  BY <1>1, RecordFields
<1>3. \A x \in Views' : /\ 1 <= x.start /\ x.start <= now'
                       /\ 1 <= x.born /\ x.born <= now'
                       /\ x.born <= x.start + Skew
  BY <1>1, <1>2 DEF HInv, RunsAgree, Same
<1>4. \A x \in Views', j \in jobs : x.name = j.name => JobFits(x, j)
  BY DEF HInv, RunsAgree, Same, JobFits
<1>5. \A x \in Views' :
          \/ x.start <= gone[x.name] /\ x.born <= gone[x.name]
          \/ \E j \in jobs : j.name = x.name
  BY DEF HInv, RunsAgree, Same
<1>6. \A x, y \in Views' : x.name = y.name => PairFits(x, y)
  BY DEF HInv, RunsAgree, Same, PairFits
<1>. QED  BY <1>3, <1>4, <1>5, <1>6 DEF RunsAgree

(* A Job that changes in place: it starts while it has no outcome, or its  *)
(* outcome is decided.                                                     *)
LEMMA AgreeReplace ==
    ASSUME HInv, UNCHANGED <<now, latch, gone>>, NEW j \in jobs, NEW k \in Job,
           k.name = j.name, k.created = j.created, jobs' = (jobs \ {j}) \cup {k},
           \A x \in Views' : x \in Views \/ x = jobToRecord(k),
           1 <= jobToRecord(k).start, jobToRecord(k).start <= now,
           k.created <= jobToRecord(k).start + Skew,
           \/ /\ jobToRecord(k).start = jobToRecord(j).start
              /\ isTerminal(jobOutcome(j)) => jobOutcome(k) = jobOutcome(j)
           \/ /\ jobToRecord(j).start = j.created
              /\ ~isTerminal(jobOutcome(j)) /\ ~isTerminal(jobOutcome(k))
    PROVE  RunsAgree'
<1>1. PICK x0 \in ExecutionRecord :
         /\ x0 = jobToRecord(j) /\ x0.name = j.name /\ x0.phase = jobOutcome(j)
         /\ x0.start \in Nat /\ x0 \in Views /\ x0.born = j.created
  BY RecordOf, RecordFields DEF HInv, TypeOK, Views, RecordsOf
<1>2. PICK y0 \in ExecutionRecord :
         /\ y0 = jobToRecord(k) /\ y0.name = j.name /\ y0.phase = jobOutcome(k)
         /\ y0.start \in Nat /\ y0.born = j.created /\ y0.born \in Nat
  BY RecordOf, RecordFields
<1>3. /\ \A x \in Views : x.start \in Nat /\ x.born \in Nat
      /\ \A l \in jobs : l.name = j.name => l = j
  <2>1. Views \subseteq ExecutionRecord
    BY ViewsType DEF HInv
  <2>. QED  BY <2>1, RecordFields DEF HInv, Bounded, Unique
<1>4. \A x \in Views' : /\ 1 <= x.start /\ x.start <= now
                       /\ 1 <= x.born /\ x.born <= now
                       /\ x.born <= x.start + Skew
  <2>1. 1 <= x0.born /\ x0.born <= now
    BY <1>1 DEF HInv, RunsAgree
  <2>. QED  BY <1>1, <1>2, <2>1 DEF HInv, RunsAgree
<1>5. ASSUME NEW x \in Views, x.name = k.name PROVE JobFits(x, k)
  <2>1. JobFits(x, j)
    BY <1>5 DEF HInv, RunsAgree
  <2>. QED  BY <1>1, <2>1 DEF JobFits
<1>6. JobFits(y0, k)
  BY <1>2 DEF JobFits
<1>7. ASSUME NEW x \in Views', NEW l \in jobs', x.name = l.name PROVE JobFits(x, l)
  <2>1. CASE l = k
    BY <1>2, <1>5, <1>6, <1>7, <2>1
  <2>2. CASE l \in jobs /\ l # j
    <3>1. x \in Views
      BY <1>2, <1>3, <1>7, <2>2
    <3>. QED  BY <1>7, <2>2, <3>1 DEF HInv, RunsAgree
  <2>. QED  BY <2>1, <2>2
<1>8. ASSUME NEW x \in Views'
      PROVE  \/ x.start <= gone[x.name] /\ x.born <= gone[x.name]
             \/ \E l \in jobs' : l.name = x.name
  <2>1. CASE x = y0
    BY <1>2, <2>1
  <2>2. CASE x \in Views
    BY <2>2 DEF HInv, RunsAgree
  <2>. QED  BY <1>2, <2>1, <2>2
<1>9. ASSUME NEW x \in Views, x.name = y0.name
      PROVE  PairFits(x, y0) /\ PairFits(y0, x)
  <2>1. JobFits(x, k) /\ PairFits(x, x0)
    BY <1>1, <1>2, <1>5, <1>9 DEF HInv, RunsAgree
  <2>2. x.born \in Nat /\ x.start \in Nat
    BY <1>3
  <2>3. PairFits(x, y0)
    BY <1>1, <1>2, <2>1, <2>2 DEF PairFits, JobFits
  <2>4. PairFits(y0, x)
    BY <1>1, <1>2, <2>1, <2>2 DEF PairFits, JobFits
  <2>. QED  BY <2>3, <2>4
<1>10. PairFits(y0, y0)
  BY <1>2 DEF PairFits
<1>11. \A x, y \in Views' : x.name = y.name => PairFits(x, y)
  BY <1>2, <1>9, <1>10 DEF HInv, RunsAgree
<1>12. latch' <= now'
  BY DEF HInv, RunsAgree
<1>. QED  BY <1>4, <1>7, <1>8, <1>11, <1>12 DEF RunsAgree

(* A new Job, and what is known of it. *)
LEMMA NewJob ==
    ASSUME HInv, NEW n \in Names, CreateJob(n)
    PROVE  \E k \in Job :
              /\ jobs' = jobs \cup {k} /\ k.name = n /\ k.created = now
              /\ jobOutcome(k) = "Running"
              /\ 1 <= jobToRecord(k).start /\ jobToRecord(k).start <= now
              /\ now <= jobToRecord(k).start + Skew
              /\ UNCHANGED <<now, gone, recent, seenJobs, latch>>
              /\ \A l \in jobs : l.name # n
              /\ \A x \in Views' : x \in Views \/ x = jobToRecord(k)
<1>1. PICK t \in StartTimes \cup {Unset} :
         jobs' = jobs \cup {[name |-> n, owner |-> cronjob.uid, created |-> now,
                             start |-> t, cond |-> "None", end |-> Unset]}
  BY DEF CreateJob
<1>2. PICK k : k = [name |-> n, owner |-> cronjob.uid, created |-> now,
                    start |-> t, cond |-> "None", end |-> Unset]
  OBVIOUS
<1>3. now \in Nat /\ now >= 1 /\ cronjob.uid \in Nat /\ Skew \in Nat
  BY ConstantFacts DEF HInv, TypeOK, CronJob
<1>4. /\ t \in Nat
      /\ t # Unset => 1 <= t /\ t <= now /\ now <= t + Skew
  BY <1>1, <1>3 DEF StartTimes, Unset
<1>5. /\ k \in Job /\ k.name = n /\ k.created = now /\ k.start = t
      /\ jobOutcome(k) = "Running"
  <2>1. k \in Job
    BY <1>2, <1>3, <1>4 DEF Job, Unset, Conditions
  <2>. QED  BY <1>2, <2>1 DEF jobOutcome
<1>6. /\ 1 <= jobToRecord(k).start /\ jobToRecord(k).start <= now
      /\ now <= jobToRecord(k).start + Skew
  BY <1>3, <1>4, <1>5, RecordOf
<1>7. /\ jobs' = jobs \cup {k} /\ UNCHANGED <<now, gone, recent, seenJobs, latch>>
      /\ \A l \in jobs : l.name # n
  BY <1>1, <1>2 DEF CreateJob, views
<1>8. \A x \in Views' : x \in Views \/ x = jobToRecord(k)
  BY <1>7 DEF Views, RecordsOf
<1>. QED  BY <1>5, <1>6, <1>7, <1>8

(* A new Job, of a name whose last run is over. *)
LEMMA HCreate ==
    ASSUME HInv, NEW n \in Names, CreateJob(n) PROVE Bounded' /\ RunsAgree'
<1>1. PICK k \in Job :
         /\ jobs' = jobs \cup {k} /\ k.name = n /\ k.created = now
         /\ jobOutcome(k) = "Running"
         /\ 1 <= jobToRecord(k).start /\ jobToRecord(k).start <= now
         /\ now <= jobToRecord(k).start + Skew
         /\ UNCHANGED <<now, gone, recent, seenJobs, latch>>
         /\ \A l \in jobs : l.name # n
         /\ \A x \in Views' : x \in Views \/ x = jobToRecord(k)
  BY NewJob
<1>2. /\ now \in Nat /\ now >= 1 /\ gone[n] \in Nat
      /\ gone[n] = 0 \/ now > gone[n]
  BY ConstantFacts DEF CreateJob, HInv, TypeOK
<1>3. PICK x0 : /\ x0 = jobToRecord(k) /\ x0.name = n /\ x0.born = now
                /\ ~isTerminal(x0.phase) /\ x0.phase = jobOutcome(k)
                /\ x0.start \in Nat
  BY <1>1, RecordOf, RecordFields DEF isTerminal
<1>4. \A x \in Views : x.start \in Nat /\ x.born \in Nat
  BY ViewsType, RecordFields DEF HInv
<1>5. \A x \in Views : x.name # n \/ (x.start < now /\ x.born < now)
  BY <1>1, <1>2, <1>4 DEF HInv, RunsAgree
<1>6. Bounded'
  <2>1. IsFiniteSet(jobs')
    BY <1>1, FS_AddElement DEF HInv, Bounded
  <2>. QED  BY <1>1, <2>1 DEF HInv, Bounded, Unique
<1>7. RunsAgree'
  <2>1. \A x \in Views' : /\ 1 <= x.start /\ x.start <= now
                         /\ 1 <= x.born /\ x.born <= now
                         /\ x.born <= x.start + Skew
    BY <1>1, <1>2, <1>3 DEF HInv, RunsAgree
  <2>2. ASSUME NEW x \in Views', NEW l \in jobs', x.name = l.name
        PROVE  JobFits(x, l)
    <3>1. CASE l = k /\ x = x0
      BY <1>1, <1>2, <1>3, <3>1 DEF JobFits
    <3>2. CASE l = k /\ x \in Views
      BY <1>1, <1>2, <1>4, <1>5, <2>2, <3>2 DEF JobFits
    <3>3. CASE l \in jobs
      BY <1>1, <1>3, <2>2, <3>3 DEF HInv, RunsAgree
    <3>. QED  BY <1>1, <1>3, <3>1, <3>2, <3>3
  <2>3. \A x \in Views' : \/ x.start <= gone[x.name] /\ x.born <= gone[x.name]
                         \/ \E l \in jobs' : l.name = x.name
    BY <1>1, <1>3 DEF HInv, RunsAgree
  <2>4. ASSUME NEW x \in Views', NEW y \in Views', x.name = y.name
        PROVE  PairFits(x, y)
    <3>1. CASE x \in Views /\ y \in Views
      BY <2>4, <3>1 DEF HInv, RunsAgree
    <3>2. CASE x = x0 /\ y = x0
      BY <1>2, <1>3, <3>2 DEF PairFits
    <3>3. CASE x \in Views /\ y = x0
      BY <1>2, <1>3, <1>4, <1>5, <2>4, <3>3 DEF PairFits
    <3>4. CASE x = x0 /\ y \in Views
      BY <1>2, <1>3, <1>4, <1>5, <2>4, <3>4 DEF PairFits
    <3>. QED  BY <1>1, <1>3, <3>1, <3>2, <3>3, <3>4
  <2>5. latch' <= now'
    BY <1>1 DEF HInv, RunsAgree
  <2>. QED  BY <1>1, <2>1, <2>2, <2>3, <2>4, <2>5 DEF RunsAgree
<1>. QED  BY <1>6, <1>7

(* Replacing a Job by another of the same name keeps sets bounded. *)
LEMMA HReplace ==
    ASSUME HInv, UNCHANGED <<recent, seenJobs>>, NEW j \in jobs, NEW k,
           k.name = j.name, jobs' = (jobs \ {j}) \cup {k}
    PROVE  /\ Bounded'
           /\ \A x \in Views' : x \in Views \/ x = jobToRecord(k)
<1>1. IsFiniteSet(jobs \ {j})
  BY FS_RemoveElement DEF HInv, Bounded
<1>2. IsFiniteSet(jobs')
  BY <1>1, FS_AddElement
<1>3. Unique(jobs')
  BY DEF HInv, Bounded, Unique
<1>. QED  BY <1>2, <1>3 DEF HInv, Bounded, Views, RecordsOf

(* A Job starts, or its outcome is decided. *)
LEMMA ChangedJob ==
    ASSUME HInv, NEW j \in jobs, StartJob(j) \/ FinishJob(j)
    PROVE  \E k \in Job :
              /\ jobs' = (jobs \ {j}) \cup {k}
              /\ k.name = j.name /\ k.created = j.created
              /\ UNCHANGED <<now, gone, recent, seenJobs, latch>>
              /\ \/ /\ j.start = Unset /\ k.start \in StartTimes
                    /\ jobOutcome(j) = "Running" /\ jobOutcome(k) = "Running"
                 \/ /\ k.start = j.start /\ isTerminal(jobOutcome(k))
                    /\ isTerminal(jobOutcome(j)) => jobOutcome(k) = jobOutcome(j)
<1>0. /\ now \in Nat /\ j \in Job
      /\ UNCHANGED <<now, gone, recent, seenJobs, latch>>
  <2>1. now \in Nat /\ j \in Job
    BY ConstantFacts DEF HInv, TypeOK
  <2>2. UNCHANGED <<now, gone, recent, seenJobs, latch>>
    BY DEF StartJob, FinishJob, views
  <2>. QED  BY <2>1, <2>2
<1>1. CASE StartJob(j)
  <2>1. PICK t \in StartTimes : jobs' = (jobs \ {j}) \cup {[j EXCEPT !.start = t]}
    BY <1>1 DEF StartJob
  <2>2. PICK k : k = [j EXCEPT !.start = t]
    OBVIOUS
  <2>3. t \in Nat
    BY <2>1 DEF StartTimes
  <2>4. /\ k \in Job /\ k.name = j.name /\ k.cond = j.cond /\ k.start = t
        /\ k.created = j.created
    BY <1>0, <2>2, <2>3 DEF Job
  <2>5. j.cond = "None" /\ j.start = Unset
    BY <1>1 DEF StartJob
  <2>6. jobOutcome(j) = "Running" /\ jobOutcome(k) = "Running"
    BY <2>4, <2>5 DEF jobOutcome
  <2>. QED  BY <1>0, <2>1, <2>2, <2>4, <2>5, <2>6
<1>2. CASE FinishJob(j)
  <2>1. PICK c \in Endings :
          /\ j.cond = "None" \/ (j.cond = "SuccessCriteriaMet" /\ c = "Complete")
          /\ jobs' = (jobs \ {j}) \cup
                {[j EXCEPT !.cond = c,
                           !.end = IF c \in {"SuccessCriteriaMet", "Undated"}
                                   THEN Unset ELSE now]}
    BY <1>2 DEF FinishJob
  <2>2. PICK e \in Nat : e = IF c \in {"SuccessCriteriaMet", "Undated"}
                           THEN Unset ELSE now
    BY <1>0 DEF Unset
  <2>3. PICK k : k = [j EXCEPT !.cond = c, !.end = e]
    OBVIOUS
  <2>4. c \in {"SuccessCriteriaMet", "Complete", "Failed", "Undated"}
    BY JobsAssumption
  <2>5. /\ k \in Job /\ k.name = j.name /\ k.start = j.start
        /\ k.created = j.created /\ k.cond = c
    BY <1>0, <2>3, <2>4 DEF Job, Conditions
  <2>6. jobs' = (jobs \ {j}) \cup {k}
    BY <2>1, <2>2, <2>3
  <2>7. isTerminal(jobOutcome(k))
    BY <2>4, <2>5 DEF jobOutcome, isTerminal
  <2>8. isTerminal(jobOutcome(j)) => jobOutcome(k) = jobOutcome(j)
    BY <2>1, <2>5 DEF jobOutcome, isTerminal
  <2>. QED  BY <1>0, <2>5, <2>6, <2>7, <2>8
<1>. QED  BY <1>1, <1>2

(* The change of a Job keeps the views in agreement. *)
LEMMA HChange ==
    ASSUME HInv, NEW j \in jobs, StartJob(j) \/ FinishJob(j)
    PROVE  Bounded' /\ RunsAgree'
<1>1. PICK k \in Job :
         /\ jobs' = (jobs \ {j}) \cup {k}
         /\ k.name = j.name /\ k.created = j.created
         /\ UNCHANGED <<now, gone, recent, seenJobs, latch>>
         /\ \/ /\ j.start = Unset /\ k.start \in StartTimes
               /\ jobOutcome(j) = "Running" /\ jobOutcome(k) = "Running"
            \/ /\ k.start = j.start /\ isTerminal(jobOutcome(k))
               /\ isTerminal(jobOutcome(j)) => jobOutcome(k) = jobOutcome(j)
  BY ChangedJob
<1>2. j \in Job /\ now \in Nat /\ now >= 1 /\ Skew \in Nat
  BY ConstantFacts DEF HInv, TypeOK
<1>3. /\ jobToRecord(j).start = (IF j.start = Unset THEN j.created ELSE j.start)
      /\ jobToRecord(k).start = (IF k.start = Unset THEN k.created ELSE k.start)
      /\ j.start \in Nat /\ k.start \in Nat /\ j.created \in Nat
  BY <1>2, RecordOf
<1>4. /\ 1 <= jobToRecord(j).start /\ jobToRecord(j).start <= now
      /\ j.created <= now /\ j.created <= jobToRecord(j).start + Skew
  <2>1. jobToRecord(j) \in Views /\ jobToRecord(j).born = j.created
    BY <1>2, RecordOf DEF Views, RecordsOf
  <2>. QED  BY <2>1 DEF HInv, RunsAgree
<1>5. Bounded' /\ \A x \in Views' : x \in Views \/ x = jobToRecord(k)
  BY <1>1, HReplace
<1>6. CASE /\ j.start = Unset /\ k.start \in StartTimes
           /\ jobOutcome(j) = "Running" /\ jobOutcome(k) = "Running"
  <2>1. 1 <= k.start /\ k.start <= now /\ now <= k.start + Skew
    BY <1>2, <1>3, <1>6 DEF StartTimes
  <2>2. /\ 1 <= jobToRecord(k).start /\ jobToRecord(k).start <= now
        /\ k.created <= jobToRecord(k).start + Skew
        /\ jobToRecord(j).start = j.created
        /\ ~isTerminal(jobOutcome(j)) /\ ~isTerminal(jobOutcome(k))
    BY <1>1, <1>2, <1>3, <1>4, <1>6, <2>1 DEF Unset, isTerminal
  <2>. QED  BY <1>1, <1>5, <2>2, AgreeReplace
<1>7. CASE /\ k.start = j.start
           /\ isTerminal(jobOutcome(j)) => jobOutcome(k) = jobOutcome(j)
  <2>1. /\ jobToRecord(k).start = jobToRecord(j).start
        /\ 1 <= jobToRecord(k).start /\ jobToRecord(k).start <= now
        /\ k.created <= jobToRecord(k).start + Skew
    BY <1>1, <1>3, <1>4, <1>7
  <2>. QED  BY <1>1, <1>5, <1>7, <2>1, AgreeReplace
<1>. QED  BY <1>1, <1>6, <1>7

(* Jobs are deleted, alone or with their CronJob. *)
LEMMA HDelete ==
    ASSUME HInv, UNCHANGED <<now, recent, seenJobs, latch>>, jobs' \subseteq jobs,
           \A n \in Names : gone'[n] = IF \E j \in jobs \ jobs' : j.name = n
                                      THEN now ELSE gone[n]
    PROVE  Bounded' /\ RunsAgree'
<1>1. Bounded'
  <2>1. IsFiniteSet(jobs')
    BY FS_Subset DEF HInv, Bounded
  <2>. QED  BY <2>1 DEF HInv, Bounded, Unique
<1>2. \A x \in Views' : x \in Views
  BY DEF Views, RecordsOf
<1>3. \A x \in Views : x.start <= now /\ x.born <= now /\ x.name \in Names
  BY ViewsType, RecordFields DEF HInv, RunsAgree
<1>4. ASSUME NEW x \in Views'
      PROVE  \/ x.start <= gone'[x.name] /\ x.born <= gone'[x.name]
             \/ \E j \in jobs' : j.name = x.name
  BY <1>2, <1>3 DEF HInv, RunsAgree
<1>5. RunsAgree'
  BY <1>2, <1>4 DEF HInv, RunsAgree
<1>. QED  BY <1>1, <1>5

(* Types, bounds and agreement are inductive. *)
LEMMA HInvNext == HInv /\ [Next]_vars => HInv'
<1>. SUFFICES ASSUME HInv, [Next]_vars PROVE HInv'
  OBVIOUS
<1>0. TypeOK' /\ TypeOK /\ now \in Nat /\ latch <= now
  BY HTypeNext, ConstantFacts DEF HInv, TypeOK, RunsAgree
<1>. SUFFICES Bounded' /\ RunsAgree'
  BY <1>0 DEF HInv
<1>1. \A x \in Views : Same(x, x)
  BY DEF Same
<1>2. ASSUME NEW r \in Replicas, Reconcile(r) PROVE Bounded' /\ RunsAgree'
  <2>1. /\ Rewritten(recent') /\ latch' <= now
        /\ UNCHANGED <<now, jobs, gone, seenJobs>>
    BY <1>2, ReconcileFacts
  <2>2. Bounded'
    BY <2>1 DEF Rewritten, HInv, Bounded
  <2>3. \A x \in Views' : x \in recent' \/ x \in Views
    BY <2>1 DEF Views, RecordsOf
  <2>4. \A x \in Views' : \E y \in Views : Same(x, y)
    BY <1>1, <2>1, <2>3 DEF Rewritten
  <2>. QED  BY <1>0, <2>1, <2>2, <2>4, AgreeCarry
<1>3. ASSUME NEW r \in Replicas, SyncCronJob(r) \/ SyncJobs(r)
      PROVE  Bounded' /\ RunsAgree'
  <2>1. /\ UNCHANGED <<now, jobs, gone, recent, latch>>
        /\ \A p \in Replicas : seenJobs'[p] = seenJobs[p] \/ seenJobs'[p] = jobs
    BY <1>0, <1>3 DEF SyncCronJob, SyncJobs, world, TypeOK
  <2>2. Bounded'
    BY <2>1 DEF HInv, Bounded, Unique
  <2>3. \A x \in Views' : x \in Views
    BY <2>1 DEF Views, RecordsOf
  <2>. QED  BY <1>0, <1>1, <2>1, <2>2, <2>3, AgreeCarry
<1>4. CASE Tick \/ PublishActive \/ UNCHANGED vars
  <2>1. /\ UNCHANGED <<jobs, gone, recent, seenJobs, latch>>
        /\ now <= now' /\ latch <= now'
    <3>1. CASE Tick
      <4>1. UNCHANGED <<jobs, gone, recent, seenJobs, latch>> /\ now' = now + 1
        BY <3>1 DEF Tick, views
      <4>2. latch \in Nat
        BY <1>0 DEF TypeOK
      <4>. QED  BY <1>0, <4>1, <4>2
    <3>2. CASE PublishActive
      BY <1>0, <3>2 DEF PublishActive, views
    <3>3. CASE UNCHANGED vars
      BY <1>0, <3>3 DEF vars
    <3>. QED  BY <1>4, <3>1, <3>2, <3>3
  <2>2. Bounded'
    BY <2>1 DEF HInv, Bounded
  <2>3. \A x \in Views' : x \in Views
    BY <2>1 DEF Views, RecordsOf
  <2>. QED  BY <1>0, <1>1, <2>1, <2>2, <2>3, AgreeCarry
<1>5. ASSUME NEW n \in Names, CreateJob(n) PROVE Bounded' /\ RunsAgree'
  BY <1>5, HCreate
<1>6. ASSUME NEW j \in jobs, StartJob(j) \/ FinishJob(j) PROVE Bounded' /\ RunsAgree'
  BY <1>6, HChange
<1>7. ASSUME NEW j \in jobs, DeleteJob(j) PROVE Bounded' /\ RunsAgree'
  <2>1. /\ jobs' = jobs \ {j} /\ gone' = [gone EXCEPT ![j.name] = now]
        /\ UNCHANGED <<now, recent, seenJobs, latch>>
    BY <1>7 DEF DeleteJob, views
  <2>2. \A n \in Names : gone'[n] = IF \E k \in jobs \ jobs' : k.name = n
                                  THEN now ELSE gone[n]
    BY <1>0, <2>1 DEF TypeOK
  <2>. QED  BY <2>1, <2>2, HDelete
<1>8. ASSUME NEW v \in Verdicts, ChangeCronJob(v) PROVE Bounded' /\ RunsAgree'
  <2>1. /\ jobs' = IF v = "CronJobNotFound" THEN {} ELSE jobs
        /\ gone' = [n \in Names |->
                      IF v = "CronJobNotFound" /\ \E j \in jobs : j.name = n
                      THEN now ELSE gone[n]]
        /\ UNCHANGED <<now, recent, seenJobs, latch>>
    BY <1>8 DEF ChangeCronJob, views
  <2>2. \A n \in Names : gone'[n] = IF \E k \in jobs \ jobs' : k.name = n
                                  THEN now ELSE gone[n]
    BY <2>1
  <2>3. jobs' \subseteq jobs
    BY <2>1
  <2>. QED  BY <2>1, <2>2, <2>3, HDelete
<1>. QED  BY <1>2, <1>3, <1>4, <1>5, <1>6, <1>7, <1>8 DEF Next

(* The inductive invariant holds of every behaviour. *)
THEOREM Invariant == Spec => []HInv
BY HInvInit, HInvNext, PTL DEF Spec

(* The history never grows past HistoryLimit and holds one record a name;  *)
(* Jobs, informers and records keep their types.                           *)
THEOREM TypeCorrect == Spec => []TypeOK
<1>1. HInv => TypeOK
  BY DEF HInv
<1>. QED  BY <1>1, Invariant, PTL

-----------------------------------------------------------------------------
(* Finished runs stay on record.                                           *)

(* q is the record of p's Job, or of a later one of the name. *)
Follows(p, q) ==
    /\ q.name = p.name
    /\ q.start >= p.start
    /\ \/ q.born > p.born
       \/ q = [p EXCEPT !.end = q.end, !.expected = q.expected]

(* What replaces the record of a finished run that started after its Job   *)
(* was created.                                                            *)
LEMMA ReplacedTerminal ==
    ASSUME HInv, NEW p \in recent, isTerminal(p.phase), StartedAfterCreation(p),
           NEW q \in Views, q.name = p.name, shouldReplace(p, q),
           NEW x, x = [q EXCEPT !.expected = p.expected]
    PROVE  Follows(p, x) /\ x \in ExecutionRecord /\ x.name = q.name
<1>1. p \in ExecutionRecord /\ q \in ExecutionRecord /\ p \in Views
  BY ViewsType DEF HInv, TypeOK, Views
<1>2. /\ x \in ExecutionRecord /\ x.name = q.name /\ x.start = q.start
      /\ x.phase = q.phase /\ x.end = q.end /\ x.expected = p.expected
      /\ x.born = q.born
  BY <1>1 DEF ExecutionRecord
<1>3. /\ p.start \in Nat /\ q.start \in Nat /\ p.born \in Nat /\ q.born \in Nat
      /\ p.start >= p.born
  BY <1>1, RecordFields DEF StartedAfterCreation
<1>4. /\ q.start >= p.start
      /\ ~isTerminal(q.phase) => q.start > p.start
  <2>1. CASE isTerminal(q.phase)
    BY <1>3, <2>1 DEF shouldReplace
  <2>2. CASE ~isTerminal(q.phase)
    BY <1>3, <2>2 DEF shouldReplace, isTerminal
  <2>. QED  BY <2>1, <2>2
<1>5. PairFits(p, q) /\ PairFits(q, p)
  BY <1>1 DEF HInv, RunsAgree
<1>6. ~(q.born < p.born)
  BY <1>3, <1>4, <1>5 DEF PairFits
<1>7. CASE q.born > p.born
  BY <1>2, <1>4, <1>7 DEF Follows
<1>8. CASE q.born = p.born
  <2>1. isTerminal(q.phase)
    BY <1>3, <1>4, <1>5, <1>8 DEF PairFits
  <2>2. q.phase = p.phase /\ q.start = p.start
    BY <1>5, <1>8, <2>1 DEF PairFits
  <2>3. x = [p EXCEPT !.end = x.end, !.expected = x.expected]
    BY <1>1, <1>2, <1>8, <2>2 DEF ExecutionRecord
  <2>. QED  BY <1>2, <1>4, <2>3 DEF Follows
<1>. QED  BY <1>2, <1>3, <1>6, <1>7, <1>8

(* Finished runs that started after their Jobs were created. *)
Settled(recs) == {p \in Terminal(recs) : StartedAfterCreation(p)}

(* What a merge takes from where, and what becomes of a finished run: its  *)
(* record, or the one of a later Job that replaces it, is kept or older    *)
(* than HistoryLimit others.                                               *)
LEMMA MergedTrace ==
    ASSUME HInv, NEW r \in Replicas
    PROVE  /\ \A x \in Merged(r) : x \in recent \/ x.name \in Live(r)
           /\ \A p \in Settled(recent) : \E q \in ExecutionRecord :
                 /\ Follows(p, q) /\ \E y \in Views : Same(q, y)
                 /\ isTerminal(q.phase) \/ q.name \in Live(r)
                 /\ \/ q \in Merged(r)
                    \/ \E X \in SUBSET Merged(r) :
                          /\ Cardinality(X) >= HistoryLimit
                          /\ \A x \in X : Newer(x, q)
<1>1. PICK I : /\ I \subseteq ExecutionRecord /\ IsFiniteSet(I) /\ Unique(I)
               /\ I \subseteq Views
               /\ \A q \in I : q.expected = Unset /\ q.name \in Live(r)
               /\ recent \subseteq ExecutionRecord
               /\ IsFiniteSet(recent) /\ Unique(recent)
               /\ Merged(r) = Truncate(Union(recent, I), HistoryLimit)
  BY MergedParts
<1>2. PICK U : U = Union(recent, I)
  OBVIOUS
<1>3. /\ U \subseteq ExecutionRecord /\ Unique(U) /\ IsFiniteSet(U)
      /\ \A x \in U : x \in recent \/ \E q \in I : Same(x, q)
      /\ \A p \in recent :
            \/ p \in U
            \/ \E q \in I : /\ q.name = p.name /\ shouldReplace(p, q)
                           /\ [q EXCEPT !.expected = p.expected] \in U
  BY <1>1, <1>2, UnionFacts
<1>4. PICK M : M = Truncate(U, HistoryLimit) /\ M = Merged(r)
  BY <1>1, <1>2
<1>5. /\ M \subseteq U
      /\ \A p \in U \ M : \E X \in SUBSET M :
            Cardinality(X) >= HistoryLimit /\ \A x \in X : Newer(x, p)
  <2>1. HistoryLimit \in Nat
    BY ConstantFacts
  <2>2. /\ Truncate(U, HistoryLimit) \subseteq U
        /\ \A p \in U \ Truncate(U, HistoryLimit) :
              \E X \in SUBSET Truncate(U, HistoryLimit) :
                 Cardinality(X) >= HistoryLimit /\ \A x \in X : Newer(x, p)
    BY <1>3, <2>1, TruncateFacts
  <2>. QED  BY <1>4, <2>2
<1>6. \A x \in M : x \in recent \/ x.name \in Live(r)
  BY <1>1, <1>3, <1>5 DEF Same
<1>7. ASSUME NEW p \in Settled(recent)
      PROVE  \E q \in U : Follows(p, q) /\ (isTerminal(q.phase) \/ q.name \in Live(r))
  <2>1. /\ p \in recent /\ isTerminal(p.phase) /\ p \in ExecutionRecord
        /\ StartedAfterCreation(p)
    BY <1>1 DEF Terminal, Settled
  <2>2. CASE p \in U
    <3>1. p = [p EXCEPT !.end = p.end, !.expected = p.expected]
      BY <2>1 DEF ExecutionRecord
    <3>2. p.start >= p.start
      BY <2>1, RecordFields
    <3>. QED  BY <2>1, <2>2, <3>1, <3>2 DEF Follows
  <2>3. CASE p \notin U
    <3>1. PICK q \in I : /\ q.name = p.name /\ shouldReplace(p, q)
                         /\ [q EXCEPT !.expected = p.expected] \in U
      BY <1>3, <2>1, <2>3
    <3>2. PICK x : x = [q EXCEPT !.expected = p.expected]
      OBVIOUS
    <3>3. Follows(p, x) /\ x.name = q.name
      BY <1>1, <2>1, <3>1, <3>2, ReplacedTerminal
    <3>. QED  BY <1>1, <3>1, <3>2, <3>3
  <2>. QED  BY <2>2, <2>3
<1>8. ASSUME NEW p \in Settled(recent)
      PROVE  \E q \in ExecutionRecord :
                 /\ Follows(p, q) /\ \E y \in Views : Same(q, y)
                 /\ isTerminal(q.phase) \/ q.name \in Live(r)
                 /\ \/ q \in M
                    \/ \E X \in SUBSET M :
                          /\ Cardinality(X) >= HistoryLimit
                          /\ \A x \in X : Newer(x, q)
  <2>1. \A q \in U : \E y \in Views : Same(q, y)
    BY <1>1, <1>3 DEF Same, Views
  <2>. QED  BY <1>3, <1>5, <1>7, <2>1
<1>. QED  BY <1>4, <1>6, <1>8

(* Records of different names are no more than the names they share. *)
LEMMA NamesCount ==
    ASSUME NEW X, Unique(X), NEW S, IsFiniteSet(S),
           \A x \in X : \E s \in S : s.name = x.name
    PROVE  /\ IsFiniteSet(X) /\ IsFiniteSet({s.name : s \in S})
           /\ Cardinality(X) <= Cardinality({s.name : s \in S})
           /\ Cardinality(X) <= Cardinality(S)
<1>. DEFINE N == {s.name : s \in S}
            f == [s \in S |-> s.name]
            g == [x \in X |-> x.name]
<1>1. f \in Surjection(S, N)
  BY DEF Surjection
<1>2. IsFiniteSet(N) /\ Cardinality(N) <= Cardinality(S)
  <2>. HIDE DEF f, N
  <2>. QED  BY <1>1, FS_Surjection
<1>3. g \in Injection(X, N)
  <2>1. g \in [X -> N]
    OBVIOUS
  <2>2. \A x, y \in X : g[x] = g[y] => x = y
    BY DEF Unique
  <2>. HIDE DEF g, N
  <2>. QED  BY <2>1, <2>2 DEF Injection, IsInjective
<1>4. IsFiniteSet(X) /\ Cardinality(X) <= Cardinality(N)
  <2>. HIDE DEF g, N
  <2>. QED  BY <1>2, <1>3, FS_Injection
<1>5. Cardinality(X) \in Nat /\ Cardinality(N) \in Nat /\ Cardinality(S) \in Nat
  <2>. HIDE DEF N
  <2>. QED  BY <1>2, <1>4, FS_CardinalityType
<1>. QED  BY <1>2, <1>4, <1>5

(* A prune keeps what is not an orphan. *)
LEMMA PruneKeeps ==
    ASSUME NEW recs, NEW live, NEW x \in recs,
           isTerminal(x.phase) \/ x.name \in live
    PROVE  x \in dropOrphanedRunning(recs, live)
BY DEF dropOrphanedRunning, isTerminal

(* What became of a merge when it is written: every merged record is       *)
(* written, up to its annotation, or it was on record, running, before.    *)
Written(r) ==
    \A x \in Merged(r) :
        \/ \E a \in recent' : a = [x EXCEPT !.expected = a.expected]
        \/ x \in recent /\ x.phase = "Running" /\ x.name \notin Live(r)

(* The three ways a reconcile rewrites the records. *)
LEMMA ReconcileWrites ==
    ASSUME HInv, NEW r \in Replicas, Reconcile(r)
    PROVE  \/ /\ Written(r)
              /\ \A a \in recent' : \E x \in Merged(r) :
                    Same(a, x) /\ a = [x EXCEPT !.expected = a.expected]
           \/ /\ recent' \subseteq recent
              /\ \A p \in Terminal(recent) : p \in recent'
<1>0. PICK M : M = Merged(r)
  OBVIOUS
<1>1. /\ M \subseteq ExecutionRecord /\ Unique(M) /\ IsFiniteSet(M)
      /\ updateLastObservedTimes(M) \in Nat
  BY <1>0, MergedFacts DEF Rewritten
<1>2. \A x \in M : x \in recent \/ x.name \in Live(r)
  BY <1>0, MergedTrace
<1>3. CASE ReconcileSuccess(r)
  <2>1. PICK last : last = updateLastObservedTimes(M)
    OBVIOUS
  <2>2. PICK A : A = Annotate(M, last)
    OBVIOUS
  <2>3. recent' = dropOrphanedRunning(A, Live(r))
    BY <1>0, <1>3, <2>1, <2>2, Zenon DEF ReconcileSuccess, Write
  <2>4. /\ A \subseteq ExecutionRecord
        /\ \A a \in A : \E p \in M : Same(a, p) /\ a.end = p.end
        /\ \A p \in M : \E a \in A : a = [p EXCEPT !.expected = a.expected]
    BY <1>1, <2>1, <2>2, AnnotateFacts
  <2>5. ASSUME NEW x \in M
        PROVE  \/ \E a \in recent' : a = [x EXCEPT !.expected = a.expected]
               \/ x \in recent /\ x.phase = "Running" /\ x.name \notin Live(r)
    <3>1. PICK a \in A : a = [x EXCEPT !.expected = a.expected]
      BY <2>4
    <3>2. a.phase = x.phase /\ a.name = x.name /\ x.phase \in Phases
      BY <1>1, <3>1 DEF ExecutionRecord
    <3>3. CASE isTerminal(x.phase) \/ x.name \in Live(r)
      BY <2>3, <3>1, <3>2, <3>3, PruneKeeps
    <3>4. CASE ~isTerminal(x.phase) /\ x.name \notin Live(r)
      BY <1>2, <3>2, <3>4 DEF Phases, isTerminal
    <3>. QED  BY <3>3, <3>4
  <2>6. \A a \in recent' : \E x \in M :
            Same(a, x) /\ a = [x EXCEPT !.expected = a.expected]
    <3>1. \A a \in recent' : a \in A
      BY <2>3 DEF dropOrphanedRunning
    <3>2. ASSUME NEW a \in A, NEW x \in M, Same(a, x), a.end = x.end
          PROVE  a = [x EXCEPT !.expected = a.expected]
      <4>1. a \in ExecutionRecord /\ x \in ExecutionRecord
        BY <1>1, <2>4
      <4>. QED  BY <3>2, <4>1 DEF ExecutionRecord, Same
    <3>. QED  BY <2>4, <3>1, <3>2
  <2>. QED  BY <1>0, <2>5, <2>6 DEF Written
<1>4. CASE ReconcileUnsatisfiable(r)
  <2>1. recent' = M
    BY <1>0, <1>4 DEF ReconcileUnsatisfiable, Write
  <2>2. \A x \in M : x = [x EXCEPT !.expected = x.expected] /\ Same(x, x)
    BY <1>1 DEF ExecutionRecord, Same
  <2>. QED  BY <1>0, <2>1, <2>2 DEF Written
<1>5. CASE ReconcileSuspended(r) \/ ReconcileNotFound(r) \/ ReconcileInvalid(r)
  <2>1. \/ recent' = recent
        \/ \E live : recent' = dropOrphanedRunning(recent, live)
    BY <1>5 DEF ReconcileSuspended, ReconcileNotFound, ReconcileInvalid, Write
  <2>2. recent' \subseteq recent
    BY <2>1 DEF dropOrphanedRunning
  <2>3. \A p \in Terminal(recent) : p \in recent'
    BY <2>1, PruneKeeps DEF Terminal
  <2>. QED  BY <2>2, <2>3
<1>. QED  BY <1>3, <1>4, <1>5 DEF Reconcile

(* The step of TerminalIsFinal. *)
FinalStep(p) ==
    \/ p \in recent'
    \/ \E q \in recent' :
          /\ q.name = p.name
          /\ \/ q.born > p.born
             \/ q = [p EXCEPT !.end = q.end, !.expected = q.expected]
    \/ Cardinality({q.name : q \in {k \in recent \cup recent' : Newer(k, p)}})
          >= HistoryLimit

(* No reconcile loses a finished run. *)
LEMMA ReconcileKeeps ==
    ASSUME HInv, NEW r \in Replicas, Reconcile(r), NEW p \in Settled(recent)
    PROVE  FinalStep(p)
<1>0. /\ p \in recent /\ p \in ExecutionRecord /\ isTerminal(p.phase)
      /\ recent \subseteq ExecutionRecord /\ IsFiniteSet(recent)
  BY DEF Settled, Terminal, HInv, TypeOK, Bounded
<1>1. CASE \A q \in Terminal(recent) : q \in recent'
  BY <1>1 DEF FinalStep, Settled
<1>2. CASE Written(r)
  <2>0. PICK M : M = Merged(r)
    OBVIOUS
  <2>1. M \subseteq ExecutionRecord /\ Unique(M) /\ IsFiniteSet(M)
    BY <2>0, MergedFacts DEF Rewritten
  <2>2. PICK q \in ExecutionRecord :
           /\ Follows(p, q)
           /\ isTerminal(q.phase) \/ q.name \in Live(r)
           /\ \/ q \in M
              \/ \E X \in SUBSET M :
                    /\ Cardinality(X) >= HistoryLimit
                    /\ \A x \in X : Newer(x, q)
    BY <2>0, MergedTrace
  <2>3. CASE q \in M
    <3>1. PICK a \in recent' : a = [q EXCEPT !.expected = a.expected]
      <4>1. ~(q.phase = "Running" /\ q.name \notin Live(r))
        BY <2>2 DEF isTerminal
      <4>. QED  BY <1>2, <2>0, <2>3, <4>1 DEF Written
    <3>2. a.name = q.name /\ a.born = q.born /\ a.end = q.end
      BY <3>1 DEF ExecutionRecord
    <3>3. CASE q.born > p.born
      BY <2>2, <3>2, <3>3 DEF FinalStep, Follows
    <3>4. CASE q = [p EXCEPT !.end = q.end, !.expected = q.expected]
      <4>1. a = [p EXCEPT !.end = a.end, !.expected = a.expected]
        BY <1>0, <3>1, <3>2, <3>4 DEF ExecutionRecord
      <4>. QED  BY <2>2, <3>2, <4>1 DEF FinalStep, Follows
    <3>. QED  BY <2>2, <3>3, <3>4 DEF Follows
  <2>4. ASSUME NEW X \in SUBSET M, Cardinality(X) >= HistoryLimit,
               \A x \in X : Newer(x, q)
        PROVE  FinalStep(p)
    <3>1. q.start >= p.start /\ q.name = p.name
      BY <2>2 DEF Follows
    <3>. DEFINE K == {k \in recent \cup recent' : Newer(k, p)}
    <3>2. ASSUME NEW x \in X PROVE \E k \in K : k.name = x.name
      <4>1. x \in ExecutionRecord
        BY <2>1
      <4>2. Newer(x, q)
        BY <2>4
      <4>3. Newer(x, p)
        BY <1>0, <3>1, <4>1, <4>2, RecordFields DEF Newer
      <4>4. CASE x \in recent
        BY <4>3, <4>4
      <4>5. ASSUME NEW a \in recent', a = [x EXCEPT !.expected = a.expected]
            PROVE  \E k \in K : k.name = x.name
        <5>1. a.name = x.name /\ a.start = x.start
          BY <4>1, <4>5 DEF ExecutionRecord
        <5>2. Newer(a, p)
          BY <4>3, <5>1 DEF Newer
        <5>. QED  BY <5>1, <5>2
      <4>. QED  BY <1>2, <2>0, <4>4, <4>5 DEF Written
    <3>3. IsFiniteSet(K)
      <4>1. IsFiniteSet(recent')
        BY ReconcileFacts DEF Rewritten
      <4>2. IsFiniteSet(recent \cup recent') /\ K \in SUBSET (recent \cup recent')
        BY <1>0, <4>1, FS_Union
      <4>. HIDE DEF K
      <4>. QED  BY <4>2, FS_Subset
    <3>4. Unique(X)
      BY <2>1 DEF Unique
    <3>5. PICK N : N = {k.name : k \in K}
      OBVIOUS
    <3>6. IsFiniteSet(X) /\ Cardinality(X) <= Cardinality(N) /\ IsFiniteSet(N)
      <4>. HIDE DEF K
      <4>. QED  BY <3>2, <3>3, <3>4, <3>5, NamesCount
    <3>7. Cardinality(N) >= HistoryLimit
      <4>1. Cardinality(X) \in Nat /\ Cardinality(N) \in Nat
        BY <3>6, FS_CardinalityType
      <4>. QED  BY <2>4, <3>6, <4>1, ConstantFacts
    <3>. QED  BY <3>5, <3>7 DEF FinalStep
  <2>. QED  BY <2>2, <2>3, <2>4
<1>. QED  BY <1>1, <1>2, ReconcileWrites

(* Only a reconcile writes the status. *)
LEMMA OnlyReconcileWrites ==
    ASSUME [Next]_vars, recent' # recent
    PROVE  \E r \in Replicas : Reconcile(r)
<1>1. ASSUME NEW r \in Replicas, SyncCronJob(r) \/ SyncJobs(r)
      PROVE  UNCHANGED recent
  BY <1>1 DEF SyncCronJob, SyncJobs
<1>2. Tick \/ PublishActive \/ UNCHANGED vars => UNCHANGED recent
  BY DEF Tick, PublishActive, views, vars
<1>3. ASSUME NEW n \in Names, CreateJob(n) PROVE UNCHANGED recent
  BY <1>3 DEF CreateJob, views
<1>4. ASSUME NEW j \in jobs, StartJob(j) \/ FinishJob(j) \/ DeleteJob(j)
      PROVE  UNCHANGED recent
  BY <1>4 DEF StartJob, FinishJob, DeleteJob, views
<1>5. ASSUME NEW v \in Verdicts, ChangeCronJob(v) PROVE UNCHANGED recent
  BY <1>5 DEF ChangeCronJob, views
<1>. QED  BY <1>1, <1>2, <1>3, <1>4, <1>5 DEF Next

(* Every step keeps finished runs. *)
LEMMA FinalNext ==
    ASSUME HInv, [Next]_vars, NEW p \in Settled(recent) PROVE FinalStep(p)
<1>1. CASE recent' = recent
  BY <1>1 DEF FinalStep, Settled, Terminal
<1>2. CASE recent' # recent
  BY <1>2, OnlyReconcileWrites, ReconcileKeeps
<1>. QED  BY <1>1, <1>2

(* A finished run whose Job did not start before it was created stays on   *)
(* record through stale caches, prunes, changes of leader and re-used      *)
(* names, until it gains its end time, a later Job of its name replaces it *)
(* or HistoryLimit newer runs push it out: what shouldReplace and the      *)
(* truncation in Merge are for.                                            *)
THEOREM FinishedStay == Spec => TerminalIsFinal
<1>1. HInv /\ [Next]_vars =>
        [\A p \in {k \in Terminal(recent) : StartedAfterCreation(k)} :
          \/ p \in recent'
          \/ \E q \in recent' :
                /\ q.name = p.name
                /\ \/ q.born > p.born
                   \/ q = [p EXCEPT !.end = q.end, !.expected = q.expected]
          \/ Cardinality({q.name : q \in {k \in recent \cup recent' : Newer(k, p)}})
                >= HistoryLimit]_vars
  BY FinalNext DEF FinalStep, Settled
<1>. QED  BY <1>1, Invariant, PTL DEF Spec, TerminalIsFinal

-----------------------------------------------------------------------------
(* When a deleted Job's name is not used again, a name stands for one Job. *)

(* No new Job, and every view is of a run that was in view. *)
ViewsKept ==
    jobs' \subseteq jobs /\ \A x \in Views' : \E y \in Views : Same(x, y)

(* Every other step leaves the views what they are. *)
LEMMA StepViews ==
    ASSUME HInv, [Next]_vars
    PROVE  \/ ViewsKept
           \/ \E n \in Names : CreateJob(n)
           \/ \E j \in jobs : StartJob(j) \/ FinishJob(j)
<1>0. \A x \in Views : Same(x, x)
  BY DEF Same
<1>1. ASSUME NEW r \in Replicas, Reconcile(r) PROVE ViewsKept
  <2>1. Rewritten(recent') /\ UNCHANGED <<jobs, seenJobs>>
    BY <1>1, ReconcileFacts
  <2>2. \A x \in Views' : x \in recent' \/ x \in Views
    BY <2>1 DEF Views, RecordsOf
  <2>. QED  BY <1>0, <2>1, <2>2 DEF Rewritten, ViewsKept
<1>2. ASSUME jobs' \subseteq jobs, UNCHANGED recent,
             \A p \in Replicas : seenJobs'[p] = seenJobs[p] \/ seenJobs'[p] = jobs
      PROVE  ViewsKept
  <2>1. \A x \in Views' : x \in Views
    BY <1>2 DEF Views, RecordsOf
  <2>. QED  BY <1>0, <1>2, <2>1 DEF ViewsKept
<1>3. ASSUME NEW r \in Replicas, SyncCronJob(r) \/ SyncJobs(r) PROVE ViewsKept
  <2>1. /\ UNCHANGED <<jobs, recent>>
        /\ \A p \in Replicas : seenJobs'[p] = seenJobs[p] \/ seenJobs'[p] = jobs
    BY <1>3 DEF SyncCronJob, SyncJobs, world, HInv, TypeOK
  <2>. QED  BY <1>2, <2>1
<1>4. CASE Tick \/ PublishActive \/ UNCHANGED vars
  <2>1. UNCHANGED <<jobs, recent, seenJobs>>
    BY <1>4 DEF Tick, PublishActive, views, vars
  <2>. QED  BY <1>2, <2>1
<1>5. ASSUME NEW j \in jobs, DeleteJob(j) PROVE ViewsKept
  <2>1. jobs' \subseteq jobs /\ UNCHANGED <<recent, seenJobs>>
    BY <1>5 DEF DeleteJob, views
  <2>. QED  BY <1>2, <2>1
<1>6. ASSUME NEW v \in Verdicts, ChangeCronJob(v) PROVE ViewsKept
  <2>1. jobs' \subseteq jobs /\ UNCHANGED <<recent, seenJobs>>
    BY <1>6 DEF ChangeCronJob, views
  <2>. QED  BY <1>2, <2>1
<1>. QED  BY <1>1, <1>3, <1>4, <1>5, <1>6 DEF Next

(* All views of a name are of one Job. *)
OneJob == \A x, y \in Views : x.name = y.name => x.born = y.born

(* A name that is in view is not used for another Job. *)
LEMMA FreshName ==
    ASSUME HInv, ~NamesReused, NEW n \in Names, CreateJob(n)
    PROVE  \A x \in Views : x.name # n
<1>1. gone[n] = 0 /\ \A j \in jobs : j.name # n
  BY DEF CreateJob
<1>2. ASSUME NEW x \in Views, x.name = n PROVE FALSE
  <2>1. x.start \in Nat /\ 1 <= x.start
    BY ViewsType, RecordFields DEF HInv, RunsAgree
  <2>2. x.start <= 0
    BY <1>1, <1>2 DEF HInv, RunsAgree
  <2>. QED  BY <2>1, <2>2
<1>. QED  BY <1>2

(* A name stands for one Job. *)
LEMMA OneJobNext ==
    ASSUME HInv, ~NamesReused, OneJob, [Next]_vars
    PROVE  OneJob'
<1>1. CASE ViewsKept
  BY <1>1 DEF OneJob, Same, ViewsKept
<1>2. ASSUME NEW n \in Names, CreateJob(n) PROVE OneJob'
  <2>1. PICK k \in Job : /\ k.name = n
                         /\ \A x \in Views' : x \in Views \/ x = jobToRecord(k)
    BY <1>2, NewJob
  <2>2. \A x \in Views : x.name # n
    BY <1>2, FreshName
  <2>3. jobToRecord(k).name = n
    BY <2>1, RecordOf
  <2>. QED  BY <2>1, <2>2, <2>3 DEF OneJob
<1>3. ASSUME NEW j \in jobs, StartJob(j) \/ FinishJob(j) PROVE OneJob'
  <2>1. PICK k \in Job : /\ k.name = j.name /\ k.created = j.created
                         /\ jobs' = (jobs \ {j}) \cup {k}
                         /\ UNCHANGED <<recent, seenJobs>>
    BY <1>3, ChangedJob
  <2>2. \A x \in Views' : x \in Views \/ x = jobToRecord(k)
    BY <2>1, HReplace
  <2>3. /\ jobToRecord(k).name = jobToRecord(j).name
        /\ jobToRecord(k).born = jobToRecord(j).born
        /\ jobToRecord(j) \in Views
    BY <2>1, RecordOf DEF HInv, TypeOK, Views, RecordsOf
  <2>4. \A x \in Views' : \E y \in Views : x.name = y.name /\ x.born = y.born
    BY <2>2, <2>3
  <2>. QED  BY <2>4 DEF OneJob
<1>. QED  BY <1>1, <1>2, <1>3, StepViews

(* A name stands for one Job, always. *)
LEMMA OneJobAlways ==
    ASSUME ~NamesReused PROVE Spec => [](HInv /\ OneJob)
<1>1. Init => HInv /\ OneJob
  <2>1. Init => Views = {}
    BY DEF Init, Views, RecordsOf
  <2>. QED  BY <2>1, HInvInit DEF OneJob
<1>2. HInv /\ OneJob /\ [Next]_vars => (HInv /\ OneJob)'
  BY HInvNext, OneJobNext
<1>. QED  BY <1>1, <1>2, PTL DEF Spec

-----------------------------------------------------------------------------
(* Annotations.                                                            *)

(* An annotation that is not of the Job's creation is of its start, the    *)
(* one that all views of the Job show in place of its creation.  A record  *)
(* may show the creation again only if that is later.                      *)
StampFits(p) ==
    \/ p.expected \in {Unset, p.born}
    \/ /\ p.born <= p.expected + Skew
       /\ p.start = p.expected \/ (p.start = p.born /\ p.expected < p.born)
       /\ \A y \in Views : y.name = p.name =>
             /\ y.start \in {p.born, p.expected}
             /\ isTerminal(y.phase) => y.start = p.expected
       /\ \A j \in jobs : j.name = p.name => jobToRecord(j).start = p.expected

Stamped == \A p \in recent : StampFits(p)

(* Such an annotation is the one AnnotationFits allows. *)
LEMMA StampedFit ==
    ASSUME HInv, Stamped PROVE AnnotationFits
<1>. SUFFICES ASSUME NEW p \in recent
              PROVE  \/ p.expected \in {Unset, p.start, p.born}
                     \/ p.start = p.born /\ p.born - p.expected \in 1..Skew
  BY DEF AnnotationFits
<1>1. p.expected \in Nat /\ p.born \in Nat /\ Skew \in Nat
  BY RecordFields, ConstantFacts DEF HInv, TypeOK
<1>2. StampFits(p)
  BY DEF Stamped
<1>3. CASE p.expected \in {Unset, p.born}
  BY <1>3
<1>4. CASE p.start = p.expected
  BY <1>4
<1>5. CASE /\ p.born <= p.expected + Skew
           /\ p.start = p.born /\ p.expected < p.born
  BY <1>1, <1>5
<1>. QED  BY <1>2, <1>3, <1>4, <1>5 DEF StampFits

(* What is merged carries annotations of its own Jobs. *)
LEMMA MergedFits ==
    ASSUME HInv, OneJob, Stamped, NEW r \in Replicas, NEW x \in Merged(r)
    PROVE  StampFits(x)
<1>1. PICK I : /\ I \subseteq ExecutionRecord /\ IsFiniteSet(I) /\ Unique(I)
               /\ I \subseteq Views
               /\ \A q \in I : q.expected = Unset /\ q.name \in Live(r)
               /\ recent \subseteq ExecutionRecord
               /\ IsFiniteSet(recent) /\ Unique(recent)
               /\ Merged(r) = Truncate(Union(recent, I), HistoryLimit)
  BY MergedParts
<1>2. x \in Union(recent, I)
  BY <1>1 DEF Truncate
<1>3. \/ x \in recent
      \/ \E q \in I : /\ Same(x, q) /\ x.end = q.end
                     /\ \/ x.expected = q.expected
                        \/ \E p \in recent : /\ p.name = x.name
                                             /\ shouldReplace(p, q)
                                             /\ x.expected = p.expected
  BY <1>1, <1>2, UnionFacts
<1>4. CASE x \in recent
  BY <1>4 DEF Stamped
<1>5. ASSUME NEW q \in I, Same(x, q), x.expected = q.expected PROVE StampFits(x)
  BY <1>1, <1>5 DEF StampFits
<1>6. ASSUME NEW q \in I, Same(x, q), NEW p \in recent, p.name = x.name,
             shouldReplace(p, q), x.expected = p.expected
      PROVE  StampFits(x)
  <2>1. p \in Views /\ q \in Views /\ StampFits(p)
    BY <1>1 DEF Views, Stamped
  <2>2. x.born = p.born /\ x.name = p.name /\ x.start = q.start /\ q.name = p.name
    BY <1>6, <2>1 DEF OneJob, Same
  <2>3. CASE p.expected \in {Unset, p.born}
    BY <1>6, <2>2, <2>3 DEF StampFits
  <2>4. CASE p.expected \notin {Unset, p.born}
    <3>1. /\ p.start \in Nat /\ q.start \in Nat /\ p.born \in Nat
          /\ p.expected \in Nat
      BY <1>1, RecordFields
    <3>2. /\ p.start = p.expected \/ (p.start = p.born /\ p.expected < p.born)
          /\ q.start \in {p.born, p.expected}
          /\ isTerminal(q.phase) => q.start = p.expected
      BY <2>1, <2>2, <2>4 DEF StampFits
    <3>3. q.start = p.expected \/ (q.start = p.born /\ p.expected < p.born)
      BY <1>6, <3>1, <3>2 DEF shouldReplace
    <3>. QED  BY <1>6, <2>1, <2>2, <2>4, <3>3 DEF StampFits
  <2>. QED  BY <2>3, <2>4
<1>. QED  BY <1>3, <1>4, <1>5, <1>6

(* A record that is annotated with the drift of its own start. *)
LEMMA FreshStamp ==
    ASSUME HInv, OneJob, NEW y \in Views, NEW a, Same(a, y),
           a.expected \in {Unset, a.start}
    PROVE  StampFits(a)
<1>1. CASE a.expected \in {Unset, a.born}
  BY <1>1 DEF StampFits
<1>2. CASE a.expected = a.start /\ a.start # a.born
  <2>1. /\ a.name = y.name /\ a.born = y.born /\ a.start = y.start
        /\ a.phase = y.phase
    BY DEF Same
  <2>2. a.born <= a.expected + Skew
    BY <1>2, <2>1 DEF HInv, RunsAgree
  <2>3. ASSUME NEW z \in Views, z.name = a.name
        PROVE  /\ z.start \in {a.born, a.expected}
               /\ isTerminal(z.phase) => z.start = a.expected
    <3>1. PairFits(z, y) /\ z.born = y.born
      BY <2>1, <2>3 DEF HInv, RunsAgree, OneJob
    <3>. QED  BY <1>2, <2>1, <3>1 DEF PairFits
  <2>4. ASSUME NEW j \in jobs, j.name = a.name
        PROVE  jobToRecord(j).start = a.expected
    <3>1. /\ jobToRecord(j) \in Views /\ jobToRecord(j).name = j.name
          /\ jobToRecord(j).born = j.created
      BY RecordOf DEF HInv, TypeOK, Views, RecordsOf
    <3>2. JobFits(y, j) /\ y.born = j.created
      BY <2>1, <2>4, <3>1 DEF HInv, RunsAgree, OneJob
    <3>. QED  BY <1>2, <2>1, <3>2 DEF JobFits
  <2>. QED  BY <1>2, <2>2, <2>3, <2>4 DEF StampFits
<1>. QED  BY <1>1, <1>2

(* A reconcile writes annotations of the records' own Jobs. *)
LEMMA ReconcileStamps ==
    ASSUME HInv, OneJob, Stamped, NEW r \in Replicas, Reconcile(r)
    PROVE  \A a \in recent' : StampFits(a)
<1>1. CASE ReconcileSuccess(r)
  <2>0. PICK M : M = Merged(r)
    OBVIOUS
  <2>1. PICK last : last = updateLastObservedTimes(M)
    OBVIOUS
  <2>2. recent' = dropOrphanedRunning(Annotate(M, last), Live(r))
    BY <1>1, <2>0, <2>1, Zenon DEF ReconcileSuccess, Write
  <2>3. /\ M \subseteq ExecutionRecord /\ Unique(M) /\ IsFiniteSet(M)
        /\ last \in Nat /\ \A p \in M : \E y \in Views : Same(p, y)
    BY <2>0, <2>1, MergedFacts DEF Rewritten
  <2>4. \A a \in Annotate(M, last) : \E p \in M :
           /\ Same(a, p)
           /\ \/ a.expected = p.expected
              \/ a.start = last /\ a.expected = Drift(last)
    BY <2>3, AnnotateFacts
  <2>5. ASSUME NEW a \in Annotate(M, last) PROVE StampFits(a)
    <3>1. PICK p \in M : /\ Same(a, p)
                         /\ \/ a.expected = p.expected
                            \/ a.start = last /\ a.expected = Drift(last)
      BY <2>4
    <3>2. StampFits(p)
      BY <2>0, MergedFits
    <3>3. CASE a.expected = p.expected
      BY <3>1, <3>2, <3>3 DEF StampFits, Same
    <3>4. CASE a.start = last /\ a.expected = Drift(last)
      <4>1. PICK y \in Views : Same(p, y)
        BY <2>3
      <4>2. Same(a, y)
        BY <3>1, <4>1 DEF Same
      <4>3. a.expected \in {Unset, a.start}
        BY <3>4 DEF Drift
      <4>. QED  BY <4>2, <4>3, FreshStamp
    <3>. QED  BY <3>1, <3>3, <3>4
  <2>6. \A a \in recent' : a \in Annotate(M, last)
    BY <2>2 DEF dropOrphanedRunning
  <2>. QED  BY <2>5, <2>6
<1>2. CASE ReconcileUnsatisfiable(r)
  BY <1>2, MergedFits DEF ReconcileUnsatisfiable, Write
<1>3. CASE ReconcileSuspended(r) \/ ReconcileNotFound(r) \/ ReconcileInvalid(r)
  <2>1. \/ recent' = recent
        \/ \E live : recent' = dropOrphanedRunning(recent, live)
    BY <1>3 DEF ReconcileSuspended, ReconcileNotFound, ReconcileInvalid, Write
  <2>. QED  BY <2>1 DEF Stamped, dropOrphanedRunning
<1>. QED  BY <1>1, <1>2, <1>3 DEF Reconcile

(* Annotations stay those of their own Jobs. *)
LEMMA StampedNext ==
    ASSUME HInv, ~NamesReused, OneJob, Stamped, [Next]_vars
    PROVE  Stamped'
<1>1. ASSUME ViewsKept, NEW p, StampFits(p) PROVE StampFits(p)'
  BY <1>1 DEF StampFits, ViewsKept, Same
<1>2. CASE ViewsKept /\ recent' = recent
  BY <1>1, <1>2 DEF Stamped
<1>3. CASE ViewsKept /\ recent' # recent
  <2>1. \A a \in recent' : StampFits(a)
    BY <1>3, OnlyReconcileWrites, ReconcileStamps
  <2>. QED  BY <1>1, <1>3, <2>1 DEF Stamped
<1>4. ASSUME NEW n \in Names, CreateJob(n) PROVE Stamped'
  <2>1. PICK k \in Job : /\ k.name = n /\ jobs' = jobs \cup {k}
                         /\ UNCHANGED recent
                         /\ \A x \in Views' : x \in Views \/ x = jobToRecord(k)
    BY <1>4, NewJob
  <2>2. \A x \in Views : x.name # n
    BY <1>4, FreshName
  <2>3. jobToRecord(k).name = n
    BY <2>1, RecordOf
  <2>4. ASSUME NEW p \in recent PROVE StampFits(p)'
    <3>1. StampFits(p) /\ p.name # n
      BY <2>2 DEF Stamped, Views
    <3>. QED  BY <2>1, <2>3, <3>1 DEF StampFits
  <2>. QED  BY <2>1, <2>4 DEF Stamped
<1>5. ASSUME NEW j \in jobs, StartJob(j) \/ FinishJob(j) PROVE Stamped'
  <2>1. PICK k \in Job :
           /\ jobs' = (jobs \ {j}) \cup {k}
           /\ k.name = j.name /\ k.created = j.created
           /\ UNCHANGED <<now, gone, recent, seenJobs, latch>>
           /\ j.start = Unset \/ k.start = j.start
    BY <1>5, ChangedJob
  <2>2. \A x \in Views' : x \in Views \/ x = jobToRecord(k)
    BY <2>1, HReplace
  <2>3. /\ jobToRecord(k).name = j.name /\ jobToRecord(j).name = j.name
        /\ jobToRecord(j) \in Views /\ jobToRecord(j).born = j.created
        /\ jobToRecord(j).start = (IF j.start = Unset THEN j.created ELSE j.start)
        /\ k.start = j.start => jobToRecord(k).start = jobToRecord(j).start
    BY <2>1, RecordOf DEF HInv, TypeOK, Views, RecordsOf
  <2>4. ASSUME NEW p \in recent PROVE StampFits(p)'
    <3>1. StampFits(p) /\ p \in Views
      BY DEF Stamped, Views
    <3>2. CASE p.expected \in {Unset, p.born}
      BY <3>2 DEF StampFits
    <3>3. CASE p.expected \notin {Unset, p.born} /\ p.name # j.name
      BY <2>1, <2>2, <2>3, <3>1, <3>3 DEF StampFits
    <3>4. CASE p.expected \notin {Unset, p.born} /\ p.name = j.name
      <4>1. p.born = j.created
        BY <2>3, <3>1, <3>4 DEF OneJob
      <4>2. jobToRecord(j).start = p.expected
        BY <3>1, <3>4 DEF StampFits
      <4>3. jobToRecord(k).start = p.expected
        BY <2>1, <2>3, <3>4, <4>1, <4>2
      <4>. QED  BY <2>1, <2>2, <3>1, <3>4, <4>3 DEF StampFits
    <3>. QED  BY <3>2, <3>3, <3>4
  <2>. QED  BY <2>1, <2>4 DEF Stamped
<1>. QED  BY <1>2, <1>3, <1>4, <1>5, StepViews

(* Where no Job name is used again, the annotation of a record is the      *)
(* drift of its own Job, of the start on record or of the creation time    *)
(* that stood in for it, although Merge hands annotations from record to   *)
(* record and the latch outlives the record it came from.                  *)
THEOREM AnnotationsFit ==
    ASSUME ~NamesReused
    PROVE  Spec => []AnnotationFits
<1>. DEFINE Inv == HInv /\ OneJob /\ Stamped
<1>1. Init => Inv
  <2>1. Init => Views = {} /\ recent = {}
    BY DEF Init, Views, RecordsOf
  <2>. QED  BY <2>1, HInvInit DEF OneJob, Stamped
<1>2. Inv /\ [Next]_vars => Inv'
  BY HInvNext, OneJobNext, StampedNext
<1>3. Inv => AnnotationFits
  BY StampedFit
<1>. QED  BY <1>1, <1>2, <1>3, PTL DEF Spec

-----------------------------------------------------------------------------
(* What ends an alarm.                                                     *)

(* The streak that ConsecutiveFailures counts. *)
Streak(recs) ==
    {p \in Terminal(recs) :
        \A q \in Terminal(recs) : q = p \/ Newer(q, p) => q.phase = "Failed"}

(* The condition is False when the streak is as long as the limit. *)
LEMMA AlarmMeans ==
    ASSUME NEW recs, IsFiniteSet(recs)
    PROVE  /\ Cardinality(Streak(recs)) \in Nat /\ IsFiniteSet(Streak(recs))
           /\ evaluateExecutionHealthy(recs) = "False"
                 <=> Cardinality(Streak(recs)) >= MaxConsecutiveFailures
<1>1. Streak(recs) \in SUBSET recs
  BY DEF Streak, Terminal
<1>2. IsFiniteSet(Streak(recs)) /\ Cardinality(Streak(recs)) \in Nat
  BY <1>1, FS_Subset, FS_CardinalityType
<1>3. ConsecutiveFailures(recs) = Cardinality(Streak(recs))
  BY DEF ConsecutiveFailures, Streak
<1>4. Terminal(recs) = {} => Cardinality(Streak(recs)) = 0
  <2>1. Terminal(recs) = {} => Streak(recs) = {}
    BY DEF Streak
  <2>. QED  BY <2>1, FS_EmptySet
<1>5. MaxConsecutiveFailures \in Nat /\ MaxConsecutiveFailures >= 1
  BY SpecAssumption
<1>. QED  BY <1>2, <1>3, <1>4, <1>5 DEF evaluateExecutionHealthy

(* With names that are not used again, a finished run's record changes its *)
(* end time and annotation only.                                           *)
LEMMA FollowsSame ==
    ASSUME HInv, OneJob, NEW p \in recent,
           NEW q \in ExecutionRecord, Follows(p, q), NEW y \in Views, Same(q, y)
    PROVE  Same(q, p)
<1>1. p \in Views /\ p \in ExecutionRecord
  BY DEF Views, HInv, TypeOK
<1>2. q.born = p.born
  BY <1>1 DEF OneJob, Same, Follows
<1>3. ~(q.born > p.born)
  BY <1>1, <1>2, RecordFields
<1>. QED  BY <1>1, <1>3 DEF Follows, Same, ExecutionRecord

(* The records a reconcile leaves are as alarming as before, unless a      *)
(* newer success has come on record.                                       *)
LEMMA StreakKept ==
    ASSUME HInv, OneJob, NEW r \in Replicas, Reconcile(r),
           \A p \in recent : p.phase = "Failed" => StartedAfterCreation(p),
           Cardinality(Running(recent \cup recent')) + MaxConsecutiveFailures
              <= HistoryLimit,
           Cardinality(Streak(recent)) >= MaxConsecutiveFailures,
           ~\E p \in recent' :
                /\ p.phase = "Succeeded"
                /\ p \notin recent
                /\ \E q \in recent : q.phase = "Failed" /\ Newer(p, q)
    PROVE  Cardinality(Streak(recent')) >= MaxConsecutiveFailures
<1>0. /\ recent \subseteq ExecutionRecord /\ IsFiniteSet(recent) /\ Unique(recent)
      /\ recent' \subseteq ExecutionRecord /\ IsFiniteSet(recent')
      /\ MaxConsecutiveFailures \in Nat /\ HistoryLimit \in Nat
  BY ReconcileFacts, SpecAssumption, ConstantFacts
     DEF HInv, TypeOK, Bounded, Unique, Rewritten
<1>. DEFINE F == Streak(recent)
            G == Streak(recent')
<1>1. /\ IsFiniteSet(F) /\ Cardinality(F) \in Nat
      /\ IsFiniteSet(G) /\ Cardinality(G) \in Nat
  BY <1>0, AlarmMeans
<1>2. \A f \in F : /\ f \in recent /\ f.phase = "Failed" /\ f \in Settled(recent)
                   /\ f \in Terminal(recent) /\ f \in ExecutionRecord
  BY <1>0 DEF Streak, Terminal, Settled
<1>3. ASSUME NEW f \in F, NEW s \in Terminal(recent'),
             Newer(s, f) \/ s.phase = "Failed"
      PROVE  s.phase = "Failed"
  <2>1. s \in recent' /\ s.phase \in {"Succeeded", "Failed"}
    BY DEF Terminal, isTerminal
  <2>2. ASSUME s.phase = "Succeeded", Newer(s, f) PROVE FALSE
    <3>1. s \notin recent
      BY <2>1, <2>2 DEF Streak, Terminal
    <3>. QED  BY <1>2, <2>1, <2>2, <3>1
  <2>. QED  BY <1>3, <2>1, <2>2
<1>4. ASSUME NEW f \in F, NEW a \in Terminal(recent'),
             Newer(a, f) \/ Same(a, f)
      PROVE  a \in G
  <2>1. a \in ExecutionRecord /\ f \in ExecutionRecord
    BY <1>0, <1>2 DEF Terminal
  <2>2. a.phase = "Failed"
    BY <1>2, <1>3, <1>4 DEF Same
  <2>3. ASSUME NEW s \in Terminal(recent'), Newer(s, a) PROVE s.phase = "Failed"
    <3>1. s \in ExecutionRecord
      BY <1>0 DEF Terminal
    <3>2. Newer(s, f)
      <4>1. CASE Newer(a, f)
        BY <2>1, <2>3, <3>1, <4>1, NewerOrder
      <4>2. CASE Same(a, f)
        BY <2>3, <4>2 DEF Same, Newer
      <4>. QED  BY <1>4, <4>1, <4>2
    <3>. QED  BY <1>3, <3>2
  <2>. QED  BY <2>2, <2>3 DEF Streak
<1>5. CASE \A p \in Terminal(recent) : p \in recent'
  <2>1. \A f \in F : f \in G
    <3>1. \A f \in F : f \in Terminal(recent') /\ Same(f, f)
      BY <1>2, <1>5 DEF Terminal, Same
    <3>. HIDE DEF F, G
    <3>. QED  BY <1>4, <3>1
  <2>2. Cardinality(F) <= Cardinality(G)
    <3>1. F \in SUBSET G
      BY <2>1
    <3>. HIDE DEF F, G
    <3>. QED  BY <1>1, <3>1, FS_Subset
  <2>. QED  BY <1>0, <1>1, <2>2
<1>6. CASE Written(r)
  <2>0. PICK M : M = Merged(r)
    OBVIOUS
  <2>1. M \subseteq ExecutionRecord /\ Unique(M) /\ IsFiniteSet(M)
    BY <2>0, MergedFacts DEF Rewritten
  <2>2. \A f \in F : \E q \in ExecutionRecord :
           /\ Same(q, f)
           /\ \/ q \in M
              \/ \E X \in SUBSET M : /\ Cardinality(X) >= HistoryLimit
                                     /\ \A x \in X : Newer(x, q)
    BY <1>2, <2>0, MergedTrace, FollowsSame
  <2>3. ASSUME NEW x \in M, isTerminal(x.phase)
        PROVE  \E a \in Terminal(recent') : Same(a, x)
    <3>1. PICK a \in recent' : a = [x EXCEPT !.expected = a.expected]
      BY <1>6, <2>0, <2>3 DEF Written, isTerminal
    <3>2. Same(a, x)
      BY <2>1, <3>1 DEF ExecutionRecord, Same
    <3>. QED  BY <2>3, <3>1, <3>2 DEF Terminal, Same
  <2>4. ASSUME \A f \in F : \E q \in M : Same(q, f)
        PROVE  Cardinality(G) >= MaxConsecutiveFailures
    <3>1. ASSUME NEW f \in F PROVE \E a \in G : a.name = f.name
      <4>1. PICK q \in M : Same(q, f)
        BY <2>4
      <4>2. isTerminal(q.phase)
        BY <1>2, <4>1 DEF Same, isTerminal
      <4>3. PICK a \in Terminal(recent') : Same(a, q)
        BY <2>3, <4>2
      <4>4. Same(a, f)
        BY <4>1, <4>3 DEF Same
      <4>5. a \in G
        BY <1>4, <4>4
      <4>. QED  BY <4>4, <4>5 DEF Same
    <3>2. Unique(F)
      BY <1>0, <1>2 DEF Unique
    <3>3. Cardinality(F) <= Cardinality(G)
      <4>. HIDE DEF F, G
      <4>. QED  BY <1>1, <3>1, <3>2, NamesCount
    <3>. QED  BY <1>0, <1>1, <3>3
  <2>5. ASSUME NEW f \in F, NEW q \in ExecutionRecord, Same(q, f),
               NEW X \in SUBSET M, Cardinality(X) >= HistoryLimit,
               \A x \in X : Newer(x, q)
        PROVE  Cardinality(G) >= MaxConsecutiveFailures
    <3>1. PICK R : R = Running(recent \cup recent')
      OBVIOUS
    <3>2. PICK T : T = {x \in X : isTerminal(x.phase)}
      OBVIOUS
    <3>3. PICK Y : Y = {x \in X : x.phase = "Running"}
      OBVIOUS
    <3>4. X = T \cup Y /\ T \cap Y = {}
      <4>1. \A x \in X : x.phase \in Phases
        BY <2>1, RecordFields
      <4>. QED  BY <3>2, <3>3, <4>1 DEF Phases, isTerminal
    <3>5. IsFiniteSet(R)
      <4>1. IsFiniteSet(recent \cup recent')
        BY <1>0, FS_Union
      <4>2. R \in SUBSET (recent \cup recent')
        BY <3>1 DEF Running
      <4>. QED  BY <4>1, <4>2, FS_Subset
    <3>6. IsFiniteSet(Y) /\ Cardinality(Y) <= Cardinality(R)
      <4>1. ASSUME NEW x \in Y PROVE \E s \in R : s.name = x.name
        <5>1. x \in M /\ x.phase = "Running" /\ x \in ExecutionRecord
          BY <2>1, <3>3
        <5>2. CASE x \in recent
          BY <3>1, <5>1, <5>2 DEF Running
        <5>3. ASSUME NEW a \in recent', a = [x EXCEPT !.expected = a.expected]
              PROVE  \E s \in R : s.name = x.name
          <6>1. a.name = x.name /\ a.phase = x.phase
            BY <5>1, <5>3 DEF ExecutionRecord
          <6>. QED  BY <3>1, <5>1, <6>1 DEF Running
        <5>. QED  BY <1>6, <2>0, <5>1, <5>2, <5>3 DEF Written
      <4>2. Unique(Y)
        BY <2>1, <3>3 DEF Unique
      <4>. QED  BY <3>5, <4>1, <4>2, NamesCount
    <3>7. IsFiniteSet(T) /\ Cardinality(T) <= Cardinality(G)
      <4>1. ASSUME NEW x \in T PROVE \E a \in G : a.name = x.name
        <5>1. x \in M /\ isTerminal(x.phase) /\ Newer(x, q)
          BY <2>5, <3>2
        <5>2. PICK a \in Terminal(recent') : Same(a, x)
          BY <2>3, <5>1
        <5>3. Newer(a, f)
          BY <2>5, <5>1, <5>2 DEF Newer, Same
        <5>4. a \in G
          BY <1>4, <5>3
        <5>. QED  BY <5>2, <5>4 DEF Same
      <4>2. Unique(T)
        BY <2>1, <3>2 DEF Unique
      <4>. HIDE DEF G
      <4>. QED  BY <1>1, <4>1, <4>2, NamesCount
    <3>8. Cardinality(X) = Cardinality(T) + Cardinality(Y)
      <4>1. Cardinality(T \cap Y) = 0
        BY <3>4, FS_EmptySet
      <4>2. Cardinality(T) \in Nat /\ Cardinality(Y) \in Nat
        BY <3>6, <3>7, FS_CardinalityType
      <4>3. Cardinality(T \cup Y)
              = Cardinality(T) + Cardinality(Y) - Cardinality(T \cap Y)
        BY <3>6, <3>7, FS_Union
      <4>. QED  BY <3>4, <4>1, <4>2, <4>3
    <3>9. /\ Cardinality(T) \in Nat /\ Cardinality(Y) \in Nat
          /\ Cardinality(R) \in Nat
      BY <3>5, <3>6, <3>7, FS_CardinalityType
    <3>10. Cardinality(R) + MaxConsecutiveFailures <= HistoryLimit
      BY <3>1
    <3>. HIDE DEF F, G
    <3>. QED  BY <1>0, <1>1, <2>5, <3>6, <3>7, <3>8, <3>9, <3>10
  <2>6. CASE \A f \in F : \E q \in M : Same(q, f)
    <3>. HIDE DEF F, G
    <3>. QED  BY <2>4, <2>6 DEF G
  <2>7. CASE ~\A f \in F : \E q \in M : Same(q, f)
    <3>1. PICK f \in F : ~\E q \in M : Same(q, f)
      BY <2>7
    <3>2. PICK q \in ExecutionRecord :
             /\ Same(q, f)
             /\ \E X \in SUBSET M : /\ Cardinality(X) >= HistoryLimit
                                    /\ \A x \in X : Newer(x, q)
      BY <2>2, <3>1
    <3>. HIDE DEF F, G
    <3>. QED  BY <2>5, <3>2 DEF G
  <2>. QED  BY <2>6, <2>7
<1>. QED  BY <1>5, <1>6, ReconcileWrites

(* While names are not used again, no failed Job started before it was     *)
(* created and the ring has room for the threshold besides the running     *)
(* records, an alarm raised by evaluateExecutionHealthy ends only with a   *)
(* newer success.                                                          *)
THEOREM AlarmNeedsSuccess ==
    ASSUME ~NamesReused
    PROVE  Spec => RoomyAlarmNeedsSuccess
<1>1. ASSUME HInv, OneJob, [Next]_vars,
             \A p \in recent : p.phase = "Failed" => StartedAfterCreation(p),
             Cardinality(Running(recent \cup recent')) + MaxConsecutiveFailures
                <= HistoryLimit
      PROVE  ClearedBySuccess
  <2>1. CASE recent' = recent
    BY <2>1 DEF ClearedBySuccess
  <2>2. ASSUME NEW r \in Replicas, Reconcile(r) PROVE ClearedBySuccess
    <3>1. IsFiniteSet(recent) /\ IsFiniteSet(recent')
      BY <1>1, <2>2, ReconcileFacts DEF HInv, Bounded, Rewritten
    <3>2. PICK new : new = recent'
      OBVIOUS
    <3>3. /\ evaluateExecutionHealthy(recent) = "False"
                <=> Cardinality(Streak(recent)) >= MaxConsecutiveFailures
          /\ evaluateExecutionHealthy(new) = "False"
                <=> Cardinality(Streak(new)) >= MaxConsecutiveFailures
      BY <3>1, <3>2, AlarmMeans
    <3>4. Streak(recent') = Streak(new)
          /\ evaluateExecutionHealthy(recent') = evaluateExecutionHealthy(new)
      BY <3>2
    <3>. QED  BY <1>1, <2>2, <3>3, <3>4, StreakKept DEF ClearedBySuccess
  <2>. QED  BY <1>1, <2>1, <2>2, OnlyReconcileWrites
<1>2. HInv /\ OneJob /\ [Next]_vars =>
        [/\ Cardinality(Running(recent \cup recent')) + MaxConsecutiveFailures
              <= HistoryLimit
         /\ \A p \in recent : p.phase = "Failed" => StartedAfterCreation(p)
         => ClearedBySuccess]_vars
  BY <1>1
<1>. QED  BY <1>2, OneJobAlways, PTL DEF Spec, RoomyAlarmNeedsSuccess
=============================================================================
