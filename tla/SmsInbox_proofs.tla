-------------------------- MODULE SmsInbox_proofs --------------------------
(***************************************************************************)
(* The SIM is listed once at a time, the cache of the reader misses        *)
(* nothing, no message is handled twice and none is deleted unread, for    *)
(* every number of messages, places, checks and failures.                  *)
(*                                                                         *)
(* The lists of the model are cut by the recursive functions Only and      *)
(* Freed; the first lemmas show what they return, each by taking a least   *)
(* counterexample.  Then come what the member functions of the reader do   *)
(* to its record (the ...Effect lemmas), what they keep of it (Local), and *)
(* the steps of the reader and of the client.  The second half follows the *)
(* deletions, from what the client has read to the place of the SIM that   *)
(* is freed (ReadInv).                                                     *)
(***************************************************************************)
EXTENDS SmsInbox, TLAPS, WellFoundedInduction, FiniteSetTheorems, SequenceTheorems

LEMMA Least ==
  ASSUME NEW T \in SUBSET Nat, T # {}
  PROVE  \E x \in T : \A y \in T : x <= y
  <1>1. PICK x \in T : \A y \in T : ~(<<y, x>> \in OpToRel(<, Nat))
    BY WFMin, NatLessThanWellFounded, Zenon
  <1>2. \A y \in T : ~(y < x)
    BY <1>1 DEF OpToRel
  <1> QED
    BY <1>2

Keeps(kept, seq, S, n) ==
  kept = [k \in 0..n |-> IF k = 0 THEN <<>>
                         ELSE IF seq[k] \in S THEN Append(kept[k - 1], seq[k])
                         ELSE kept[k - 1]]

LEMMA KeptExists ==
  ASSUME NEW seq, NEW S, NEW n \in Nat
  PROVE  \E kept : Keeps(kept, seq, S, n)
  <1> DEFINE T == {m \in Nat : ~ \E kept : Keeps(kept, seq, S, m)}
  <1>1. SUFFICES ASSUME T # {} PROVE FALSE
    BY Zenon
  <1>2. PICK m \in T : \A y \in T : m <= y
    BY <1>1, Least
  <1>3. m # 0
    <2>1. Keeps([k \in 0..0 |-> <<>>], seq, S, 0)
      BY DEF Keeps
    <2> QED
      BY <1>2, <2>1
  <1>4. m - 1 \in Nat /\ m - 1 \notin T
    BY <1>2, <1>3
  <1>5. PICK g : Keeps(g, seq, S, m - 1)
    BY <1>4
  <1> DEFINE Step(acc, k) == IF seq[k] \in S THEN Append(acc, seq[k]) ELSE acc
             h == [k \in 0..m |-> IF k = m THEN Step(g[m - 1], m) ELSE g[k]]
  <1>6. \A k \in 0..(m - 1) : g[k] = IF k = 0 THEN <<>> ELSE Step(g[k - 1], k)
    BY <1>5, <1>4 DEF Keeps
  <1>7. ASSUME NEW k \in 0..m
        PROVE  h[k] = IF k = 0 THEN <<>> ELSE Step(h[k - 1], k)
    <2>1. CASE k = 0
      BY <2>1, <1>3, <1>4, <1>6
    <2>2. CASE k = m
      BY <2>2, <1>3, <1>4
    <2>3. CASE k \in 1..(m - 1)
      <3>1. h[k] = g[k] /\ h[k - 1] = g[k - 1]
        BY <2>3, <1>4
      <3> QED
        BY <3>1, <2>3, <1>6
    <2> QED
      BY <2>1, <2>2, <2>3, <1>4
  <1>8. Keeps(h, seq, S, m)
    BY <1>7, Zenon DEF Keeps
  <1> QED
    BY <1>2, <1>8

LEMMA OnlyKept ==
  ASSUME NEW seq \in Seq(Entries), NEW S \in SUBSET Entries
  PROVE  \E kept : Only[S][seq] = kept[Len(seq)] /\ Keeps(kept, seq, S, Len(seq))
  <1> DEFINE K == CHOOSE kept : Keeps(kept, seq, S, Len(seq))
  <1>1. Keeps(K, seq, S, Len(seq))
    <2>1. Len(seq) \in Nat
      OBVIOUS
    <2> QED
      BY <2>1, KeptExists, Zenon
  <1>2. Only[S][seq] = K[Len(seq)]
    BY Zenon DEF Only, Keeps
  <1> QED
    BY <1>1, <1>2

LEMMA AppendSet ==
  ASSUME NEW S, NEW s \in Seq(S), NEW x
  PROVE  ToSet(Append(s, x)) = ToSet(s) \cup {x}
  <1>1. DOMAIN Append(s, x) = 1..(Len(s) + 1) /\ DOMAIN s = 1..Len(s) /\ Len(s) \in Nat
    OBVIOUS
  <1>2. Append(s, x)[Len(s) + 1] = x /\ \A i \in 1..Len(s) : Append(s, x)[i] = s[i]
    OBVIOUS
  <1> QED
    BY <1>1, <1>2 DEF ToSet

Distinct(ids) == \A i, j \in DOMAIN ids : ids[i].msg = ids[j].msg => i = j

DistinctIn(ids, S) ==
  \A i, j \in DOMAIN ids : ids[i] \in S /\ ids[j] \in S /\ ids[i].msg = ids[j].msg => i = j

LEMMA OnlyProperties ==
  ASSUME NEW seq \in Seq(Entries), NEW S \in SUBSET Entries
  PROVE  /\ Only[S][seq] \in Seq(S)
         /\ ToSet(Only[S][seq]) = ToSet(seq) \cap S
         /\ DistinctIn(seq, S) => Distinct(Only[S][seq])
         /\ Distinct(seq) => Distinct(Only[S][seq])
  <1>1. PICK kept : Only[S][seq] = kept[Len(seq)] /\ Keeps(kept, seq, S, Len(seq))
    BY OnlyKept
  <1> DEFINE P(n) == /\ kept[n] \in Seq(S)
                     /\ ToSet(kept[n]) = {seq[i] : i \in 1..n} \cap S
                     /\ DistinctIn(seq, S) => Distinct(kept[n])
             T == {n \in 0..Len(seq) : ~P(n)}
  <1>2. Len(seq) \in Nat /\ DOMAIN seq = 1..Len(seq)
    OBVIOUS
  <1>3. T = {}
    <2>1. SUFFICES ASSUME T # {} PROVE FALSE
      BY Zenon
    <2>2. PICK n \in T : \A y \in T : n <= y
      <3>1. T \in SUBSET Nat
        BY <1>2
      <3> QED
        BY <2>1, <3>1, Least
    <2>3. kept[0] = <<>>
      BY <1>1, <1>2 DEF Keeps
    <2>4. n # 0
      <3>1. DOMAIN kept[0] = {} /\ kept[0] \in Seq(S)
        BY <2>3
      <3>2. {seq[i] : i \in 1..0} = {}
        OBVIOUS
      <3>3. P(0)
        BY <3>1, <3>2 DEF ToSet, Distinct
      <3> QED
        BY <2>2, <3>3
    <2>5. n - 1 \in 0..Len(seq) /\ P(n - 1)
      <3> HIDE DEF P
      <3>1. n - 1 \in 0..Len(seq) /\ ~(n <= n - 1)
        BY <2>2, <2>4, <1>2
      <3> QED
        BY <3>1, <2>2
    <2>6. kept[n] = IF seq[n] \in S THEN Append(kept[n - 1], seq[n]) ELSE kept[n - 1]
      BY <1>1, <1>2, <2>2, <2>4 DEF Keeps
    <2>10. n \in 1..Len(seq)
      <3> HIDE DEF P
      <3> QED
        BY <2>2, <2>4, <1>2
    <2>7. {seq[i] : i \in 1..n} = {seq[i] : i \in 1..(n - 1)} \cup {seq[n]}
      BY <2>10, <1>2
    <2>8. CASE seq[n] \notin S
      BY <2>8, <2>2, <2>5, <2>6, <2>7
    <2>9. CASE seq[n] \in S
      <3> DEFINE s == kept[n - 1]
      <3>1. s \in Seq(S) /\ kept[n] = Append(s, seq[n])
        BY <2>9, <2>5, <2>6
      <3>2. kept[n] \in Seq(S) /\ ToSet(kept[n]) = ToSet(s) \cup {seq[n]}
        BY <3>1, <2>9, AppendSet
      <3>3. ASSUME DistinctIn(seq, S) PROVE Distinct(kept[n])
        <4>1. \A i \in DOMAIN s : \E j \in 1..(n - 1) : s[i] = seq[j] /\ seq[j] \in S
          BY <2>5, <3>1 DEF ToSet
        <4>2. \A i \in DOMAIN s : s[i].msg # seq[n].msg
          BY <4>1, <3>3, <2>9, <2>10, <1>2 DEF DistinctIn
        <4>3. Distinct(s)
          BY <2>5, <3>3
        <4> QED
          BY <4>2, <4>3, <3>1, <2>9 DEF Distinct
      <3> QED
        BY <3>2, <3>3, <2>2, <2>5, <2>7, <2>9
    <2> QED
      BY <2>8, <2>9
  <1>4. P(Len(seq))
    BY <1>2, <1>3
  <1>5. ToSet(seq) = {seq[i] : i \in 1..Len(seq)}
    BY <1>2 DEF ToSet
  <1>6. Distinct(seq) => DistinctIn(seq, S)
    BY DEF Distinct, DistinctIn
  <1> QED
    BY <1>1, <1>4, <1>5, <1>6

-----------------------------------------------------------------------------
\* Lists

LEMMA SeqIn ==
  ASSUME NEW A, NEW B, NEW s \in Seq(A), ToSet(s) \subseteq B
  PROVE  s \in Seq(B)
  <1>1. Len(s) \in Nat /\ DOMAIN s = 1..Len(s) /\ s = [i \in 1..Len(s) |-> s[i]]
    OBVIOUS
  <1>2. \A i \in 1..Len(s) : s[i] \in B
    BY <1>1 DEF ToSet
  <1> QED
    BY <1>1, <1>2

LEMMA SetOfSeq ==
  ASSUME NEW A, NEW s \in Seq(A)
  PROVE  /\ ToSet(s) \subseteq A
         /\ (ToSet(s) = {} <=> s = <<>>)
         /\ \A i \in DOMAIN s : s[i] \in ToSet(s)
         /\ \A x \in ToSet(s) : \E i \in DOMAIN s : s[i] = x
  BY DEF ToSet

LEMMA ConcatSet ==
  ASSUME NEW A, NEW s \in Seq(A), NEW t \in Seq(A)
  PROVE  ToSet(s \o t) = ToSet(s) \cup ToSet(t)
  <1>1. /\ Len(s) \in Nat /\ Len(t) \in Nat
        /\ DOMAIN s = 1..Len(s) /\ DOMAIN t = 1..Len(t)
        /\ DOMAIN (s \o t) = 1..(Len(s) + Len(t))
        /\ \A i \in 1..Len(s) : (s \o t)[i] = s[i]
        /\ \A i \in 1..Len(t) : (s \o t)[Len(s) + i] = t[i]
    OBVIOUS
  <1>2. ToSet(s \o t) \subseteq ToSet(s) \cup ToSet(t)
    <2> SUFFICES ASSUME NEW i \in 1..(Len(s) + Len(t))
                 PROVE  (s \o t)[i] \in ToSet(s) \cup ToSet(t)
      BY <1>1 DEF ToSet
    <2>1. CASE i \in 1..Len(s)
      BY <2>1, <1>1 DEF ToSet
    <2>2. CASE i - Len(s) \in 1..Len(t)
      <3>1. (s \o t)[Len(s) + (i - Len(s))] = t[i - Len(s)] /\ Len(s) + (i - Len(s)) = i
        BY <2>2, <1>1
      <3> QED
        BY <3>1, <2>2, <1>1 DEF ToSet
    <2> QED
      BY <2>1, <2>2, <1>1
  <1>3. ToSet(s) \cup ToSet(t) \subseteq ToSet(s \o t)
    <2>1. \A i \in 1..Len(s) : s[i] \in ToSet(s \o t)
      BY <1>1 DEF ToSet
    <2>2. \A i \in 1..Len(t) : t[i] \in ToSet(s \o t)
      <3> TAKE i \in 1..Len(t)
      <3>1. (s \o t)[Len(s) + i] = t[i] /\ Len(s) + i \in 1..(Len(s) + Len(t))
        BY <1>1
      <3> QED
        BY <3>1, <1>1 DEF ToSet
    <2> QED
      BY <2>1, <2>2, <1>1 DEF ToSet
  <1> QED
    BY <1>2, <1>3

LEMMA TailSet ==
  ASSUME NEW A, NEW s \in Seq(A), s # <<>>
  PROVE  /\ Tail(s) \in Seq(A) /\ Head(s) \in A
         /\ ToSet(Tail(s)) \subseteq ToSet(s)
         /\ ToSet(s) = {Head(s)} \cup ToSet(Tail(s))
         /\ Head(s) = s[1]
         /\ DOMAIN Tail(s) = 1..(Len(s) - 1) /\ Len(s) \in Nat \ {0}
         /\ \A i \in DOMAIN Tail(s) : Tail(s)[i] = s[i + 1]
  <1>1. /\ Tail(s) \in Seq(A) /\ Head(s) \in A /\ Head(s) = s[1]
        /\ DOMAIN Tail(s) = 1..(Len(s) - 1) /\ Len(s) \in Nat \ {0}
        /\ DOMAIN s = 1..Len(s)
        /\ \A i \in DOMAIN Tail(s) : Tail(s)[i] = s[i + 1]
    OBVIOUS
  <1>2. ToSet(Tail(s)) \subseteq ToSet(s)
    BY <1>1 DEF ToSet
  <1>3. s[1] \in ToSet(s)
    BY <1>1 DEF ToSet
  <1>4. \A i \in 2..Len(s) : s[i] \in ToSet(Tail(s))
    <2> TAKE i \in 2..Len(s)
    <2>1. i - 1 \in DOMAIN Tail(s) /\ Tail(s)[i - 1] = s[i]
      BY <1>1
    <2> QED
      BY <2>1 DEF ToSet
  <1>5. ToSet(s) \subseteq {s[1]} \cup ToSet(Tail(s))
    BY <1>1, <1>4 DEF ToSet
  <1> QED
    BY <1>1, <1>2, <1>3, <1>5

LEMMA Withouts ==
  ASSUME NEW seq \in Seq(Ids), NEW S
  PROVE  /\ Without(seq, S) \in Seq(Ids)
         /\ ToSet(Without(seq, S)) = ToSet(seq) \ S
         /\ Distinct(seq) => Distinct(Without(seq, S))
  <1>1. Ids \subseteq Entries
    BY MessagesAssumption DEF Ids, Entries, Msgs
  <1>2. seq \in Seq(Entries) /\ Entries \ S \in SUBSET Entries
    BY <1>1, SetOfSeq, SeqIn
  <1>3. ToSet(seq) \subseteq Ids
    BY SetOfSeq
  <1>4. /\ Without(seq, S) \in Seq(Entries \ S)
        /\ ToSet(Without(seq, S)) = ToSet(seq) \cap (Entries \ S)
        /\ Distinct(seq) => Distinct(Without(seq, S))
    BY <1>2, OnlyProperties, Zenon DEF Without
  <1>5. ToSet(Without(seq, S)) = ToSet(seq) \ S
    BY <1>1, <1>3, <1>4
  <1> QED
    BY <1>3, <1>4, <1>5, SeqIn

LEMMA RemoveAts ==
  ASSUME NEW A, NEW s \in Seq(A), NEW i \in DOMAIN s
  PROVE  RemoveAt(s, i) \in Seq(A) /\ ToSet(RemoveAt(s, i)) \subseteq ToSet(s)
  <1>1. Len(s) \in Nat /\ DOMAIN s = 1..Len(s) /\ i \in 1..Len(s)
    OBVIOUS
  <1>2. \A a, b \in Int : 1 <= a /\ b <= Len(s) =>
           SubSeq(s, a, b) \in Seq(A) /\ ToSet(SubSeq(s, a, b)) \subseteq ToSet(s)
    <2> TAKE a, b \in Int
    <2> HAVE 1 <= a /\ b <= Len(s)
    <2>1. SubSeq(s, a, b) \in Seq(A)
      BY <1>1
    <2>2. \A k \in DOMAIN SubSeq(s, a, b) : SubSeq(s, a, b)[k] = s[a + k - 1] /\ a + k - 1 \in 1..Len(s)
      BY <1>1
    <2> QED
      BY <2>1, <2>2, <1>1 DEF ToSet
  <1>3. /\ SubSeq(s, 1, i - 1) \in Seq(A) /\ ToSet(SubSeq(s, 1, i - 1)) \subseteq ToSet(s)
        /\ SubSeq(s, i + 1, Len(s)) \in Seq(A) /\ ToSet(SubSeq(s, i + 1, Len(s))) \subseteq ToSet(s)
    BY <1>1, <1>2
  <1>4. RemoveAt(s, i) = SubSeq(s, 1, i - 1) \o SubSeq(s, i + 1, Len(s))
    BY Zenon DEF RemoveAt
  <1>5. \A u, v \in Seq(A) : u \o v \in Seq(A) /\ ToSet(u \o v) = ToSet(u) \cup ToSet(v)
    BY ConcatSet
  <1> DEFINE u == SubSeq(s, 1, i - 1)
             v == SubSeq(s, i + 1, Len(s))
  <1>6. u \in Seq(A) /\ ToSet(u) \subseteq ToSet(s) /\ v \in Seq(A) /\ ToSet(v) \subseteq ToSet(s)
    BY <1>3
  <1>7. RemoveAt(s, i) = u \o v
    BY <1>4
  <1> HIDE DEF u, v
  <1> QED
    BY <1>5, <1>6, <1>7

-----------------------------------------------------------------------------
\* The loop that frees places

Accs == [calls : Seq(Requests), ids : Seq(Ids)]

\* What the loop has done when it has run over acc, beginning with ids.
Freeing(acc, ids) ==
  /\ acc \in Accs
  /\ ToSet(acc.ids) \subseteq ToSet(ids)
  /\ \A i \in DOMAIN acc.calls : /\ acc.calls[i].req = "delete"
                                 /\ acc.calls[i].id \in ToSet(ids) \ ToSet(acc.ids)
  /\ \A i, j \in DOMAIN acc.calls : acc.calls[i].id = acc.calls[j].id => i = j

Start(ids) == [calls |-> <<>>, ids |-> ids]
Frees(freed, ids, n) ==
  freed = [k \in 0..n |-> IF k = 0 THEN Start(ids)
                          ELSE FreeOne(freed[k - 1])]

LEMMA FreesExists ==
  ASSUME NEW ids, NEW n \in Nat
  PROVE  \E freed : Frees(freed, ids, n)
  <1> DEFINE T == {m \in Nat : ~ \E freed : Frees(freed, ids, m)}
  <1>1. SUFFICES ASSUME T # {} PROVE FALSE
    BY Zenon
  <1>2. PICK m \in T : \A y \in T : m <= y
    BY <1>1, Least
  <1>3. m # 0
    <2>1. Frees([k \in 0..0 |-> Start(ids)], ids, 0)
      BY DEF Frees
    <2> QED
      BY <1>2, <2>1
  <1>4. m - 1 \in Nat /\ m - 1 \notin T
    BY <1>2, <1>3
  <1>5. PICK g : Frees(g, ids, m - 1)
    BY <1>4
  <1> DEFINE h == [k \in 0..m |-> IF k = m THEN FreeOne(g[m - 1]) ELSE g[k]]
  <1>6. \A k \in 0..(m - 1) : g[k] = IF k = 0 THEN Start(ids) ELSE FreeOne(g[k - 1])
    BY <1>5, <1>4 DEF Frees
  <1>7. ASSUME NEW k \in 0..m
        PROVE  h[k] = IF k = 0 THEN Start(ids) ELSE FreeOne(h[k - 1])
    <2>1. CASE k = 0
      BY <2>1, <1>3, <1>4, <1>6
    <2>2. CASE k = m
      BY <2>2, <1>3, <1>4
    <2>3. CASE k \in 1..(m - 1)
      <3>1. h[k] = g[k] /\ h[k - 1] = g[k - 1]
        BY <2>3, <1>4
      <3> QED
        BY <3>1, <2>3, <1>6
    <2> QED
      BY <2>1, <2>2, <2>3, <1>4
  <1>8. Frees(h, ids, m)
    BY <1>7, Zenon DEF Frees
  <1> QED
    BY <1>2, <1>8

LEMMA OldestExists ==
  ASSUME NEW ids \in Seq(Ids), ids # <<>>
  PROVE  Oldest(ids) \in DOMAIN ids
  <1> DEFINE T == {ids[i].msg : i \in DOMAIN ids}
  <1>0. \A i \in DOMAIN ids : ids[i] \in Ids
    BY ElementOfSeq
  <1>a. Len(ids) \in Nat \ {0} /\ DOMAIN ids = 1..Len(ids)
    <2>1. Len(ids) \in Nat \ {0}
      BY EmptySeq
    <2> QED
      BY <2>1, LenProperties
  <1>1. DOMAIN ids # {} /\ \A i \in DOMAIN ids : ids[i].msg \in Nat
    <2>1. 1 \in DOMAIN ids
      BY <1>a
    <2>2. \A x \in Ids : x.msg \in Nat
      BY DEF Ids, Msgs
    <2> QED
      BY <1>0, <2>1, <2>2
  <1>2. PICK x \in T : \A y \in T : x <= y
    BY <1>1, Least
  <1>3. \E i \in DOMAIN ids : \A j \in DOMAIN ids : ids[i].msg <= ids[j].msg
    BY <1>2
  <1> QED
    BY <1>3, Zenon DEF Oldest

LEMMA FreeOnePreserves ==
  ASSUME NEW ids \in Seq(Ids), NEW acc, Freeing(acc, ids)
  PROVE  Freeing(FreeOne(acc), ids)
  <1>1. CASE acc.ids = <<>>
    BY <1>1 DEF FreeOne
  <1>2. CASE acc.ids # <<>>
    <2> DEFINE k == Oldest(acc.ids)
               id == acc.ids[k]
               rest == Without(acc.ids, {id})
               left == IF k \in DOMAIN rest THEN RemoveAt(rest, k) ELSE rest
               call == [req |-> "delete", id |-> id]
               calls == Append(acc.calls, call)
    <2>1. acc.ids \in Seq(Ids) /\ acc.calls \in Seq(Requests)
      BY DEF Freeing, Accs
    <2>2. k \in DOMAIN acc.ids
      BY <2>1, <1>2, OldestExists
    <2>3. id \in Ids /\ id \in ToSet(acc.ids)
      BY <2>1, <2>2 DEF ToSet
    <2> HIDE DEF k, id
    <2>4. rest \in Seq(Ids) /\ ToSet(rest) = ToSet(acc.ids) \ {id}
      BY <2>1, Withouts, Zenon
    <2> HIDE DEF rest
    <2>5. left \in Seq(Ids) /\ ToSet(left) \subseteq ToSet(rest)
      BY <2>4, RemoveAts, Zenon
    <2> HIDE DEF left
    <2>6. FreeOne(acc) = [calls |-> calls, ids |-> left]
      BY <1>2, Zenon DEF FreeOne, left, rest, id, k
    <2>7. call \in Requests /\ call.req = "delete" /\ call.id = id
      BY <2>3 DEF Requests
    <2> HIDE DEF call
    <2>8. /\ calls \in Seq(Requests)
          /\ DOMAIN calls = 1..(Len(acc.calls) + 1) /\ Len(acc.calls) \in Nat
          /\ calls[Len(acc.calls) + 1] = call
          /\ \A i \in DOMAIN acc.calls : calls[i] = acc.calls[i]
          /\ DOMAIN acc.calls = 1..Len(acc.calls)
      BY <2>1, <2>7
    <2>9. FreeOne(acc) \in Accs /\ FreeOne(acc).calls = calls /\ FreeOne(acc).ids = left
      BY <2>6, <2>5, <2>8 DEF Accs
    <2> HIDE DEF calls
    <2>10. id \in ToSet(ids) /\ ToSet(left) \subseteq ToSet(ids) \ {id}
      BY <2>3, <2>4, <2>5 DEF Freeing
    <2>11. ASSUME NEW i \in DOMAIN calls
           PROVE  calls[i].req = "delete" /\ calls[i].id \in ToSet(ids) \ ToSet(left)
      <3>1. CASE i = Len(acc.calls) + 1
        BY <3>1, <2>7, <2>8, <2>10
      <3>2. CASE i \in DOMAIN acc.calls
        BY <3>2, <2>8, <2>4, <2>5 DEF Freeing
      <3> QED
        BY <3>1, <3>2, <2>8
    <2>12. \A i \in DOMAIN acc.calls : acc.calls[i].id # id
      BY <2>3 DEF Freeing
    <2>13. \A i, j \in DOMAIN calls : calls[i].id = calls[j].id => i = j
      <3> SUFFICES ASSUME NEW i \in DOMAIN calls, NEW j \in DOMAIN calls,
                          calls[i].id = calls[j].id
                   PROVE  i = j
        OBVIOUS
      <3>1. CASE i \in DOMAIN acc.calls /\ j \in DOMAIN acc.calls
        BY <3>1, <2>8 DEF Freeing
      <3>2. CASE i = Len(acc.calls) + 1
        BY <3>2, <2>7, <2>8, <2>12
      <3>3. CASE j = Len(acc.calls) + 1
        BY <3>3, <2>7, <2>8, <2>12
      <3> QED
        BY <3>1, <3>2, <3>3, <2>8
    <2> QED
      BY <2>9, <2>10, <2>11, <2>13 DEF Freeing
  <1> QED
    BY <1>1, <1>2

LEMMA FreedProperties ==
  ASSUME NEW ids \in Seq(Ids), NEW n \in Nat
  PROVE  Freeing(Freed(ids, n), ids)
  <1> DEFINE K == CHOOSE freed : Frees(freed, ids, n)
  <1>1. Frees(K, ids, n)
    BY FreesExists, Zenon
  <1>2. Freed(ids, n) = K[n]
    BY Zenon DEF Freed, Frees, Start
  <1> HIDE DEF K
  <1> DEFINE T == {k \in 0..n : ~Freeing(K[k], ids)}
  <1>3. T = {}
    <2>1. SUFFICES ASSUME T # {} PROVE FALSE
      BY Zenon
    <2>2. PICK k \in T : \A y \in T : k <= y
      <3>1. T \in SUBSET Nat
        OBVIOUS
      <3> QED
        BY <2>1, <3>1, Least
    <2>3. K[0] = [calls |-> <<>>, ids |-> ids]
      BY <1>1 DEF Frees, Start
    <2>4. Freeing(K[0], ids)
      BY <2>3 DEF Freeing, Accs
    <2>5. k # 0
      BY <2>2, <2>4
    <2>6. k - 1 \in 0..n /\ ~(k <= k - 1)
      BY <2>2, <2>5
    <2>7. Freeing(K[k - 1], ids)
      BY <2>2, <2>6
    <2>8. K[k] = FreeOne(K[k - 1])
      BY <1>1, <2>2, <2>5, Zenon DEF Frees
    <2> QED
      BY <2>2, <2>7, <2>8, FreeOnePreserves
  <1> QED
    BY <1>2, <1>3

-----------------------------------------------------------------------------
\* What the member functions do

Cmds(cs) == \A i \in DOMAIN cs : cs[i].cmd # "list" /\ cs[i].cmd # "delete"

LEMMA CommandType ==
  /\ \A cmd \in {"options", "notify", "usage", "list", "delete"} : Command(cmd) \in Commands
  /\ \A cmd : Command(cmd).cmd = cmd /\ Command(cmd).place = 0
  BY SlotsAssumption DEF Command, Commands

LEMMA QueueEffect ==
  ASSUME NEW r \in Readers, NEW cs \in Seq(Commands)
  PROVE  /\ Queue(r, cs) \in Readers
         /\ Queue(r, cs) = [r EXCEPT !.at = r.at \o cs]
  <1>1. r.at \in Seq(Commands)
    BY DEF Readers
  <1>2. r.at \o cs \in Seq(Commands)
    BY <1>1
  <1> QED
    BY <1>2 DEF Queue, Readers

LEMMA EmitEffect ==
  ASSUME NEW r \in Readers, NEW signal \in Signals
  PROVE  /\ Emit(r, signal) \in Readers
         /\ Emit(r, signal) = [r EXCEPT !.out = Append(r.out, signal)]
  <1>1. r.out \in Seq(Signals)
    BY DEF Readers
  <1>2. Append(r.out, signal) \in Seq(Signals)
    BY <1>1
  <1> QED
    BY <1>2 DEF Emit, Readers

CountSignal(r) == [sig |-> "count", n |-> Len(r.pending)]

LEMMA CountEffect ==
  ASSUME NEW r \in Readers
  PROVE  /\ Count(r) \in Readers
         /\ Count(r) = [r EXCEPT !.out = Append(r.out, CountSignal(r))]
         /\ CountSignal(r) \in Signals
  <1>1. CountSignal(r) \in Signals
    <2>1. Len(r.pending) \in Nat
      BY DEF Readers
    <2> QED
      BY <2>1 DEF CountSignal, Signals
  <1>2. Count(r) = Emit(r, CountSignal(r))
    BY DEF Count, CountSignal
  <1> QED
    BY <1>1, <1>2, EmitEffect

ListCmds == <<Command("usage"), Command("list")>>

LEMMA FetchEffect ==
  ASSUME NEW r \in Readers
  PROVE  /\ FetchMessages(r) \in Readers
         /\ FetchMessages(r) = [r EXCEPT !.fetching = TRUE, !.pending = r.pseudoInbox,
                                         !.at = r.at \o ListCmds]
         /\ ListCmds \in Seq(Commands) /\ Len(ListCmds) = 2
         /\ ListCmds[1] = Command("usage") /\ ListCmds[2] = Command("list")
  <1>1. Command("usage") \in Commands /\ Command("list") \in Commands
    BY CommandType
  <1>2. /\ ListCmds \in Seq(Commands) /\ Len(ListCmds) = 2
        /\ ListCmds[1] = Command("usage") /\ ListCmds[2] = Command("list")
    BY <1>1 DEF ListCmds
  <1> DEFINE s == [r EXCEPT !.fetching = TRUE, !.pending = r.pseudoInbox]
  <1>3. s \in Readers /\ FetchMessages(r) = Queue(s, ListCmds) /\ s.at = r.at
    BY DEF Readers, FetchMessages, ListCmds
  <1>4. FetchMessages(r) \in Readers /\ FetchMessages(r) = [s EXCEPT !.at = s.at \o ListCmds]
    BY <1>2, <1>3, QueueEffect
  <1> QED
    BY <1>2, <1>3, <1>4 DEF Readers

NextSignal(r) == IF r.pendingPosn < Len(r.pending)
                 THEN [sig |-> "fetched", id |-> r.pending[r.pendingPosn + 1]]
                 ELSE [sig |-> "end"]

LEMMA NextEffect ==
  ASSUME NEW r \in Readers
  PROVE  /\ NextMessage(r) \in Readers
         /\ NextMessage(r) = [r EXCEPT !.out = Append(r.out, NextSignal(r)),
               !.pendingPosn = IF r.pendingPosn < Len(r.pending) THEN r.pendingPosn + 1 ELSE 0]
         /\ NextSignal(r) \in Signals
  <1>1. CASE r.pendingPosn < Len(r.pending)
    <2>1. r.pendingPosn \in Nat /\ r.pendingPosn + 1 \in DOMAIN r.pending /\ r.pending[r.pendingPosn + 1] \in Ids
      BY <1>1 DEF Readers
    <2>2. NextSignal(r) = [sig |-> "fetched", id |-> r.pending[r.pendingPosn + 1]]
      BY <1>1 DEF NextSignal
    <2>3. NextSignal(r) \in Signals
      BY <2>1, <2>2 DEF Signals
    <2>4. NextMessage(r) = [Emit(r, NextSignal(r)) EXCEPT !.pendingPosn = @ + 1]
      BY <1>1, <2>2 DEF NextMessage
    <2>5. /\ Emit(r, NextSignal(r)) \in Readers
          /\ Emit(r, NextSignal(r)) = [r EXCEPT !.out = Append(r.out, NextSignal(r))]
      BY <2>3, EmitEffect
    <2> DEFINE signal == NextSignal(r)
               s == [r EXCEPT !.out = Append(r.out, signal)]
    <2> HIDE DEF signal
    <2>6. s \in Readers /\ s.pendingPosn = r.pendingPosn
      BY <2>5 DEF Readers, signal
    <2>7. NextMessage(r) = [s EXCEPT !.pendingPosn = r.pendingPosn + 1]
      BY <2>4, <2>5, <2>6 DEF signal
    <2>8. [s EXCEPT !.pendingPosn = r.pendingPosn + 1] =
            [r EXCEPT !.out = Append(r.out, signal), !.pendingPosn = r.pendingPosn + 1]
      BY <2>1 DEF Readers
    <2>9. NextMessage(r) \in Readers
      <3>1. \A t \in Readers, n \in Nat : [t EXCEPT !.pendingPosn = n] \in Readers
        BY DEF Readers
      <3> HIDE DEF s
      <3> QED
        BY <3>1, <2>1, <2>6, <2>7
    <2> QED
      BY <1>1, <2>3, <2>7, <2>8, <2>9 DEF signal
  <1>2. CASE ~(r.pendingPosn < Len(r.pending))
    <2>2. NextSignal(r) = [sig |-> "end"]
      BY <1>2 DEF NextSignal
    <2>3. NextSignal(r) \in Signals
      BY <2>2 DEF Signals
    <2>4. NextMessage(r) = [Emit(r, NextSignal(r)) EXCEPT !.pendingPosn = 0]
      BY <1>2, <2>2 DEF NextMessage
    <2>5. /\ Emit(r, NextSignal(r)) \in Readers
          /\ Emit(r, NextSignal(r)) = [r EXCEPT !.out = Append(r.out, NextSignal(r))]
      BY <2>3, EmitEffect
    <2> DEFINE signal == NextSignal(r)
               s == [r EXCEPT !.out = Append(r.out, signal)]
    <2> HIDE DEF signal
    <2>6. s \in Readers
      BY <2>5 DEF signal
    <2>7. NextMessage(r) = [s EXCEPT !.pendingPosn = 0]
      BY <2>4, <2>5, <2>6 DEF signal
    <2>8. [s EXCEPT !.pendingPosn = 0] =
            [r EXCEPT !.out = Append(r.out, signal), !.pendingPosn = 0]
      BY DEF Readers
    <2>9. NextMessage(r) \in Readers
      <3>1. \A t \in Readers, n \in Nat : [t EXCEPT !.pendingPosn = n] \in Readers
        BY DEF Readers
      <3> HIDE DEF s
      <3> QED
        BY <3>1, <2>6, <2>7
    <2> QED
      BY <1>2, <2>3, <2>7, <2>8, <2>9 DEF signal
  <1> QED
    BY <1>1, <1>2

LEMMA CheckEffect ==
  ASSUME NEW r \in Readers, NEW force \in BOOLEAN
  PROVE  \/ /\ r.haveCached \/ (r.initializing /\ ~force)
            /\ Check(r, force) = Count(r)
         \/ /\ r.fetching
            /\ Check(r, force) \in Readers
            /\ Check(r, force) = [r EXCEPT !.pendingCheck = TRUE]
         \/ /\ ~r.fetching /\ ~r.haveCached /\ ~(r.initializing /\ ~force)
            /\ [r EXCEPT !.pendingCheck = TRUE] \in Readers
            /\ Check(r, force) = FetchMessages([r EXCEPT !.pendingCheck = TRUE])
  BY DEF Check, Readers

\* The places of the SIM that deleteMessage() deletes, for ids.
Stored(ids) == Only[StoredIds][ids]
Deletions(ids) == [i \in DOMAIN Stored(ids) |-> [cmd |-> "delete", place |-> Stored(ids)[i].place]]

LEMMA StoredProperties ==
  ASSUME NEW ids \in Seq(Ids)
  PROVE  /\ Stored(ids) \in Seq(StoredIds)
         /\ ToSet(Stored(ids)) = {id \in ToSet(ids) : id.place # 0}
         /\ Distinct(ids) => Distinct(Stored(ids))
         /\ Len(Stored(ids)) \in Nat
  <1>1. Ids \subseteq Entries /\ StoredIds \in SUBSET Entries
    BY MessagesAssumption, SlotsAssumption DEF Ids, Entries, Msgs, StoredIds, Places
  <1>2. ids \in Seq(Entries)
    BY <1>1, SetOfSeq, SeqIn
  <1>3. /\ Stored(ids) \in Seq(StoredIds)
        /\ ToSet(Stored(ids)) = ToSet(ids) \cap StoredIds
        /\ Distinct(ids) => Distinct(Stored(ids))
    BY <1>1, <1>2, OnlyProperties, Zenon DEF Stored
  <1>4. \A id \in Ids : id \in StoredIds <=> id.place # 0
    BY SlotsAssumption DEF Ids, StoredIds, Places
  <1>5. ToSet(ids) \subseteq Ids
    BY SetOfSeq
  <1> QED
    BY <1>3, <1>4, <1>5

LEMMA DeletionsProperties ==
  ASSUME NEW ids \in Seq(Ids)
  PROVE  /\ Deletions(ids) \in Seq(Commands)
         /\ DOMAIN Deletions(ids) = DOMAIN Stored(ids)
         /\ \A i \in DOMAIN Deletions(ids) :
               /\ Deletions(ids)[i].cmd = "delete"
               /\ Deletions(ids)[i].place = Stored(ids)[i].place
               /\ Deletions(ids)[i] = [cmd |-> "delete", place |-> Stored(ids)[i].place]
               /\ Stored(ids)[i] \in StoredIds
  <1> DEFINE stored == Stored(ids)
  <1>1. stored \in Seq(StoredIds) /\ Len(stored) \in Nat /\ DOMAIN stored = 1..Len(stored)
    BY StoredProperties
  <1> HIDE DEF stored
  <1>2. \A i \in DOMAIN stored : stored[i] \in StoredIds /\ stored[i].place \in 0..Slots
    <2>1. \A i \in DOMAIN stored : stored[i] \in StoredIds
      BY <1>1
    <2>2. \A id \in StoredIds : id.place \in 0..Slots
      BY SlotsAssumption DEF StoredIds, Places
    <2> QED
      BY <2>1, <2>2
  <1>3. \A i \in DOMAIN stored : [cmd |-> "delete", place |-> stored[i].place] \in Commands
    BY <1>2 DEF Commands
  <1>4. Deletions(ids) = [i \in 1..Len(stored) |-> [cmd |-> "delete", place |-> stored[i].place]]
    BY <1>1 DEF Deletions, stored
  <1>5. Deletions(ids) \in Seq(Commands)
    BY <1>1, <1>3, <1>4
  <1> QED
    BY <1>1, <1>2, <1>4, <1>5 DEF stored

LEMMA DeleteEffect ==
  ASSUME NEW r \in Readers, NEW ids \in Seq(Ids)
  PROVE  /\ DeleteMessages(r, ids) \in Readers
         /\ DeleteMessages(r, ids) =
              [r EXCEPT !.pending = Without(r.pending, ToSet(ids)),
                        !.pseudoInbox = Without(r.pseudoInbox, ToSet(ids)),
                        !.overtaken = r.overtaken \/ (Stored(ids) # <<>> /\ Listing(r)),
                        !.used = UsedWithout(r.used, Len(Stored(ids))),
                        !.at = r.at \o Deletions(ids)]
  <1> DEFINE p == Without(r.pending, ToSet(ids))
             q == Without(r.pseudoInbox, ToSet(ids))
             o == r.overtaken \/ (Stored(ids) # <<>> /\ Listing(r))
             u == UsedWithout(r.used, Len(Stored(ids)))
             d == Deletions(ids)
             s == [r EXCEPT !.pending = p, !.pseudoInbox = q, !.overtaken = o, !.used = u]
  <1>1. p \in Seq(Ids) /\ q \in Seq(Ids)
    <2>1. r.pending \in Seq(Ids) /\ r.pseudoInbox \in Seq(Ids)
      BY DEF Readers
    <2> QED
      BY <2>1, Withouts
  <1>2. u \in 0..Slots
    BY StoredProperties, SlotsAssumption DEF UsedWithout, Readers
  <1>3. d \in Seq(Commands)
    BY DeletionsProperties
  <1>4. o \in BOOLEAN
    BY DEF Readers, Listing
  <1>5. DeleteMessages(r, ids) = Queue(s, d)
    BY Zenon DEF DeleteMessages, Stored, Deletions
  <1> HIDE DEF p, q, o, u, d
  <1>6. s \in Readers /\ s.at = r.at
    BY <1>1, <1>2, <1>4 DEF Readers
  <1>7. Queue(s, d) \in Readers /\ Queue(s, d) = [s EXCEPT !.at = r.at \o d]
    <2> HIDE DEF s
    <2> QED
      BY <1>3, <1>6, QueueEffect
  <1>8. [s EXCEPT !.at = r.at \o d] = [r EXCEPT !.pending = p, !.pseudoInbox = q,
             !.overtaken = o, !.used = u, !.at = r.at \o d]
    BY DEF Readers
  <1> QED
    BY <1>5, <1>7, <1>8 DEF p, q, o, u, d

\* The datagrams among ids, and their messages.
DataOf(ids) == Only[DatagramIds][ids]
MsgSeq(ids) == [i \in DOMAIN ids |-> ids[i].msg]

LEMMA DataProperties ==
  ASSUME NEW ids \in Seq(Ids)
  PROVE  /\ DataOf(ids) \in Seq(Ids)
         /\ ToSet(DataOf(ids)) = {id \in ToSet(ids) : id.msg \in Datagrams}
         /\ Distinct(ids) => Distinct(DataOf(ids))
  <1>1. Ids \subseteq Entries /\ DatagramIds \in SUBSET Entries /\ DatagramIds \subseteq Ids
    <2>1. Msgs \subseteq 0..MaxMessages /\ Datagrams \subseteq Msgs
      BY MessagesAssumption, KindsAssumption DEF Msgs
    <2> QED
      BY <2>1 DEF Ids, Entries, DatagramIds
  <1>2. ids \in Seq(Entries)
    BY <1>1, SetOfSeq, SeqIn
  <1>3. /\ DataOf(ids) \in Seq(DatagramIds)
        /\ ToSet(DataOf(ids)) = ToSet(ids) \cap DatagramIds
        /\ Distinct(ids) => Distinct(DataOf(ids))
    BY <1>1, <1>2, OnlyProperties, Zenon DEF DataOf
  <1>4. \A id \in Ids : id \in DatagramIds <=> id.msg \in Datagrams
    BY DEF Ids, DatagramIds
  <1>5. ToSet(ids) \subseteq Ids
    BY SetOfSeq
  <1>6. DataOf(ids) \in Seq(Ids)
    BY <1>1, <1>3, SetOfSeq, SeqIn
  <1> QED
    BY <1>3, <1>4, <1>5, <1>6

LEMMA MsgSeqProperties ==
  ASSUME NEW ids \in Seq(Ids)
  PROVE  /\ MsgSeq(ids) \in Seq(Msgs)
         /\ DOMAIN MsgSeq(ids) = DOMAIN ids
         /\ \A i \in DOMAIN ids : MsgSeq(ids)[i] = ids[i].msg
         /\ ToSet(MsgSeq(ids)) = {id.msg : id \in ToSet(ids)}
  <1>1. Len(ids) \in Nat /\ DOMAIN ids = 1..Len(ids)
    OBVIOUS
  <1>2. \A i \in DOMAIN ids : ids[i].msg \in Msgs
    <2>1. \A i \in DOMAIN ids : ids[i] \in Ids
      BY <1>1
    <2> QED
      BY <2>1 DEF Ids
  <1>3. MsgSeq(ids) = [i \in 1..Len(ids) |-> ids[i].msg]
    BY <1>1 DEF MsgSeq
  <1>4. MsgSeq(ids) \in Seq(Msgs)
    BY <1>1, <1>2, <1>3
  <1>5. ToSet(MsgSeq(ids)) = {id.msg : id \in ToSet(ids)}
    BY <1>1, <1>3 DEF ToSet
  <1> QED
    BY <1>1, <1>3, <1>4, <1>5

LEMMA JoinEffect ==
  ASSUME NEW r \in Readers
  PROVE  LET data == DataOf(r.pending) IN
         /\ JoinMessages(r) \in Readers
         /\ JoinMessages(r) =
              [r EXCEPT !.dispatched = r.dispatched \o MsgSeq(data),
                        !.pending = Without(r.pending, ToSet(data)),
                        !.pseudoInbox = Without(r.pseudoInbox, ToSet(data)),
                        !.overtaken = r.overtaken \/ (Stored(data) # <<>> /\ Listing(r)),
                        !.used = UsedWithout(r.used, Len(Stored(data))),
                        !.at = r.at \o Deletions(data)]
  <1> DEFINE data == DataOf(r.pending)
             s == Dispatch(r, data)
  <1>1. data \in Seq(Ids) /\ MsgSeq(data) \in Seq(Msgs)
    <2>1. r.pending \in Seq(Ids)
      BY DEF Readers
    <2> QED
      BY <2>1, DataProperties, MsgSeqProperties
  <1>2. JoinMessages(r) = DeleteMessages(s, data)
    BY Zenon DEF JoinMessages, DataOf
  <1> HIDE DEF data
  <1>3. s = [r EXCEPT !.dispatched = r.dispatched \o MsgSeq(data)]
    BY DEF Dispatch, MsgSeq
  <1>4. r.dispatched \o MsgSeq(data) \in Seq(Msgs)
    <2>1. r.dispatched \in Seq(Msgs)
      BY DEF Readers
    <2> QED
      BY <2>1, <1>1
  <1> HIDE DEF s
  <1>5. /\ s \in Readers /\ s.pending = r.pending /\ s.pseudoInbox = r.pseudoInbox
        /\ s.overtaken = r.overtaken /\ s.used = r.used /\ s.at = r.at
    BY <1>3, <1>4 DEF Readers
  <1>6. Listing(s) = Listing(r)
    BY <1>5, Zenon DEF Listing
  <1> DEFINE p == Without(r.pending, ToSet(data))
             q == Without(r.pseudoInbox, ToSet(data))
             o == r.overtaken \/ (Stored(data) # <<>> /\ Listing(r))
             u == UsedWithout(r.used, Len(Stored(data)))
             a == r.at \o Deletions(data)
             m == r.dispatched \o MsgSeq(data)
  <1>7. /\ JoinMessages(r) \in Readers
        /\ JoinMessages(r) = [s EXCEPT !.pending = p, !.pseudoInbox = q, !.overtaken = o,
                                       !.used = u, !.at = a]
    <2>1. /\ DeleteMessages(s, data) \in Readers
          /\ DeleteMessages(s, data) =
              [s EXCEPT !.pending = Without(s.pending, ToSet(data)),
                        !.pseudoInbox = Without(s.pseudoInbox, ToSet(data)),
                        !.overtaken = s.overtaken \/ (Stored(data) # <<>> /\ Listing(s)),
                        !.used = UsedWithout(s.used, Len(Stored(data))),
                        !.at = s.at \o Deletions(data)]
      BY <1>1, <1>5, DeleteEffect, Zenon
    <2> QED
      BY <2>1, <1>2, <1>5, <1>6, Zenon
  <1>8. s = [r EXCEPT !.dispatched = m]
    BY <1>3
  <1> HIDE DEF p, q, o, u, a, m
  <1>9. [s EXCEPT !.pending = p, !.pseudoInbox = q, !.overtaken = o, !.used = u, !.at = a]
          = [r EXCEPT !.dispatched = m, !.pending = p, !.pseudoInbox = q, !.overtaken = o,
                      !.used = u, !.at = a]
    BY <1>8 DEF Readers
  <1> QED
    BY <1>7, <1>9, Zenon DEF p, q, o, u, a, m, data

\* storeListDone() up to the answers
Done(r, ok, ids) ==
  LET listed == [r EXCEPT !.pending = r.pending \o ids] IN
  [JoinMessages(IF ok THEN SetReady(listed) ELSE listed) EXCEPT !.haveCached = ok, !.fetching = FALSE]

Ready == [sig |-> "ready"]

LEMMA StoreListDoneIs ==
  ASSUME NEW r, NEW ok, NEW ids
  PROVE  LET done == Done(r, ok, ids) IN
         StoreListDone(r, ok, ids) = IF done.needRefetch
                                     THEN FetchMessages([done EXCEPT !.needRefetch = FALSE])
                                     ELSE Answer(done)
  BY Zenon DEF StoreListDone, Done

LEMMA DoneEffect ==
  ASSUME NEW r \in Readers, NEW ok \in BOOLEAN, NEW ids \in Seq(Ids)
  PROVE  LET done == Done(r, ok, ids)
             all  == r.pending \o ids
             data == DataOf(all)
         IN /\ done \in Readers /\ all \in Seq(Ids)
            /\ done.pending = Without(all, ToSet(data))
            /\ done.pseudoInbox = Without(r.pseudoInbox, ToSet(data))
            /\ done.dispatched = r.dispatched \o MsgSeq(data)
            /\ done.at = r.at \o Deletions(data)
            /\ done.overtaken = (r.overtaken \/ (Stored(data) # <<>> /\ Listing(r)))
            /\ done.haveCached = ok /\ done.fetching = FALSE
            /\ done.out = r.out \/ done.out = Append(r.out, Ready)
            /\ done.pendingPosn = r.pendingPosn
            /\ done.pendingCheck = r.pendingCheck
            /\ done.pendingFirstMessage = r.pendingFirstMessage
            /\ done.needRefetch = r.needRefetch
            /\ done.initializing = r.initializing
  <1> DEFINE all == r.pending \o ids
             listed == [r EXCEPT !.pending = all]
             s == IF ok THEN SetReady(listed) ELSE listed
             done == Done(r, ok, ids)
  <1>1. all \in Seq(Ids)
    <2>1. r.pending \in Seq(Ids)
      BY DEF Readers
    <2> QED
      BY <2>1
  <1> HIDE DEF all
  <1>2. /\ listed \in Readers /\ listed.pending = all /\ listed.pseudoInbox = r.pseudoInbox
        /\ listed.dispatched = r.dispatched /\ listed.at = r.at
        /\ listed.overtaken = r.overtaken /\ listed.out = r.out
        /\ listed.pendingPosn = r.pendingPosn /\ listed.pendingCheck = r.pendingCheck
        /\ listed.pendingFirstMessage = r.pendingFirstMessage
        /\ listed.needRefetch = r.needRefetch /\ listed.initializing = r.initializing
    BY <1>1 DEF Readers
  <1> HIDE DEF listed
  <1>3. /\ s \in Readers /\ s.pending = all /\ s.pseudoInbox = r.pseudoInbox
        /\ s.dispatched = r.dispatched /\ s.at = r.at /\ s.overtaken = r.overtaken
        /\ s.out = r.out \/ s.out = Append(r.out, Ready)
        /\ s.pendingPosn = r.pendingPosn /\ s.pendingCheck = r.pendingCheck
        /\ s.pendingFirstMessage = r.pendingFirstMessage
        /\ s.needRefetch = r.needRefetch /\ s.initializing = r.initializing
    <2>1. CASE s = listed
      BY <2>1, <1>2
    <2>2. CASE s = Emit([listed EXCEPT !.ready = TRUE], Ready)
      <3> DEFINE t == [listed EXCEPT !.ready = TRUE]
      <3>1. /\ t \in Readers /\ t.out = r.out
            /\ t.pending = all /\ t.pseudoInbox = r.pseudoInbox
            /\ t.dispatched = r.dispatched /\ t.at = r.at /\ t.overtaken = r.overtaken
            /\ t.pendingPosn = r.pendingPosn /\ t.pendingCheck = r.pendingCheck
            /\ t.pendingFirstMessage = r.pendingFirstMessage
            /\ t.needRefetch = r.needRefetch /\ t.initializing = r.initializing
        BY <1>2 DEF Readers
      <3>2. Ready \in Signals
        BY DEF Ready, Signals
      <3>3. Emit(t, Ready) \in Readers /\ Emit(t, Ready) = [t EXCEPT !.out = Append(t.out, Ready)]
        <4> HIDE DEF t
        <4> QED
          BY <3>1, <3>2, EmitEffect
      <3>4. Emit(t, Ready) = [t EXCEPT !.out = Append(r.out, Ready)]
        BY <3>1, <3>3
      <3>5. s = Emit(t, Ready)
        BY <2>2
      <3> HIDE DEF t, s
      <3> QED
        BY <3>1, <3>3, <3>4, <3>5 DEF Readers
    <2>3. s = listed \/ s = Emit([listed EXCEPT !.ready = TRUE], Ready)
      BY DEF SetReady, Ready
    <2> QED
      BY <2>1, <2>2, <2>3
  <1>4. done = [JoinMessages(s) EXCEPT !.haveCached = ok, !.fetching = FALSE]
    BY DEF Done, all, listed
  <1> HIDE DEF s, done
  <1>5. Listing(s) = Listing(r)
    BY <1>3, Zenon DEF Listing
  <1> DEFINE data == DataOf(all)
             p == Without(all, ToSet(data))
             q == Without(r.pseudoInbox, ToSet(data))
             o == r.overtaken \/ (Stored(data) # <<>> /\ Listing(r))
             u == UsedWithout(s.used, Len(Stored(data)))
             a == r.at \o Deletions(data)
             m == r.dispatched \o MsgSeq(data)
  <1>6. /\ JoinMessages(s) \in Readers
        /\ JoinMessages(s) = [s EXCEPT !.dispatched = m, !.pending = p, !.pseudoInbox = q,
                                       !.overtaken = o, !.used = u, !.at = a]
    <2>1. LET d == DataOf(s.pending) IN
         /\ JoinMessages(s) \in Readers
         /\ JoinMessages(s) =
              [s EXCEPT !.dispatched = s.dispatched \o MsgSeq(d),
                        !.pending = Without(s.pending, ToSet(d)),
                        !.pseudoInbox = Without(s.pseudoInbox, ToSet(d)),
                        !.overtaken = s.overtaken \/ (Stored(d) # <<>> /\ Listing(s)),
                        !.used = UsedWithout(s.used, Len(Stored(d))),
                        !.at = s.at \o Deletions(d)]
      BY <1>3, JoinEffect, Zenon
    <2> QED
      BY <2>1, <1>3, <1>5, Zenon
  <1> HIDE DEF p, q, o, u, a, m
  <1> DEFINE j == JoinMessages(s)
  <1>7. /\ j.dispatched = m /\ j.pending = p /\ j.pseudoInbox = q /\ j.overtaken = o /\ j.at = a
        /\ j.out = s.out /\ j.pendingPosn = s.pendingPosn /\ j.pendingCheck = s.pendingCheck
        /\ j.pendingFirstMessage = s.pendingFirstMessage
        /\ j.needRefetch = s.needRefetch /\ j.initializing = s.initializing
    BY <1>3, <1>6 DEF Readers
  <1> HIDE DEF j
  <1>8. j \in Readers /\ done = [j EXCEPT !.haveCached = ok, !.fetching = FALSE]
    BY <1>4, <1>6 DEF j
  <1>9. /\ done \in Readers
        /\ done.dispatched = m /\ done.pending = p /\ done.pseudoInbox = q /\ done.overtaken = o
        /\ done.at = a /\ done.haveCached = ok /\ done.fetching = FALSE
        /\ done.out = j.out /\ done.pendingPosn = j.pendingPosn
        /\ done.pendingCheck = j.pendingCheck
        /\ done.pendingFirstMessage = j.pendingFirstMessage
        /\ done.needRefetch = j.needRefetch /\ done.initializing = j.initializing
    BY <1>7, <1>8 DEF Readers
  <1> HIDE DEF data
  <1>10. /\ done.out = r.out \/ done.out = Append(r.out, Ready)
         /\ done.pendingPosn = r.pendingPosn /\ done.pendingCheck = r.pendingCheck
         /\ done.pendingFirstMessage = r.pendingFirstMessage
         /\ done.needRefetch = r.needRefetch /\ done.initializing = r.initializing
    BY <1>3, <1>7, <1>9
  <1>11. all \in Seq(Ids) /\ all = r.pending \o ids
    BY <1>1 DEF all
  <1> QED
    BY <1>9, <1>10, <1>11, Zenon DEF p, q, o, a, m, data, done

CountedOut(r) == IF r.pendingCheck THEN Append(r.out, CountSignal(r)) ELSE r.out
FirstSignal(r) == IF 0 < Len(r.pending) THEN [sig |-> "fetched", id |-> r.pending[1]]
                  ELSE [sig |-> "end"]

LEMMA AnswerEffect ==
  ASSUME NEW r \in Readers
  PROVE  LET s == Answer(r) IN
         /\ s \in Readers
         /\ s.pendingCheck = FALSE /\ s.pendingFirstMessage = FALSE
         /\ s.out = IF r.pendingFirstMessage THEN Append(CountedOut(r), FirstSignal(r))
                    ELSE CountedOut(r)
         /\ s.pendingPosn = IF r.pendingFirstMessage
                            THEN IF 0 < Len(r.pending) THEN 1 ELSE 0
                            ELSE r.pendingPosn
         /\ s.pending = r.pending /\ s.pseudoInbox = r.pseudoInbox
         /\ s.dispatched = r.dispatched /\ s.at = r.at /\ s.overtaken = r.overtaken
         /\ s.haveCached = r.haveCached /\ s.fetching = r.fetching
         /\ s.needRefetch = r.needRefetch /\ s.initializing = r.initializing
  <1> DEFINE c == [r EXCEPT !.pendingCheck = FALSE]
             k == IF r.pendingCheck THEN Count(c) ELSE r
  <1>1. c \in Readers /\ CountSignal(c) = CountSignal(r) /\ c.out = r.out
    BY DEF Readers, CountSignal
  <1>2. Count(c) \in Readers /\ Count(c) = [c EXCEPT !.out = Append(r.out, CountSignal(r))]
    <2> HIDE DEF c
    <2> QED
      BY <1>1, CountEffect
  <1>3. /\ k \in Readers /\ k.pendingCheck = FALSE /\ k.out = CountedOut(r)
        /\ k.pendingFirstMessage = r.pendingFirstMessage /\ k.pendingPosn = r.pendingPosn
        /\ k.pending = r.pending /\ k.pseudoInbox = r.pseudoInbox
        /\ k.dispatched = r.dispatched /\ k.at = r.at /\ k.overtaken = r.overtaken
        /\ k.haveCached = r.haveCached /\ k.fetching = r.fetching
        /\ k.needRefetch = r.needRefetch /\ k.initializing = r.initializing
    <2>1. CASE r.pendingCheck
      <3>1. k = [r EXCEPT !.pendingCheck = FALSE, !.out = Append(r.out, CountSignal(r))]
        BY <2>1, <1>2
      <3>2. k \in Readers /\ CountedOut(r) = Append(r.out, CountSignal(r))
        BY <2>1, <1>2 DEF CountedOut
      <3> HIDE DEF k
      <3> QED
        BY <3>1, <3>2 DEF Readers
    <2>2. CASE ~r.pendingCheck
      BY <2>2 DEF CountedOut, Readers
    <2> QED
      BY <2>1, <2>2
  <1>4. Answer(r) = AnswerFirst(k)
    BY DEF Answer
  <1> HIDE DEF k
  <1>5. CASE ~r.pendingFirstMessage
    <2>1. Answer(r) = k
      BY <1>3, <1>4, <1>5 DEF AnswerFirst
    <2> QED
      BY <2>1, <1>3, <1>5 DEF Readers
  <1>6. CASE r.pendingFirstMessage
    <2> DEFINE t == [k EXCEPT !.pendingFirstMessage = FALSE, !.pendingPosn = 0]
    <2>1. /\ t \in Readers /\ t.pendingCheck = FALSE /\ t.out = CountedOut(r)
        /\ t.pendingFirstMessage = FALSE /\ t.pendingPosn = 0
        /\ t.pending = r.pending /\ t.pseudoInbox = r.pseudoInbox
        /\ t.dispatched = r.dispatched /\ t.at = r.at /\ t.overtaken = r.overtaken
        /\ t.haveCached = r.haveCached /\ t.fetching = r.fetching
        /\ t.needRefetch = r.needRefetch /\ t.initializing = r.initializing
      BY <1>3 DEF Readers
    <2>2. Answer(r) = NextMessage(t)
      BY <1>3, <1>4, <1>6 DEF AnswerFirst
    <2> HIDE DEF t
    <2>3. NextSignal(t) = FirstSignal(r) /\ 0 + 1 = 1
      BY <2>1 DEF NextSignal, FirstSignal
    <2>4. /\ NextMessage(t) \in Readers
          /\ NextMessage(t) = [t EXCEPT !.out = Append(CountedOut(r), FirstSignal(r)),
               !.pendingPosn = IF 0 < Len(r.pending) THEN 1 ELSE 0]
      BY <2>1, <2>3, NextEffect
    <2> QED
      BY <2>1, <2>2, <2>4, <1>6 DEF Readers
  <1> QED
    BY <1>5, <1>6

-----------------------------------------------------------------------------
\* The reader by itself: what its own slots and the calls of the client keep

Lists(at) == {i \in DOMAIN at : at[i].cmd = "list"}

ListFlags(r) ==
  /\ r.fetching <=> Lists(r.at) # {}
  /\ \A i, j \in Lists(r.at) : i = j
  /\ r.fetching <=> r.pendingCheck \/ r.pendingFirstMessage
  /\ r.needRefetch => r.fetching

\* A list of identifiers names a message once.  While the store is listed the
\* cache holds what the pseudo inbox held when the list was begun.
Sorted(r) ==
  /\ Distinct(r.pending) /\ Distinct(r.pseudoInbox)
  /\ \A id \in ToSet(r.pseudoInbox) : id.place = 0 /\ id.msg \in Direct
  /\ r.fetching => ToSet(r.pending) \subseteq ToSet(r.pseudoInbox)
Begun(r) == r.fetching /\ ~r.needRefetch => ToSet(r.pseudoInbox) \subseteq ToSet(r.pending)

Local(r) == r \in Readers /\ ListFlags(r) /\ Sorted(r) /\ Begun(r)

\* s comes after r, and no list was answered in between: the cache was kept,
\* but for messages whose deletion was queued, or it is no longer one.
Cached(r) == r.haveCached /\ ~r.fetching
After(r, s) ==
  /\ s.dispatched = r.dispatched
  /\ ToSet(s.pseudoInbox) \subseteq ToSet(r.pseudoInbox)
  /\ r.overtaken => s.overtaken
  /\ r.needRefetch => s.needRefetch
  /\ Cached(s) => /\ Cached(r)
                  /\ ToSet(r.pseudoInbox) \subseteq ToSet(r.pending) =>
                        ToSet(s.pseudoInbox) \subseteq ToSet(s.pending)
  /\ \E q \in Seq(Commands) :
        /\ s.at = r.at \o q
        /\ Cached(s) => \A id \in ToSet(r.pending) :
              \/ id \in ToSet(s.pending)
              \/ id.place = 0
              \/ \E i \in DOMAIN q : q[i] = [cmd |-> "delete", place |-> id.place]

LEMMA ListsConcat ==
  ASSUME NEW s \in Seq(Commands), NEW q \in Seq(Commands), Lists(q) = {}
  PROVE  Lists(s \o q) = Lists(s)
  <1>1. /\ Len(s) \in Nat /\ Len(q) \in Nat /\ DOMAIN s = 1..Len(s) /\ DOMAIN q = 1..Len(q)
        /\ DOMAIN (s \o q) = 1..(Len(s) + Len(q))
        /\ \A i \in 1..Len(s) : (s \o q)[i] = s[i]
        /\ \A i \in 1..(Len(s) + Len(q)) : i \notin 1..Len(s) => (s \o q)[i] = q[i - Len(s)] /\ i - Len(s) \in 1..Len(q)
    OBVIOUS
  <1> QED
    BY <1>1 DEF Lists

LEMMA Concats ==
  ASSUME NEW A, NEW s \in Seq(A), NEW q \in Seq(A)
  PROVE  /\ s \o q \in Seq(A) /\ Len(s) \in Nat /\ Len(q) \in Nat
         /\ DOMAIN s = 1..Len(s) /\ DOMAIN q = 1..Len(q)
         /\ DOMAIN (s \o q) = 1..(Len(s) + Len(q)) /\ Len(s \o q) = Len(s) + Len(q)
         /\ \A i \in 1..Len(s) : (s \o q)[i] = s[i]
         /\ \A i \in 1..Len(q) : (s \o q)[Len(s) + i] = q[i]
  OBVIOUS

LEMMA TwoMore ==
  ASSUME NEW s \in Seq(Commands), NEW q \in Seq(Commands), Len(q) = 2
  PROVE  /\ Len(s) \in Nat /\ DOMAIN s = 1..Len(s)
         /\ DOMAIN (s \o q) = 1..(Len(s) + 2)
         /\ \A i \in 1..Len(s) : (s \o q)[i] = s[i]
         /\ (s \o q)[Len(s) + 1] = q[1]
         /\ (s \o q)[Len(s) + 2] = q[2]
  <1>1. 1 \in 1..Len(q) /\ 2 \in 1..Len(q)
    OBVIOUS
  <1> QED
    BY <1>1, Concats

LEMMA ListsBegun ==
  ASSUME NEW s \in Seq(Commands), Lists(s) = {}
  PROVE  Lists(s \o ListCmds) = {Len(s) + 2}
  <1>1. /\ ListCmds \in Seq(Commands) /\ Len(ListCmds) = 2
        /\ ListCmds[1].cmd = "usage" /\ ListCmds[2].cmd = "list"
    BY CommandType DEF ListCmds
  <1>2. /\ Len(s) \in Nat /\ DOMAIN s = 1..Len(s)
        /\ DOMAIN (s \o ListCmds) = 1..(Len(s) + 2)
        /\ \A i \in 1..Len(s) : (s \o ListCmds)[i] = s[i]
        /\ (s \o ListCmds)[Len(s) + 1] = ListCmds[1]
        /\ (s \o ListCmds)[Len(s) + 2] = ListCmds[2]
    BY <1>1, TwoMore
  <1> QED
    BY <1>1, <1>2 DEF Lists

LEMMA EmptyConcat == \A s \in Seq(Commands) : s \o <<>> = s /\ <<>> \in Seq(Commands) /\ DOMAIN <<>> = {}
  OBVIOUS

LEMMA ReaderFields ==
  ASSUME NEW r \in Readers
  PROVE  /\ r.pending \in Seq(Ids) /\ r.pseudoInbox \in Seq(Ids) /\ r.at \in Seq(Commands)
         /\ r.out \in Seq(Signals) /\ r.dispatched \in Seq(Msgs)
         /\ r.fetching \in BOOLEAN /\ r.needRefetch \in BOOLEAN /\ r.haveCached \in BOOLEAN
         /\ r.pendingCheck \in BOOLEAN /\ r.pendingFirstMessage \in BOOLEAN
         /\ r.overtaken \in BOOLEAN /\ r.initializing \in BOOLEAN /\ r.pendingPosn \in Nat
  BY DEF Readers

\* What only fills `out`, moves in the list or counts places.
LEMMA LocalSame ==
  ASSUME NEW r, Local(r), NEW s \in Readers,
         s.pending = r.pending, s.pseudoInbox = r.pseudoInbox, s.at = r.at,
         s.fetching = r.fetching, s.needRefetch = r.needRefetch,
         s.pendingCheck = r.pendingCheck, s.pendingFirstMessage = r.pendingFirstMessage,
         s.dispatched = r.dispatched, s.overtaken = r.overtaken,
         s.haveCached => r.haveCached
  PROVE  Local(s) /\ After(r, s)
  <1>1. Local(s)
    BY DEF Local, ListFlags, Sorted, Begun
  <1>2. r.at \in Seq(Commands)
    BY ReaderFields DEF Local
  <1>3. s.at = r.at \o <<>>
    BY <1>2, EmptyConcat
  <1>4. After(r, s)
    BY <1>3, EmptyConcat, <1>2 DEF After, Cached
  <1> QED
    BY <1>1, <1>4

LEMMA LocalCount ==
  ASSUME NEW r, Local(r)
  PROVE  Local(Count(r)) /\ After(r, Count(r))
  <1> DEFINE s == Count(r)
  <1>1. r \in Readers
    BY DEF Local
  <1>2. s \in Readers /\ s = [r EXCEPT !.out = Append(r.out, CountSignal(r))]
    BY <1>1, CountEffect
  <1> HIDE DEF s
  <1>3. /\ s.pending = r.pending /\ s.pseudoInbox = r.pseudoInbox /\ s.at = r.at
        /\ s.fetching = r.fetching /\ s.needRefetch = r.needRefetch
        /\ s.pendingCheck = r.pendingCheck /\ s.pendingFirstMessage = r.pendingFirstMessage
        /\ s.dispatched = r.dispatched /\ s.overtaken = r.overtaken /\ s.haveCached = r.haveCached
    BY <1>1, <1>2 DEF Readers
  <1>4. Local(s) /\ After(r, s)
    BY <1>2, <1>3, LocalSame
  <1> QED
    BY <1>4 DEF s

LEMMA LocalNext ==
  ASSUME NEW r, Local(r)
  PROVE  Local(NextMessage(r)) /\ After(r, NextMessage(r))
  <1> DEFINE s == NextMessage(r)
             posn == IF r.pendingPosn < Len(r.pending) THEN r.pendingPosn + 1 ELSE 0
  <1>1. r \in Readers
    BY DEF Local
  <1>2. s \in Readers /\ s = [r EXCEPT !.out = Append(r.out, NextSignal(r)), !.pendingPosn = posn]
    BY <1>1, NextEffect
  <1> HIDE DEF s, posn
  <1>3. /\ s.pending = r.pending /\ s.pseudoInbox = r.pseudoInbox /\ s.at = r.at
        /\ s.fetching = r.fetching /\ s.needRefetch = r.needRefetch
        /\ s.pendingCheck = r.pendingCheck /\ s.pendingFirstMessage = r.pendingFirstMessage
        /\ s.dispatched = r.dispatched /\ s.overtaken = r.overtaken /\ s.haveCached = r.haveCached
    BY <1>1, <1>2 DEF Readers
  <1>4. Local(s) /\ After(r, s)
    BY <1>2, <1>3, LocalSame
  <1> QED
    BY <1>4 DEF s

\* A list is begun for someone who waits for it.
LEMMA LocalFetch ==
  ASSUME NEW r \in Readers, Sorted(r), Lists(r.at) = {}, ~r.needRefetch,
         r.pendingCheck \/ r.pendingFirstMessage
  PROVE  LET s == FetchMessages(r) IN
         /\ Local(s) /\ s.fetching
         /\ s.pending = r.pseudoInbox /\ s.pseudoInbox = r.pseudoInbox
         /\ s.at = r.at \o ListCmds /\ ListCmds \in Seq(Commands)
         /\ s.dispatched = r.dispatched /\ s.overtaken = r.overtaken
         /\ s.needRefetch = r.needRefetch /\ s.out = r.out
         /\ s.pendingCheck = r.pendingCheck /\ s.pendingFirstMessage = r.pendingFirstMessage
         /\ s.pendingPosn = r.pendingPosn
  <1> DEFINE s == FetchMessages(r)
  <1>1. /\ s \in Readers
        /\ s = [r EXCEPT !.fetching = TRUE, !.pending = r.pseudoInbox, !.at = r.at \o ListCmds]
        /\ ListCmds \in Seq(Commands)
    BY FetchEffect
  <1> HIDE DEF s
  <1>2. /\ s.fetching /\ s.pending = r.pseudoInbox /\ s.pseudoInbox = r.pseudoInbox
        /\ s.at = r.at \o ListCmds
        /\ s.dispatched = r.dispatched /\ s.overtaken = r.overtaken
        /\ s.needRefetch = r.needRefetch /\ s.out = r.out
        /\ s.pendingCheck = r.pendingCheck /\ s.pendingFirstMessage = r.pendingFirstMessage
        /\ s.pendingPosn = r.pendingPosn
    BY <1>1 DEF Readers
  <1>3. Lists(s.at) = {Len(r.at) + 2}
    BY <1>2, ListsBegun, ReaderFields
  <1>4. ListFlags(s)
    BY <1>2, <1>3 DEF ListFlags
  <1>5. Sorted(s) /\ Begun(s)
    BY <1>2 DEF Sorted, Begun
  <1>6. Local(s) /\ s.fetching
    BY <1>1, <1>2, <1>4, <1>5 DEF Local
  <1> QED
    BY <1>1, <1>2, <1>6 DEF s

LEMMA AfterFrom ==
  ASSUME NEW r, NEW u, NEW s, After(u, s),
         u.pending = r.pending, u.pseudoInbox = r.pseudoInbox, u.at = r.at,
         u.dispatched = r.dispatched, u.overtaken = r.overtaken,
         u.needRefetch = r.needRefetch, u.haveCached => r.haveCached, u.fetching = r.fetching
  PROVE  After(r, s)
  BY Zenon DEF After, Cached

\* A list is begun, and whoever asked is noted in r.
LEMMA AfterFetch ==
  ASSUME NEW r, NEW u \in Readers, Local(r), ~r.fetching,
         u.pending = r.pending, u.pseudoInbox = r.pseudoInbox, u.at = r.at,
         u.dispatched = r.dispatched, u.overtaken = r.overtaken,
         u.needRefetch = r.needRefetch, u.fetching = r.fetching,
         u.pendingCheck \/ u.pendingFirstMessage
  PROVE  Local(FetchMessages(u)) /\ After(r, FetchMessages(u))
  <1> DEFINE s == FetchMessages(u)
  <1>1. Lists(r.at) = {} /\ ~r.needRefetch
    BY DEF Local, ListFlags
  <1>2. Sorted(u)
    BY DEF Local, Sorted
  <1>3. /\ Local(s) /\ s.fetching
        /\ s.pseudoInbox = u.pseudoInbox
        /\ s.at = u.at \o ListCmds /\ ListCmds \in Seq(Commands)
        /\ s.dispatched = u.dispatched /\ s.overtaken = u.overtaken
        /\ s.needRefetch = u.needRefetch
    BY <1>1, <1>2, LocalFetch
  <1> HIDE DEF s
  <1>4. After(r, s)
    BY <1>3 DEF After, Cached
  <1> QED
    BY <1>3, <1>4 DEF s

\* Whoever asks while the store is listed is noted.
LEMMA LocalNoted ==
  ASSUME NEW r, Local(r), r.fetching, NEW s \in Readers,
         s.pending = r.pending, s.pseudoInbox = r.pseudoInbox, s.at = r.at,
         s.dispatched = r.dispatched, s.overtaken = r.overtaken, s.fetching = r.fetching,
         r.needRefetch => s.needRefetch, s.pendingCheck \/ s.pendingFirstMessage
  PROVE  Local(s) /\ After(r, s)
  <1>1. Local(s)
    BY ReaderFields DEF Local, ListFlags, Sorted, Begun
  <1>2. r.at \in Seq(Commands)
    BY ReaderFields DEF Local
  <1>3. s.at = r.at \o <<>>
    BY <1>2, EmptyConcat
  <1>4. After(r, s)
    BY <1>3, <1>2, EmptyConcat DEF After, Cached
  <1> QED
    BY <1>1, <1>4

LEMMA LocalCheck ==
  ASSUME NEW r, Local(r), NEW force \in BOOLEAN
  PROVE  Local(Check(r, force)) /\ After(r, Check(r, force))
  <1> DEFINE u == [r EXCEPT !.pendingCheck = TRUE]
  <1>1. r \in Readers
    BY DEF Local
  <1>2. /\ u \in Readers /\ u.pendingCheck
        /\ u.pending = r.pending /\ u.pseudoInbox = r.pseudoInbox /\ u.at = r.at
        /\ u.dispatched = r.dispatched /\ u.overtaken = r.overtaken
        /\ u.needRefetch = r.needRefetch /\ u.fetching = r.fetching
    BY <1>1 DEF Readers
  <1>3. \/ Check(r, force) = Count(r)
        \/ r.fetching /\ Check(r, force) = u
        \/ ~r.fetching /\ Check(r, force) = FetchMessages(u)
    BY <1>1, CheckEffect, Zenon
  <1> HIDE DEF u
  <1>4. CASE Check(r, force) = Count(r)
    BY <1>4, LocalCount
  <1>5. CASE r.fetching /\ Check(r, force) = u
    BY <1>2, <1>5, LocalNoted
  <1>6. CASE ~r.fetching /\ Check(r, force) = FetchMessages(u)
    BY <1>2, <1>6, AfterFetch
  <1> QED
    BY <1>3, <1>4, <1>5, <1>6

LEMMA LocalNews ==
  ASSUME NEW r \in Readers, ListFlags(r), Sorted(r)
  PROVE  LET s == NewMessageArrived(r) IN
         /\ Local(s) /\ After(r, s) /\ ~Cached(s)
         /\ r.fetching => s.needRefetch
         /\ s.pseudoInbox = r.pseudoInbox
  <1> DEFINE s == NewMessageArrived(r)
  <1>1. CASE r.fetching
    <2> DEFINE u == [r EXCEPT !.needRefetch = TRUE]
    <2>1. /\ u \in Readers /\ u.fetching /\ u.needRefetch
          /\ u.pending = r.pending /\ u.pseudoInbox = r.pseudoInbox /\ u.at = r.at
          /\ u.dispatched = r.dispatched /\ u.overtaken = r.overtaken
          /\ u.pendingCheck = r.pendingCheck /\ u.pendingFirstMessage = r.pendingFirstMessage
      BY <1>1 DEF Readers
    <2>2. s = u
      BY <1>1 DEF NewMessageArrived
    <2> HIDE DEF u, s
    <2>3. Local(u)
      BY <1>1, <2>1 DEF Local, ListFlags, Sorted, Begun
    <2>4. u.at = r.at \o <<>> /\ <<>> \in Seq(Commands) /\ DOMAIN <<>> = {}
      BY <2>1, EmptyConcat, ReaderFields
    <2>5. ~Cached(u)
      BY <2>1 DEF Cached
    <2>6. After(r, u)
      BY <2>1, <2>4, <2>5 DEF After
    <2> QED
      BY <2>1, <2>2, <2>3, <2>5, <2>6 DEF s
  <1>2. CASE ~r.fetching
    <2> DEFINE u == [r EXCEPT !.haveCached = FALSE]
    <2>1. /\ u \in Readers /\ ~u.haveCached /\ u.fetching = r.fetching
          /\ u.needRefetch = r.needRefetch
          /\ u.pending = r.pending /\ u.pseudoInbox = r.pseudoInbox /\ u.at = r.at
          /\ u.dispatched = r.dispatched /\ u.overtaken = r.overtaken
          /\ u.pendingCheck = r.pendingCheck /\ u.pendingFirstMessage = r.pendingFirstMessage
      BY DEF Readers
    <2>2. s = Check(u, FALSE)
      BY <1>2 DEF NewMessageArrived
    <2> HIDE DEF u, s
    <2>3. Local(u)
      BY <1>2, <2>1 DEF Local, ListFlags, Sorted, Begun
    <2>4. Local(s) /\ After(u, s)
      BY <2>2, <2>3, LocalCheck
    <2>5. After(r, s)
      BY <2>1, <2>4, AfterFrom
    <2>6. ~Cached(s)
      BY <2>1, <2>4 DEF After, Cached
    <2>7. s.pseudoInbox = r.pseudoInbox
      <3> DEFINE v == [u EXCEPT !.pendingCheck = TRUE]
      <3>1. v \in Readers /\ v.pseudoInbox = u.pseudoInbox
        BY <2>1 DEF Readers
      <3>2. \/ s = Count(u)
            \/ s = v
            \/ s = FetchMessages(v)
        BY <2>1, <2>2, CheckEffect, Zenon
      <3> HIDE DEF v
      <3>3. Count(u).pseudoInbox = u.pseudoInbox
        <4>1. Count(u) = [u EXCEPT !.out = Append(u.out, CountSignal(u))]
          BY <2>1, CountEffect
        <4> QED
          BY <2>1, <4>1 DEF Readers
      <3>4. FetchMessages(v) = [v EXCEPT !.fetching = TRUE, !.pending = v.pseudoInbox, !.at = v.at \o ListCmds]
        BY <3>1, FetchEffect
      <3>5. FetchMessages(v).pseudoInbox = v.pseudoInbox
        BY <3>1, <3>4 DEF Readers
      <3> QED
        BY <3>1, <3>2, <3>3, <3>5, <2>1
    <2> QED
      BY <1>2, <2>4, <2>5, <2>6, <2>7 DEF s
  <1> QED
    BY <1>1, <1>2

LEMMA LocalFirst ==
  ASSUME NEW r, Local(r)
  PROVE  Local(FirstMessage(r)) /\ After(r, FirstMessage(r))
  <1>0. r \in Readers
    BY DEF Local
  <1>1. CASE r.haveCached
    <2> DEFINE u == [r EXCEPT !.pendingPosn = 0]
    <2>1. /\ u \in Readers
          /\ u.pending = r.pending /\ u.pseudoInbox = r.pseudoInbox /\ u.at = r.at
          /\ u.fetching = r.fetching /\ u.needRefetch = r.needRefetch
          /\ u.pendingCheck = r.pendingCheck /\ u.pendingFirstMessage = r.pendingFirstMessage
          /\ u.dispatched = r.dispatched /\ u.overtaken = r.overtaken
          /\ u.haveCached = r.haveCached
      BY <1>0 DEF Readers
    <2>2. FirstMessage(r) = NextMessage(u)
      BY <1>1 DEF FirstMessage
    <2> HIDE DEF u
    <2>3. Local(u)
      BY <2>1, LocalSame
    <2>4. Local(NextMessage(u)) /\ After(u, NextMessage(u))
      BY <2>3, LocalNext
    <2>5. After(r, NextMessage(u))
      BY <2>1, <2>4, AfterFrom
    <2> QED
      BY <2>2, <2>4, <2>5
  <1>2. CASE ~r.haveCached
    <2> DEFINE u == [r EXCEPT !.pendingFirstMessage = TRUE]
    <2>1. /\ u \in Readers /\ u.pendingFirstMessage
          /\ u.pending = r.pending /\ u.pseudoInbox = r.pseudoInbox /\ u.at = r.at
          /\ u.dispatched = r.dispatched /\ u.overtaken = r.overtaken
          /\ u.needRefetch = r.needRefetch /\ u.fetching = r.fetching
      BY <1>0 DEF Readers
    <2>2. FirstMessage(r) = IF r.fetching THEN u ELSE FetchMessages(u)
      BY <1>2 DEF FirstMessage
    <2> HIDE DEF u
    <2>3. CASE r.fetching
      BY <2>1, <2>2, <2>3, LocalNoted
    <2>4. CASE ~r.fetching
      BY <2>1, <2>2, <2>4, AfterFetch
    <2> QED
      BY <2>3, <2>4
  <1> QED
    BY <1>1, <1>2

LEMMA DeletionsNoList ==
  ASSUME NEW ids \in Seq(Ids)
  PROVE  Lists(Deletions(ids)) = {}
  BY DeletionsProperties DEF Lists

LEMMA LocalDelete ==
  ASSUME NEW r, Local(r), NEW ids \in Seq(Ids)
  PROVE  Local(DeleteMessages(r, ids)) /\ After(r, DeleteMessages(r, ids))
  <1> DEFINE s == DeleteMessages(r, ids)
             p == Without(r.pending, ToSet(ids))
             q == Without(r.pseudoInbox, ToSet(ids))
             d == Deletions(ids)
             o == r.overtaken \/ (Stored(ids) # <<>> /\ Listing(r))
             n == UsedWithout(r.used, Len(Stored(ids)))
  <1>1. r \in Readers
    BY DEF Local
  <1>2. /\ s \in Readers
        /\ s = [r EXCEPT !.pending = p, !.pseudoInbox = q, !.overtaken = o, !.used = n, !.at = r.at \o d]
    BY <1>1, DeleteEffect
  <1>3. /\ ToSet(p) = ToSet(r.pending) \ ToSet(ids)
        /\ Distinct(r.pending) => Distinct(p)
        /\ ToSet(q) = ToSet(r.pseudoInbox) \ ToSet(ids)
        /\ Distinct(r.pseudoInbox) => Distinct(q)
    BY <1>1, ReaderFields, Withouts
  <1>4. /\ d \in Seq(Commands) /\ Lists(d) = {}
        /\ \A id \in ToSet(ids) : id.place # 0 =>
              \E i \in DOMAIN d : d[i] = [cmd |-> "delete", place |-> id.place]
    <2>1. /\ d \in Seq(Commands) /\ DOMAIN d = DOMAIN Stored(ids)
          /\ \A i \in DOMAIN d : d[i] = [cmd |-> "delete", place |-> Stored(ids)[i].place]
      BY DeletionsProperties
    <2>2. /\ Stored(ids) \in Seq(StoredIds)
          /\ ToSet(Stored(ids)) = {id \in ToSet(ids) : id.place # 0}
      BY StoredProperties
    <2>3. \A id \in ToSet(Stored(ids)) : \E i \in DOMAIN Stored(ids) : Stored(ids)[i] = id
      BY <2>2, SetOfSeq, Zenon
    <2> HIDE DEF d
    <2>4. Lists(Deletions(ids)) = {}
      BY DeletionsNoList
    <2> QED
      BY <2>1, <2>2, <2>3, <2>4 DEF d
  <1> HIDE DEF s, p, q, d, o, n
  <1>5. /\ s.pending = p /\ s.pseudoInbox = q /\ s.at = r.at \o d
        /\ s.fetching = r.fetching /\ s.needRefetch = r.needRefetch
        /\ s.pendingCheck = r.pendingCheck /\ s.pendingFirstMessage = r.pendingFirstMessage
        /\ s.dispatched = r.dispatched /\ s.overtaken = o /\ s.haveCached = r.haveCached
    <2> DEFINE at == r.at \o d
    <2> HIDE DEF at
    <2>1. s = [r EXCEPT !.pending = p, !.pseudoInbox = q, !.overtaken = o, !.used = n, !.at = at]
      BY <1>2 DEF at
    <2>2. /\ s.pending = p /\ s.pseudoInbox = q /\ s.at = at /\ s.overtaken = o
          /\ s.dispatched = r.dispatched /\ s.haveCached = r.haveCached
      BY <1>1, <2>1 DEF Readers
    <2>3. /\ s.fetching = r.fetching /\ s.needRefetch = r.needRefetch
          /\ s.pendingCheck = r.pendingCheck /\ s.pendingFirstMessage = r.pendingFirstMessage
      BY <1>1, <2>1 DEF Readers
    <2> QED
      BY <2>2, <2>3 DEF at
  <1>6. Lists(s.at) = Lists(r.at)
    BY <1>1, <1>4, <1>5, ReaderFields, ListsConcat
  <1>7. Local(s)
    BY <1>2, <1>3, <1>5, <1>6 DEF Local, ListFlags, Sorted, Begun
  <1>8. After(r, s)
    <2>1. r.overtaken => o
      BY DEF o
    <2>2. \A id \in ToSet(r.pending) :
              \/ id \in ToSet(s.pending)
              \/ id.place = 0
              \/ \E i \in DOMAIN d : d[i] = [cmd |-> "delete", place |-> id.place]
      BY <1>3, <1>4, <1>5
    <2>3. ToSet(r.pseudoInbox) \subseteq ToSet(r.pending) => ToSet(s.pseudoInbox) \subseteq ToSet(s.pending)
      BY <1>3, <1>5
    <2>4. ToSet(s.pseudoInbox) \subseteq ToSet(r.pseudoInbox)
      BY <1>3, <1>5
    <2> QED
      BY <2>1, <2>2, <2>3, <2>4, <1>4, <1>5 DEF After, Cached
  <1> QED
    BY <1>7, <1>8 DEF s

\* storeListDone() answers whoever asked for the list, or begins it again.
LEMMA LocalListDone ==
  ASSUME NEW r \in Readers, Sorted(r), Begun(r), r.fetching, Lists(r.at) = {},
         r.pendingCheck \/ r.pendingFirstMessage,
         NEW ok \in BOOLEAN, NEW ids \in Seq(Ids), Distinct(ids),
         \A id \in ToSet(ids) : id.place # 0 /\ id.msg \notin Direct
  PROVE  LET s    == StoreListDone(r, ok, ids)
             all  == r.pending \o ids
             data == DataOf(all)
         IN /\ Local(s) /\ Distinct(all) /\ all \in Seq(Ids)
            /\ ToSet(all) = ToSet(r.pending) \cup ToSet(ids)
            /\ ToSet(s.pseudoInbox) = ToSet(r.pseudoInbox) \ ToSet(data)
            /\ s.dispatched = r.dispatched \o MsgSeq(data)
            /\ \E q \in Seq(Commands) : s.at = (r.at \o Deletions(data)) \o q
            /\ Cached(s) => /\ ok /\ ~r.needRefetch
                            /\ ToSet(s.pending) = ToSet(all) \ ToSet(data)
  <1> DEFINE s    == StoreListDone(r, ok, ids)
             all  == r.pending \o ids
             data == DataOf(all)
             done == Done(r, ok, ids)
             a    == r.at \o Deletions(data)
             m    == r.dispatched \o MsgSeq(data)
  <1>0. r.pending \in Seq(Ids) /\ r.pseudoInbox \in Seq(Ids) /\ r.at \in Seq(Commands)
    BY ReaderFields
  <1>1. all \in Seq(Ids) /\ ToSet(all) = ToSet(r.pending) \cup ToSet(ids)
    BY <1>0, ConcatSet
  <1>2. Distinct(all)
    <2>1. \A i \in DOMAIN r.pending : r.pending[i].msg \in Direct
      BY SetOfSeq, <1>0 DEF Sorted
    <2>2. \A i \in DOMAIN ids : ids[i].msg \notin Direct
      BY SetOfSeq
    <2>3. /\ DOMAIN r.pending = 1..Len(r.pending) /\ DOMAIN ids = 1..Len(ids)
          /\ Len(r.pending) \in Nat /\ Len(ids) \in Nat
          /\ DOMAIN all = 1..(Len(r.pending) + Len(ids))
          /\ \A i \in 1..Len(r.pending) : all[i] = r.pending[i]
          /\ \A i \in 1..Len(ids) : all[Len(r.pending) + i] = ids[i]
      BY <1>0, Concats
    <2>4. Distinct(r.pending) /\ Distinct(ids)
      BY DEF Sorted
    <2> HIDE DEF all
    <2>5. SUFFICES ASSUME NEW i \in DOMAIN all, NEW j \in DOMAIN all, all[i].msg = all[j].msg
                   PROVE  i = j
      BY DEF Distinct
    <2>6. \A k \in DOMAIN all : k \in DOMAIN r.pending \/ (k - Len(r.pending) \in DOMAIN ids /\ all[k] = ids[k - Len(r.pending)])
      <3>1. SUFFICES ASSUME NEW k \in DOMAIN all, k \notin DOMAIN r.pending
                     PROVE  k - Len(r.pending) \in DOMAIN ids /\ all[k] = ids[k - Len(r.pending)]
        OBVIOUS
      <3>2. k - Len(r.pending) \in 1..Len(ids)
        BY <3>1, <2>3
      <3>3. all[Len(r.pending) + (k - Len(r.pending))] = ids[k - Len(r.pending)]
        BY <3>2, <2>3
      <3>4. Len(r.pending) + (k - Len(r.pending)) = k
        BY <3>1, <2>3
      <3> QED
        BY <3>2, <3>3, <3>4, <2>3
    <2>7. CASE i \in DOMAIN r.pending /\ j \in DOMAIN r.pending
      BY <2>3, <2>4, <2>5, <2>7 DEF Distinct
    <2>8. CASE i \in DOMAIN r.pending /\ j \notin DOMAIN r.pending
      BY <2>1, <2>2, <2>3, <2>5, <2>6, <2>8
    <2>9. CASE i \notin DOMAIN r.pending /\ j \in DOMAIN r.pending
      BY <2>1, <2>2, <2>3, <2>5, <2>6, <2>9
    <2>10. CASE i \notin DOMAIN r.pending /\ j \notin DOMAIN r.pending
      <3>1. i - Len(r.pending) = j - Len(r.pending)
        BY <2>4, <2>5, <2>6, <2>10 DEF Distinct
      <3> QED
        BY <3>1, <2>3
    <2> QED
      BY <2>7, <2>8, <2>9, <2>10
  <1>3. /\ done \in Readers
        /\ done.pending = Without(all, ToSet(data))
        /\ done.pseudoInbox = Without(r.pseudoInbox, ToSet(data))
        /\ done.dispatched = m
        /\ done.at = a
        /\ done.haveCached = ok /\ done.fetching = FALSE
        /\ done.pendingCheck = r.pendingCheck
        /\ done.pendingFirstMessage = r.pendingFirstMessage
        /\ done.needRefetch = r.needRefetch
    <2>1. LET d == Done(r, ok, ids)
              l == r.pending \o ids
              t == DataOf(l)
          IN /\ d \in Readers /\ l \in Seq(Ids)
             /\ d.pending = Without(l, ToSet(t))
             /\ d.pseudoInbox = Without(r.pseudoInbox, ToSet(t))
             /\ d.dispatched = r.dispatched \o MsgSeq(t)
             /\ d.at = r.at \o Deletions(t)
             /\ d.overtaken = (r.overtaken \/ (Stored(t) # <<>> /\ Listing(r)))
             /\ d.haveCached = ok /\ d.fetching = FALSE
             /\ d.out = r.out \/ d.out = Append(r.out, Ready)
             /\ d.pendingPosn = r.pendingPosn
             /\ d.pendingCheck = r.pendingCheck
             /\ d.pendingFirstMessage = r.pendingFirstMessage
             /\ d.needRefetch = r.needRefetch
             /\ d.initializing = r.initializing
      BY DoneEffect, ZenonT(60)
    <2> QED
      BY <2>1
  <1>4. s = IF done.needRefetch THEN FetchMessages([done EXCEPT !.needRefetch = FALSE])
            ELSE Answer(done)
    BY StoreListDoneIs
  <1>5. data \in Seq(Ids) /\ Deletions(data) \in Seq(Commands) /\ Lists(Deletions(data)) = {}
    BY <1>1, DataProperties, DeletionsProperties, DeletionsNoList
  <1>6. Lists(a) = {} /\ a \in Seq(Commands)
    BY <1>0, <1>5, ListsConcat
  <1> HIDE DEF s, all, data, done, a, m
  <1>7. /\ ToSet(done.pending) = ToSet(all) \ ToSet(data)
        /\ Distinct(done.pending)
        /\ ToSet(done.pseudoInbox) = ToSet(r.pseudoInbox) \ ToSet(data)
        /\ Distinct(done.pseudoInbox)
    <2>1. Distinct(r.pseudoInbox)
      BY DEF Sorted
    <2> QED
      BY <2>1, <1>0, <1>1, <1>2, <1>3, Withouts
  <1>8. \A id \in ToSet(done.pseudoInbox) : id.place = 0 /\ id.msg \in Direct
    BY <1>7 DEF Sorted
  <1>9. CASE r.needRefetch
    <2> DEFINE u == [done EXCEPT !.needRefetch = FALSE]
    <2>1. /\ u \in Readers /\ ~u.needRefetch
          /\ u.pending = done.pending /\ u.pseudoInbox = done.pseudoInbox
          /\ u.dispatched = done.dispatched /\ u.at = done.at
          /\ u.fetching = done.fetching
          /\ u.pendingCheck = done.pendingCheck
          /\ u.pendingFirstMessage = done.pendingFirstMessage
      BY <1>3 DEF Readers
    <2>2. s = FetchMessages(u)
      BY <1>3, <1>4, <1>9
    <2> HIDE DEF u
    <2>3. Sorted(u)
      BY <2>1, <1>3, <1>7, <1>8 DEF Sorted
    <2>4. Lists(u.at) = {}
      BY <2>1, <1>3, <1>6
    <2>5. u.pendingCheck \/ u.pendingFirstMessage
      BY <2>1, <1>3
    <2>6. /\ Local(s) /\ s.fetching
          /\ s.pseudoInbox = u.pseudoInbox
          /\ s.at = u.at \o ListCmds /\ ListCmds \in Seq(Commands)
          /\ s.dispatched = u.dispatched
      BY <2>1, <2>2, <2>3, <2>4, <2>5, LocalFetch
    <2> QED
      BY <2>1, <2>6, <1>1, <1>2, <1>3, <1>7 DEF Cached, s, all, data, a, m
  <1>10. CASE ~r.needRefetch
    <2>1. s = Answer(done)
      BY <1>3, <1>4, <1>10
    <2>2. /\ s \in Readers
          /\ s.pendingCheck = FALSE /\ s.pendingFirstMessage = FALSE
          /\ s.pending = done.pending /\ s.pseudoInbox = done.pseudoInbox
          /\ s.dispatched = done.dispatched /\ s.at = done.at
          /\ s.haveCached = done.haveCached /\ s.fetching = done.fetching
          /\ s.needRefetch = done.needRefetch
      BY <1>3, <2>1, AnswerEffect
    <2>3. Local(s)
      BY <2>2, <1>3, <1>6, <1>7, <1>8, <1>10 DEF Local, ListFlags, Sorted, Begun
    <2>4. s.at = a \o <<>> /\ <<>> \in Seq(Commands)
      BY <2>2, <1>3, <1>6, EmptyConcat
    <2> QED
      BY <2>2, <2>3, <2>4, <1>1, <1>2, <1>3, <1>7, <1>10 DEF Cached, s, all, data, a, m
  <1> QED
    BY <1>9, <1>10

-----------------------------------------------------------------------------
\* The invariant

Answers   == {i \in DOMAIN rx : rx[i].what = "answer"}
Answering == ToSet(modem.answer) \cup {rx[i] : i \in Answers}
NoNews    == \A i \in DOMAIN rx : rx[i].what = "answer"

\* The modem answers the command at the head of the queue, and no other.
OneAnswer ==
  /\ modem.answer # <<>> => /\ Len(modem.answer) = 1
                            /\ modem.answer[1].what = "answer"
                            /\ Answers = {}
  /\ \A i, j \in Answers : i = j
  /\ Outstanding => reader.at # <<>>

\* What a list names is still on the SIM when the list is read, and its
\* datagrams have not been dispatched.
Snapshot ==
  \A l \in Answering :
     /\ Distinct(l.ids)
     /\ \A id \in ToSet(l.ids) : /\ id.place \in Places
                                 /\ modem.sim[id.place] = id.msg
                                 /\ id.msg \notin ToSet(reader.dispatched)

\* A message is in one place of the SIM, or in one line, or in the pseudo
\* inbox.
SimOnce ==
  /\ \A p \in Places : modem.sim[p] # 0 => modem.sim[p] \notin Direct /\ modem.sim[p] <= arrived
  /\ \A p, q \in Places : modem.sim[p] = modem.sim[q] /\ modem.sim[p] # 0 => p = q
DirectOnce ==
  /\ \A i, j \in DOMAIN rx :
        rx[i].what = "direct" /\ rx[j].what = "direct" /\ rx[i].msg = rx[j].msg => i = j
  /\ \A i \in DOMAIN rx : rx[i].what = "direct" =>
        /\ rx[i].msg \in Direct /\ rx[i].msg <= arrived
        /\ rx[i].msg \notin ToSet(reader.dispatched)
        /\ \A id \in ToSet(reader.pseudoInbox) : id.msg # rx[i].msg
PseudoNew ==
  \A id \in ToSet(reader.pseudoInbox) :
     id.msg <= arrived /\ id.msg \notin ToSet(reader.dispatched)

\* The deletion of place p comes before the next list.  `busy` says that the
\* command at the head of the queue has been executed.
Ahead(at, busy, p) ==
  \E k \in DOMAIN at : /\ at[k] = [cmd |-> "delete", place |-> p]
                       /\ busy => k # 1
                       /\ \A l \in 1..k : at[l].cmd # "list"
Gone ==
  /\ \A m \in ToSet(reader.dispatched) : m <= arrived
  /\ \A p \in Places : modem.sim[p] \in ToSet(reader.dispatched) =>
        Ahead(reader.at, Outstanding, p)

\* The places whose deletion the modem has still to execute.
Doomed(at, busy) ==
  {at[i].place : i \in {j \in DOMAIN at : at[j].cmd = "delete" /\ (busy => j # 1)}}
CacheKept ==
  /\ modem.notifies
  /\ NoNews /\ Cached(reader) =>
       /\ \A p \in Occupied \ Doomed(reader.at, Outstanding) :
             [place |-> p, msg |-> modem.sim[p]] \in ToSet(reader.pending)
       /\ ToSet(reader.pseudoInbox) \subseteq ToSet(reader.pending)
  /\ ~reader.needRefetch /\ NoNews /\ reader.at # <<>> /\ Head(reader.at).cmd = "list" =>
       \A l \in Answering : l.ok =>
          \A p \in Occupied : [place |-> p, msg |-> modem.sim[p]] \in ToSet(l.ids)

ReaderInv ==
  /\ ReaderType /\ Local(reader) /\ OneAnswer /\ Snapshot /\ SimOnce /\ DirectOnce
  /\ PseudoNew /\ Gone /\ DatagramsOnce /\ (Announces => CacheKept)

LEMMA Typed ==
  ASSUME ReaderType
  PROVE  /\ reader \in Readers /\ reader.at \in Seq(Commands) /\ reader.pending \in Seq(Ids)
         /\ reader.pseudoInbox \in Seq(Ids) /\ reader.dispatched \in Seq(Msgs)
         /\ modem \in Modems /\ modem.sim \in [Places -> 0..MaxMessages]
         /\ modem.answer \in Seq(Lines) /\ rx \in Seq(Lines)
         /\ arrived \in Nat
  BY MessagesAssumption, ReaderFields DEF ReaderType, Modems

LEMMA AheadGrows ==
  ASSUME NEW at \in Seq(Commands), NEW q \in Seq(Commands), NEW busy, NEW p,
         Ahead(at, busy, p)
  PROVE  Ahead(at \o q, busy, p)
  <1>1. PICK k \in DOMAIN at : /\ at[k] = [cmd |-> "delete", place |-> p]
                               /\ busy => k # 1
                               /\ \A l \in 1..k : at[l].cmd # "list"
    BY DEF Ahead
  <1>2. /\ DOMAIN at = 1..Len(at) /\ Len(at) \in Nat
        /\ Len(q) \in Nat /\ DOMAIN (at \o q) = 1..(Len(at) + Len(q))
        /\ \A i \in 1..Len(at) : (at \o q)[i] = at[i]
    BY Concats
  <1>3. k \in DOMAIN (at \o q) /\ (at \o q)[k] = at[k]
    BY <1>1, <1>2
  <1>4. \A l \in 1..k : (at \o q)[l] = at[l]
    BY <1>1, <1>2
  <1> QED
    BY <1>1, <1>3, <1>4 DEF Ahead

LEMMA DoomedGrows ==
  ASSUME NEW at \in Seq(Commands), NEW q \in Seq(Commands), NEW busy, busy => at # <<>>
  PROVE  /\ Doomed(at, busy) \subseteq Doomed(at \o q, busy)
         /\ \A p : (\E i \in DOMAIN q : q[i] = [cmd |-> "delete", place |-> p])
                     => p \in Doomed(at \o q, busy)
  <1>1. /\ DOMAIN at = 1..Len(at) /\ Len(at) \in Nat /\ DOMAIN q = 1..Len(q)
        /\ Len(q) \in Nat /\ DOMAIN (at \o q) = 1..(Len(at) + Len(q))
        /\ \A i \in 1..Len(at) : (at \o q)[i] = at[i]
        /\ \A i \in 1..Len(q) : (at \o q)[Len(at) + i] = q[i]
    BY Concats
  <1>2. Doomed(at, busy) \subseteq Doomed(at \o q, busy)
    BY <1>1 DEF Doomed
  <1>3. ASSUME NEW p, NEW i \in DOMAIN q, q[i] = [cmd |-> "delete", place |-> p]
        PROVE  p \in Doomed(at \o q, busy)
    <2>1. busy => Len(at) + i # 1
      BY <1>1
    <2>2. Len(at) + i \in DOMAIN (at \o q) /\ (at \o q)[Len(at) + i] = q[i]
      BY <1>1
    <2>3. (at \o q)[Len(at) + i].cmd = "delete" /\ (at \o q)[Len(at) + i].place = p
      BY <2>2, <1>3
    <2> QED
      BY <2>1, <2>2, <2>3 DEF Doomed
  <1> QED
    BY <1>2, <1>3

LEMMA HeadGrows ==
  ASSUME NEW at \in Seq(Commands), NEW q \in Seq(Commands), at # <<>>
  PROVE  at \o q # <<>> /\ Head(at \o q) = Head(at) /\ Head(at) = at[1] /\ 1 \in DOMAIN at
  <1>1. /\ DOMAIN at = 1..Len(at) /\ Len(at) \in Nat \ {0}
        /\ Len(q) \in Nat /\ at \o q \in Seq(Commands) /\ Len(at \o q) = Len(at) + Len(q)
        /\ \A i \in 1..Len(at) : (at \o q)[i] = at[i]
    BY Concats
  <1>2. (at \o q)[1] = at[1] /\ at \o q # <<>> /\ 1 \in DOMAIN at
    BY <1>1
  <1>3. Head(at) = at[1]
    OBVIOUS
  <1>4. \A s \in Seq(Commands) : s # <<>> => Head(s) = s[1]
    OBVIOUS
  <1> QED
    BY <1>1, <1>2, <1>4

\* The reader works while no line is read.
LEMMA ReaderWorks ==
  ASSUME ReaderInv, Local(reader'), After(reader, reader'),
         UNCHANGED <<modem, rx, arrived, failures>>
  PROVE  ReaderInv'
  <1>0. reader' \in Readers /\ ReaderType'
    BY DEF Local, ReaderInv, ReaderType
  <1>1. /\ reader'.dispatched = reader.dispatched
        /\ ToSet(reader'.pseudoInbox) \subseteq ToSet(reader.pseudoInbox)
        /\ reader.needRefetch => reader'.needRefetch
        /\ Cached(reader') =>
              /\ Cached(reader)
              /\ ToSet(reader.pseudoInbox) \subseteq ToSet(reader.pending) =>
                        ToSet(reader'.pseudoInbox) \subseteq ToSet(reader'.pending)
    BY DEF After
  <1>2. PICK q \in Seq(Commands) :
          /\ reader'.at = reader.at \o q
          /\ Cached(reader') => \A id \in ToSet(reader.pending) :
              \/ id \in ToSet(reader'.pending)
              \/ id.place = 0
              \/ \E i \in DOMAIN q : q[i] = [cmd |-> "delete", place |-> id.place]
    BY DEF After
  <1>3. Outstanding' = Outstanding /\ Answers' = Answers /\ Answering' = Answering /\ NoNews' = NoNews
    BY DEF Outstanding, Answers, Answering, NoNews
  <1>4. reader.at \in Seq(Commands) /\ reader.pending \in Seq(Ids)
    BY Typed DEF ReaderInv
  <1>5. Outstanding => reader.at # <<>>
    BY DEF ReaderInv, OneAnswer
  <1>6. OneAnswer'
    BY <1>2, <1>3, <1>4, <1>5, HeadGrows DEF ReaderInv, OneAnswer
  <1>7. Snapshot' /\ SimOnce' /\ DatagramsOnce'
    BY <1>1, <1>3 DEF ReaderInv, Snapshot, SimOnce, DatagramsOnce
  <1>8. DirectOnce' /\ PseudoNew'
    BY <1>1 DEF ReaderInv, DirectOnce, PseudoNew
  <1>9. Gone'
    BY <1>1, <1>2, <1>3, <1>4, AheadGrows DEF ReaderInv, Gone
  <1>10. Announces => CacheKept'
    <2>1. SUFFICES ASSUME CacheKept PROVE CacheKept'
      BY DEF ReaderInv
    <2>2. modem'.notifies
      BY <2>1 DEF CacheKept
    <2>3. ASSUME NoNews', Cached(reader')
          PROVE  /\ \A p \in Occupied' \ Doomed(reader.at \o q, Outstanding) :
                     [place |-> p, msg |-> modem'.sim[p]] \in ToSet(reader'.pending)
                 /\ ToSet(reader'.pseudoInbox) \subseteq ToSet(reader'.pending)
      <3>1. Occupied' = Occupied /\ modem' = modem
        BY DEF Occupied
      <3>2. /\ \A p \in Occupied \ Doomed(reader.at, Outstanding) :
                   [place |-> p, msg |-> modem.sim[p]] \in ToSet(reader.pending)
            /\ ToSet(reader.pseudoInbox) \subseteq ToSet(reader.pending)
        BY <2>1, <2>3, <1>1, <1>3 DEF CacheKept
      <3>3. /\ Doomed(reader.at, Outstanding) \subseteq Doomed(reader.at \o q, Outstanding)
            /\ \A p : (\E i \in DOMAIN q : q[i] = [cmd |-> "delete", place |-> p])
                     => p \in Doomed(reader.at \o q, Outstanding)
        BY <1>4, <1>5, DoomedGrows
      <3>4. ASSUME NEW p \in Occupied, p \notin Doomed(reader.at \o q, Outstanding)
            PROVE  [place |-> p, msg |-> modem.sim[p]] \in ToSet(reader'.pending)
        <4> DEFINE id == [place |-> p, msg |-> modem.sim[p]]
        <4>1. id \in ToSet(reader.pending) /\ id.place = p /\ p # 0
          BY <3>2, <3>3, <3>4, SlotsAssumption DEF Occupied, Places
        <4> QED
          BY <4>1, <3>3, <3>4, <1>2, <2>3
      <3> QED
        BY <3>1, <3>2, <3>4, <1>1, <2>3
    <2>4. ASSUME ~reader'.needRefetch, NoNews', reader'.at # <<>>, Head(reader'.at).cmd = "list",
                 NEW l \in Answering', l.ok, NEW p \in Occupied'
          PROVE  [place |-> p, msg |-> modem'.sim[p]] \in ToSet(l.ids)
      <3>1. Occupied' = Occupied
        BY DEF Occupied
      <3>2. Outstanding
        <4>1. l \in Answering
          BY <2>4, <1>3
        <4>2. CASE l \in ToSet(modem.answer)
          BY <4>2 DEF Outstanding, ToSet
        <4>3. CASE l \in {rx[i] : i \in Answers}
          BY <4>3 DEF Outstanding, Answers
        <4> QED
          BY <4>1, <4>2, <4>3 DEF Answering
      <3>3. reader.at # <<>> /\ Head(reader.at).cmd = "list"
        BY <3>2, <1>2, <1>4, <1>5, <2>4, HeadGrows
      <3>4. ~reader.needRefetch /\ NoNews /\ l \in Answering /\ p \in Occupied
        BY <2>4, <1>1, <1>3, <3>1
      <3> QED
        BY <3>3, <3>4, <2>1, <2>4 DEF CacheKept
    <2> QED
      BY <1>2, <1>3, <2>2, <2>3, <2>4 DEF CacheKept
  <1> QED
    BY <1>0, <1>6, <1>7, <1>8, <1>9, <1>10 DEF ReaderInv

LEMMA TailLines ==
  ASSUME ReaderType, rx # <<>>, rx' = Tail(rx)
  PROVE  /\ rx' \in Seq(Lines) /\ Head(rx) = rx[1] /\ 1 \in DOMAIN rx /\ rx[1] \in Lines
         /\ \A i \in DOMAIN rx' : i + 1 \in DOMAIN rx /\ rx'[i] = rx[i + 1] /\ i \in Nat \ {0}
         /\ \A i \in DOMAIN rx : i = 1 \/ (i - 1 \in DOMAIN rx' /\ rx'[i - 1] = rx[i])
  <1>1. rx \in Seq(Lines)
    BY DEF ReaderType
  <1>2. /\ Tail(rx) \in Seq(Lines) /\ Head(rx) = rx[1] /\ Head(rx) \in Lines
        /\ Len(rx) \in Nat \ {0} /\ DOMAIN rx = 1..Len(rx)
        /\ DOMAIN Tail(rx) = 1..(Len(rx) - 1)
        /\ \A i \in DOMAIN Tail(rx) : Tail(rx)[i] = rx[i + 1]
    BY <1>1, TailSet
  <1>3. \A i \in DOMAIN rx' : i + 1 \in DOMAIN rx /\ rx'[i] = rx[i + 1] /\ i \in Nat \ {0}
    BY <1>2
  <1>4. ASSUME NEW i \in DOMAIN rx, i # 1
        PROVE  i - 1 \in DOMAIN rx' /\ rx'[i - 1] = rx[i]
    <2>1. i - 1 \in 1..(Len(rx) - 1) /\ (i - 1) + 1 = i
      BY <1>2, <1>4
    <2> QED
      BY <2>1, <1>2
  <1> QED
    BY <1>2, <1>3, <1>4

\* A line that is no answer is read: someone has to list the store again.
LEMMA NewsRead ==
  ASSUME ReaderInv, rx # <<>>, rx' = Tail(rx), Head(rx).what # "answer",
         UNCHANGED <<modem, arrived, failures>>,
         Local(reader'), ~Cached(reader'), reader.fetching => reader'.needRefetch,
         reader'.dispatched = reader.dispatched,
         reader.needRefetch => reader'.needRefetch,
         \E q \in Seq(Commands) : reader'.at = reader.at \o q,
         DirectOnce', PseudoNew'
  PROVE  ReaderInv'
  <1>0. ReaderType
    BY DEF ReaderInv
  <1>1. /\ rx' \in Seq(Lines) /\ Head(rx) = rx[1]
        /\ \A i \in DOMAIN rx' : i + 1 \in DOMAIN rx /\ rx'[i] = rx[i + 1] /\ i \in Nat \ {0}
        /\ \A i \in DOMAIN rx : i = 1 \/ (i - 1 \in DOMAIN rx' /\ rx'[i - 1] = rx[i])
    BY <1>0, TailLines
  <1>2. ReaderType'
    BY <1>0, <1>1 DEF Local, ReaderType
  <1>3. PICK q \in Seq(Commands) : reader'.at = reader.at \o q
    OBVIOUS
  <1>4. /\ \A i \in Answers' : i + 1 \in Answers /\ rx'[i] = rx[i + 1] /\ i \in Nat
        /\ \A i \in Answers : i - 1 \in Answers' /\ rx'[i - 1] = rx[i]
    BY <1>1 DEF Answers
  <1>5. Outstanding <=> modem.answer # <<>> \/ Answers # {}
    BY DEF Outstanding, Answers
  <1>6. Outstanding' <=> modem'.answer # <<>> \/ Answers' # {}
    BY DEF Outstanding, Answers
  <1>7. (Outstanding' <=> Outstanding) /\ (Answers = {} => Answers' = {})
    BY <1>4, <1>5, <1>6
  <1>8. Answering' = Answering
    <2> DEFINE old == {rx[i] : i \in Answers}
               new == {rx'[i] : i \in Answers'}
    <2>1. ASSUME NEW i \in Answers' PROVE rx'[i] \in old
      BY <1>4
    <2>2. ASSUME NEW i \in Answers PROVE rx[i] \in new
      BY <1>4
    <2>3. new = old
      BY <2>1, <2>2, Zenon
    <2> QED
      BY <2>3 DEF Answering
  <1>9. reader.at \in Seq(Commands)
    BY Typed DEF ReaderInv
  <1>10. Outstanding => reader.at # <<>>
    BY DEF ReaderInv, OneAnswer
  <1>11. OneAnswer'
    <2>1. \A i, j \in Answers' : i = j
      BY <1>4 DEF ReaderInv, OneAnswer
    <2>2. Outstanding' => reader'.at # <<>>
      BY <1>3, <1>7, <1>9, <1>10, HeadGrows
    <2> QED
      BY <2>1, <2>2, <1>7 DEF ReaderInv, OneAnswer
  <1>12. Snapshot' /\ SimOnce' /\ DatagramsOnce'
    BY <1>8 DEF ReaderInv, Snapshot, SimOnce, DatagramsOnce
  <1>13. Gone'
    <2>1. \A p : Ahead(reader.at, Outstanding, p) => Ahead(reader'.at, Outstanding', p)
      <3>1. \A p : Ahead(reader.at, Outstanding, p) => Ahead(reader'.at, Outstanding, p)
        BY <1>3, <1>9, AheadGrows
      <3> QED
        BY <3>1, <1>7 DEF Ahead
    <2> QED
      BY <2>1 DEF ReaderInv, Gone
  <1>14. Announces => CacheKept'
    <2>1. SUFFICES ASSUME CacheKept PROVE CacheKept'
      BY DEF ReaderInv
    <2>2. modem'.notifies
      BY <2>1 DEF CacheKept
    <2>3. ASSUME ~reader'.needRefetch, NoNews', reader'.at # <<>>, Head(reader'.at).cmd = "list",
                 NEW l \in Answering'
          PROVE  FALSE
      <3>1. Outstanding
        <4>1. l \in Answering
          BY <1>8
        <4>2. CASE l \in ToSet(modem.answer)
          BY <4>2 DEF Outstanding, ToSet
        <4>3. CASE l \in {rx[i] : i \in Answers}
          BY <4>3 DEF Outstanding, Answers
        <4> QED
          BY <4>1, <4>2, <4>3 DEF Answering
      <3>2. reader.at[1].cmd = "list" /\ 1 \in DOMAIN reader.at
        BY <3>1, <1>3, <1>9, <1>10, <2>3, HeadGrows
      <3>3. reader.fetching
        BY <3>2 DEF ReaderInv, Local, ListFlags, Lists
      <3> QED
        BY <3>3, <2>3
    <2> QED
      BY <2>2, <2>3 DEF CacheKept
  <1> QED
    BY <1>2, <1>11, <1>12, <1>13, <1>14 DEF ReaderInv

LEMMA NoteRead ==
  ASSUME ReaderInv, rx # <<>>, rx' = Tail(rx), Head(rx).what = "note",
         UNCHANGED <<modem, arrived, failures>>,
         reader' = NewMessageArrived(reader)
  PROVE  ReaderInv'
  <1>1. ReaderType /\ Local(reader)
    BY DEF ReaderInv
  <1>2. /\ Local(reader') /\ After(reader, reader') /\ ~Cached(reader')
        /\ reader.fetching => reader'.needRefetch
        /\ reader'.pseudoInbox = reader.pseudoInbox
    BY <1>1, LocalNews DEF Local
  <1>3. /\ reader'.dispatched = reader.dispatched
        /\ reader.needRefetch => reader'.needRefetch
        /\ \E q \in Seq(Commands) : reader'.at = reader.at \o q
    BY <1>2 DEF After
  <1>4. \A i \in DOMAIN rx' : i + 1 \in DOMAIN rx /\ rx'[i] = rx[i + 1] /\ i \in Nat \ {0}
    BY <1>1, TailLines
  <1>5. DirectOnce'
    BY <1>2, <1>3, <1>4 DEF ReaderInv, DirectOnce
  <1>6. PseudoNew'
    BY <1>2, <1>3 DEF ReaderInv, PseudoNew
  <1> QED
    BY <1>2, <1>3, <1>5, <1>6, NewsRead

LEMMA AppendDistinct ==
  ASSUME NEW seq \in Seq(Ids), NEW id \in Ids, Distinct(seq),
         \A i \in DOMAIN seq : seq[i].msg # id.msg
  PROVE  Distinct(Append(seq, id))
  <1> DEFINE box == Append(seq, id)
             n == Len(seq)
  <1>1. /\ n \in Nat /\ DOMAIN seq = 1..n /\ DOMAIN box = 1..(n + 1)
        /\ box[n + 1] = id /\ \A i \in 1..n : box[i] = seq[i]
    BY LenProperties, AppendProperties
  <1>2. SUFFICES ASSUME NEW i \in DOMAIN box, NEW j \in DOMAIN box, box[i].msg = box[j].msg
                 PROVE  i = j
    BY DEF Distinct
  <1> HIDE DEF box, n
  <1>3. CASE i \in 1..n /\ j \in 1..n
    BY <1>1, <1>2, <1>3 DEF Distinct
  <1>4. CASE i \in 1..n /\ j = n + 1
    BY <1>1, <1>2, <1>4
  <1>5. CASE i = n + 1 /\ j \in 1..n
    BY <1>1, <1>2, <1>5
  <1> QED
    BY <1>1, <1>3, <1>4, <1>5

LEMMA DirectRead ==
  ASSUME ReaderInv, rx # <<>>, rx' = Tail(rx), Head(rx).what = "direct",
         UNCHANGED <<modem, arrived, failures>>,
         reader' = NewMessageArrived([reader EXCEPT
                 !.pseudoInbox = Append(@, [place |-> 0, msg |-> Head(rx).msg])])
  PROVE  ReaderInv'
  <1> DEFINE id == [place |-> 0, msg |-> Head(rx).msg]
             box == Append(reader.pseudoInbox, id)
             r == [reader EXCEPT !.pseudoInbox = box]
  <1>1. ReaderType /\ Local(reader) /\ reader \in Readers /\ reader.pseudoInbox \in Seq(Ids)
    BY Typed DEF ReaderInv
  <1>2. /\ Head(rx) = rx[1] /\ 1 \in DOMAIN rx /\ rx[1] \in Lines
        /\ \A i \in DOMAIN rx' : i + 1 \in DOMAIN rx /\ rx'[i] = rx[i + 1] /\ i \in Nat \ {0}
    BY <1>1, TailLines
  <1>3. /\ Head(rx).msg \in Direct /\ Head(rx).msg <= arrived
        /\ Head(rx).msg \notin ToSet(reader.dispatched)
        /\ \A x \in ToSet(reader.pseudoInbox) : x.msg # Head(rx).msg
    BY <1>2 DEF ReaderInv, DirectOnce
  <1>4. id \in Ids /\ id.place = 0 /\ id.msg = Head(rx).msg
    BY <1>2, <1>3, KindsAssumption, SlotsAssumption DEF Ids, Msgs
  <1> HIDE DEF id
  <1>5. box \in Seq(Ids) /\ ToSet(box) = ToSet(reader.pseudoInbox) \cup {id}
    BY <1>1, <1>4, AppendSet
  <1>6. Distinct(box)
    <2>1. Distinct(reader.pseudoInbox)
      BY <1>1 DEF Local, Sorted
    <2>2. \A i \in DOMAIN reader.pseudoInbox : reader.pseudoInbox[i].msg # id.msg
      BY <1>3, <1>4 DEF ToSet
    <2> QED
      BY <1>1, <1>4, <2>1, <2>2, AppendDistinct
  <1> HIDE DEF box
  <1>7. /\ r \in Readers /\ r.pseudoInbox = box /\ r.at = reader.at /\ r.pending = reader.pending
        /\ r.fetching = reader.fetching /\ r.needRefetch = reader.needRefetch
        /\ r.pendingCheck = reader.pendingCheck /\ r.pendingFirstMessage = reader.pendingFirstMessage
        /\ r.dispatched = reader.dispatched
    BY <1>1, <1>5 DEF Readers
  <1>8. reader' = NewMessageArrived(r)
    BY DEF box, id
  <1> HIDE DEF r
  <1>9. ListFlags(r)
    BY <1>1, <1>7 DEF Local, ListFlags
  <1>10. Sorted(r)
    BY <1>1, <1>3, <1>4, <1>5, <1>6, <1>7 DEF Local, Sorted
  <1>11. /\ Local(reader') /\ After(r, reader') /\ ~Cached(reader')
         /\ r.fetching => reader'.needRefetch
         /\ reader'.pseudoInbox = r.pseudoInbox
    BY <1>7, <1>8, <1>9, <1>10, LocalNews
  <1>12. /\ reader'.dispatched = reader.dispatched
         /\ reader.needRefetch => reader'.needRefetch
         /\ \E q \in Seq(Commands) : reader'.at = reader.at \o q
    BY <1>7, <1>11 DEF After
  <1>13. PseudoNew'
    BY <1>3, <1>4, <1>5, <1>7, <1>11, <1>12 DEF ReaderInv, PseudoNew
  <1>14. DirectOnce'
    <2>1. ASSUME NEW i \in DOMAIN rx', rx'[i].what = "direct"
          PROVE  rx'[i].msg # id.msg
      BY <1>2, <1>4, <2>1 DEF ReaderInv, DirectOnce
    <2>2. \A i \in DOMAIN rx' : rx'[i].what = "direct" =>
             /\ rx'[i].msg \in Direct /\ rx'[i].msg <= arrived'
             /\ rx'[i].msg \notin ToSet(reader'.dispatched)
             /\ \A x \in ToSet(reader.pseudoInbox) : x.msg # rx'[i].msg
      BY <1>2, <1>12 DEF ReaderInv, DirectOnce
    <2>3. \A i, j \in DOMAIN rx' :
            rx'[i].what = "direct" /\ rx'[j].what = "direct" /\ rx'[i].msg = rx'[j].msg => i = j
      BY <1>2 DEF ReaderInv, DirectOnce
    <2>4. \A x \in ToSet(reader'.pseudoInbox) : x \in ToSet(reader.pseudoInbox) \/ x = id
      BY <1>5, <1>7, <1>11
    <2> QED
      BY <2>1, <2>2, <2>3, <2>4 DEF DirectOnce
  <1> QED
    BY <1>7, <1>11, <1>12, <1>13, <1>14, NewsRead

-----------------------------------------------------------------------------
\* The answer to the command at the head of the queue

LEMMA AnswerRead ==
  ASSUME ReaderInv, rx # <<>>, rx' = Tail(rx), Head(rx).what = "answer", modem' = modem
  PROVE  /\ reader.at # <<>> /\ Outstanding /\ ~Outstanding' /\ Answers' = {} /\ Answering' = {}
         /\ modem.answer = <<>> /\ (NoNews' => NoNews)
         /\ Head(rx) \in Answering /\ Head(rx) \in Lines
         /\ rx' \in Seq(Lines)
         /\ \A i \in DOMAIN rx' : i + 1 \in DOMAIN rx /\ rx'[i] = rx[i + 1] /\ i \in Nat \ {0}
  <1>1. ReaderType /\ OneAnswer
    BY DEF ReaderInv
  <1>2. /\ rx' \in Seq(Lines) /\ Head(rx) = rx[1] /\ 1 \in DOMAIN rx /\ rx[1] \in Lines
        /\ \A i \in DOMAIN rx' : i + 1 \in DOMAIN rx /\ rx'[i] = rx[i + 1] /\ i \in Nat \ {0}
        /\ \A i \in DOMAIN rx : i = 1 \/ (i - 1 \in DOMAIN rx' /\ rx'[i - 1] = rx[i])
    BY <1>1, TailLines
  <1>3. 1 \in Answers
    BY <1>2 DEF Answers
  <1>4. Answers = {1} /\ modem.answer = <<>>
    BY <1>1, <1>3 DEF OneAnswer
  <1>5. Answers' = {}
    <2>1. \A i \in Answers' : i + 1 \in Answers /\ i \in Nat \ {0}
      BY <1>2 DEF Answers
    <2> QED
      BY <2>1, <1>4
  <1>6. Outstanding /\ ~Outstanding'
    BY <1>3, <1>4, <1>5 DEF Outstanding, Answers
  <1>7. reader.at # <<>>
    BY <1>1, <1>6 DEF OneAnswer
  <1>8. Answering' = {}
    BY <1>4, <1>5 DEF Answering, ToSet
  <1>9. NoNews' => NoNews
    <2>1. SUFFICES ASSUME NoNews', NEW i \in DOMAIN rx
                   PROVE  rx[i].what = "answer"
      BY Zenon DEF NoNews
    <2>2. CASE i = 1
      BY <2>2, <1>2
    <2>3. CASE i - 1 \in DOMAIN rx' /\ rx'[i - 1] = rx[i]
      BY <2>1, <2>3, Zenon DEF NoNews
    <2> QED
      BY <2>2, <2>3, <1>2
  <1>10. Head(rx) \in Answering
    BY <1>2, <1>3 DEF Answering
  <1> QED
    BY <1>2, <1>4, <1>5, <1>6, <1>7, <1>8, <1>9, <1>10

\* The queue without its head
LEMMA QueueTail ==
  ASSUME NEW at \in Seq(Commands), at # <<>>
  PROVE  /\ Tail(at) \in Seq(Commands) /\ Head(at) = at[1] /\ 1 \in DOMAIN at /\ at[1] \in Commands
         /\ \A p : Ahead(at, TRUE, p) => Ahead(Tail(at), FALSE, p)
         /\ Doomed(at, TRUE) = Doomed(Tail(at), FALSE)
         /\ at[1].cmd = "list" => \A p : ~Ahead(at, TRUE, p)
         /\ \A i \in Lists(Tail(at)) : i + 1 \in Lists(at) /\ i \in Nat \ {0}
         /\ \A i \in Lists(at) : i = 1 \/ i - 1 \in Lists(Tail(at))
  <1>1. /\ Tail(at) \in Seq(Commands) /\ Head(at) = at[1] /\ Head(at) \in Commands
        /\ Len(at) \in Nat \ {0} /\ DOMAIN at = 1..Len(at)
        /\ DOMAIN Tail(at) = 1..(Len(at) - 1)
        /\ \A i \in DOMAIN Tail(at) : Tail(at)[i] = at[i + 1]
    BY TailSet
  <1> DEFINE t == Tail(at)
  <1>2. /\ \A i \in DOMAIN t : i + 1 \in DOMAIN at /\ t[i] = at[i + 1] /\ i \in Nat \ {0}
        /\ \A i \in DOMAIN at : i = 1 \/ (i - 1 \in DOMAIN t /\ t[i - 1] = at[i])
    <2>1. \A i \in DOMAIN t : i + 1 \in DOMAIN at /\ t[i] = at[i + 1] /\ i \in Nat \ {0}
      BY <1>1
    <2>2. ASSUME NEW i \in DOMAIN at, i # 1 PROVE i - 1 \in DOMAIN t /\ t[i - 1] = at[i]
      <3>1. i - 1 \in 1..(Len(at) - 1) /\ (i - 1) + 1 = i
        BY <1>1, <2>2
      <3> QED
        BY <3>1, <1>1
    <2> QED
      BY <2>1, <2>2
  <1> HIDE DEF t
  <1>3. ASSUME NEW p, Ahead(at, TRUE, p)
        PROVE  Ahead(t, FALSE, p) /\ at[1].cmd # "list"
    <2>1. PICK k \in DOMAIN at : /\ at[k] = [cmd |-> "delete", place |-> p]
                                 /\ k # 1
                                 /\ \A l \in 1..k : at[l].cmd # "list"
      BY <1>3 DEF Ahead
    <2>2. k - 1 \in DOMAIN t /\ t[k - 1] = [cmd |-> "delete", place |-> p] /\ k \in Nat
      BY <2>1, <1>1, <1>2
    <2>3. ASSUME NEW l \in 1..(k - 1)
          PROVE  t[l].cmd # "list"
      <3>1. l \in DOMAIN t
        BY <2>1, <1>1, <2>3 DEF t
      <3> QED
        BY <3>1, <1>2, <2>1, <2>2, <2>3
    <2>4. at[1].cmd # "list"
      BY <2>1, <2>2, <1>1
    <2> QED
      BY <2>2, <2>3, <2>4 DEF Ahead
  <1>4. Doomed(at, TRUE) = Doomed(t, FALSE)
    <2>1. ASSUME NEW i \in DOMAIN at, at[i].cmd = "delete", i # 1
          PROVE  at[i].place \in Doomed(t, FALSE)
      <3>1. i - 1 \in DOMAIN t /\ t[i - 1] = at[i]
        BY <1>2, <2>1
      <3> QED
        BY <3>1, <2>1 DEF Doomed
    <2>2. ASSUME NEW i \in DOMAIN t, t[i].cmd = "delete"
          PROVE  t[i].place \in Doomed(at, TRUE)
      <3>1. i + 1 \in DOMAIN at /\ t[i] = at[i + 1] /\ i + 1 # 1
        BY <1>2
      <3> QED
        BY <3>1, <2>2 DEF Doomed
    <2>3. Doomed(at, TRUE) \subseteq Doomed(t, FALSE)
      BY <2>1 DEF Doomed
    <2>4. Doomed(t, FALSE) \subseteq Doomed(at, TRUE)
      BY <2>2 DEF Doomed
    <2> QED
      BY <2>3, <2>4
  <1>5. /\ \A i \in Lists(t) : i + 1 \in Lists(at) /\ i \in Nat \ {0}
        /\ \A i \in Lists(at) : i = 1 \/ i - 1 \in Lists(t)
    BY <1>2 DEF Lists
  <1>6. \A p : Ahead(at, TRUE, p) => Ahead(t, FALSE, p)
    BY <1>3
  <1>7. at[1].cmd = "list" => \A p : ~Ahead(at, TRUE, p)
    BY <1>3
  <1>8. Tail(at) \in Seq(Commands) /\ Head(at) = at[1] /\ 1 \in DOMAIN at /\ at[1] \in Commands
    BY <1>1
  <1>9. /\ \A p : Ahead(at, TRUE, p) => Ahead(Tail(at), FALSE, p)
        /\ Doomed(at, TRUE) = Doomed(Tail(at), FALSE)
    BY <1>4, <1>6 DEF t
  <1>10. /\ \A i \in Lists(Tail(at)) : i + 1 \in Lists(at) /\ i \in Nat \ {0}
         /\ \A i \in Lists(at) : i = 1 \/ i - 1 \in Lists(Tail(at))
    BY <1>5 DEF t
  <1> QED
    BY <1>7, <1>8, <1>9, <1>10

\* Any answer but that to AT+CMGL only counts places or queues a command.
LEMMA OtherAnswerRead ==
  ASSUME ReaderInv, rx # <<>>, rx' = Tail(rx), Head(rx).what = "answer",
         UNCHANGED <<modem, arrived, failures>>,
         Head(reader.at).cmd # "list",
         reader' \in Readers,
         NEW q \in Seq(Commands), Lists(q) = {}, reader'.at = Tail(reader.at) \o q,
         reader'.pending = reader.pending, reader'.pseudoInbox = reader.pseudoInbox,
         reader'.fetching = reader.fetching, reader'.needRefetch = reader.needRefetch,
         reader'.pendingCheck = reader.pendingCheck,
         reader'.pendingFirstMessage = reader.pendingFirstMessage,
         reader'.dispatched = reader.dispatched, reader'.haveCached = reader.haveCached
  PROVE  ReaderInv'
  <1>1. /\ reader.at # <<>> /\ Outstanding /\ ~Outstanding' /\ Answers' = {} /\ Answering' = {}
        /\ modem.answer = <<>> /\ (NoNews' => NoNews)
        /\ rx' \in Seq(Lines)
        /\ \A i \in DOMAIN rx' : i + 1 \in DOMAIN rx /\ rx'[i] = rx[i + 1] /\ i \in Nat \ {0}
    BY AnswerRead
  <1>2. reader.at \in Seq(Commands) /\ ReaderType /\ Local(reader)
    BY Typed DEF ReaderInv
  <1> DEFINE at == reader.at
             t == Tail(reader.at)
  <1>3. /\ t \in Seq(Commands) /\ Head(at) = at[1] /\ 1 \in DOMAIN at
        /\ \A p : Ahead(at, TRUE, p) => Ahead(t, FALSE, p)
        /\ Doomed(at, TRUE) = Doomed(t, FALSE)
        /\ \A i \in Lists(t) : i + 1 \in Lists(at) /\ i \in Nat \ {0}
        /\ \A i \in Lists(at) : i = 1 \/ i - 1 \in Lists(t)
    BY <1>1, <1>2, QueueTail
  <1> HIDE DEF t
  <1>4. Lists(reader'.at) = Lists(t)
    BY <1>3, ListsConcat DEF t
  <1>5. 1 \notin Lists(at)
    BY <1>3 DEF Lists
  <1>6. Local(reader')
    <2>1. ListFlags(reader')
      <3>1. Lists(t) # {} <=> Lists(at) # {}
        BY <1>3, <1>5
      <3>2. \A i, j \in Lists(t) : i = j
        BY <1>2, <1>3 DEF Local, ListFlags
      <3> QED
        BY <3>1, <3>2, <1>2, <1>4 DEF Local, ListFlags
    <2> QED
      BY <2>1, <1>2 DEF Local, Sorted, Begun
  <1>7. ReaderType'
    BY <1>1, <1>2 DEF ReaderType
  <1>8. OneAnswer'
    BY <1>1 DEF OneAnswer
  <1>9. Snapshot' /\ SimOnce' /\ PseudoNew' /\ DatagramsOnce'
    <2>1. Snapshot'
      BY <1>1 DEF Snapshot
    <2>2. SimOnce' /\ PseudoNew'
      BY DEF ReaderInv, SimOnce, PseudoNew
    <2>3. DatagramsOnce'
      BY DEF ReaderInv, DatagramsOnce
    <2> QED
      BY <2>1, <2>2, <2>3
  <1>10. DirectOnce'
    <2>1. \A i \in DOMAIN rx' : i + 1 \in DOMAIN rx /\ rx'[i] = rx[i + 1] /\ i \in Nat \ {0}
      BY <1>1
    <2>2. DirectOnce
      BY DEF ReaderInv
    <2>3. \A i, j \in DOMAIN rx' :
            rx'[i].what = "direct" /\ rx'[j].what = "direct" /\ rx'[i].msg = rx'[j].msg => i = j
      BY <2>1, <2>2 DEF DirectOnce
    <2>4. \A i \in DOMAIN rx' : rx'[i].what = "direct" =>
             /\ rx'[i].msg \in Direct /\ rx'[i].msg <= arrived'
             /\ rx'[i].msg \notin ToSet(reader'.dispatched)
             /\ \A x \in ToSet(reader'.pseudoInbox) : x.msg # rx'[i].msg
      BY <2>1, <2>2 DEF DirectOnce
    <2> QED
      BY <2>3, <2>4 DEF DirectOnce
  <1>11. Gone'
    <2>1. \A p : Ahead(at, Outstanding, p) => Ahead(reader'.at, Outstanding', p)
      <3>1. \A p : Ahead(at, Outstanding, p) => Ahead(at, TRUE, p)
        BY <1>1 DEF Ahead
      <3>2. \A p : Ahead(t, FALSE, p) => Ahead(reader'.at, FALSE, p)
        BY <1>3, AheadGrows DEF t
      <3>3. \A p : Ahead(reader'.at, FALSE, p) => Ahead(reader'.at, Outstanding', p)
        BY <1>1 DEF Ahead
      <3> QED
        BY <3>1, <3>2, <3>3, <1>3
    <2> QED
      BY <2>1 DEF ReaderInv, Gone
  <1>12. Announces => CacheKept'
    <2>1. SUFFICES ASSUME CacheKept PROVE CacheKept'
      BY DEF ReaderInv
    <2>2. Doomed(at, Outstanding) \subseteq Doomed(reader'.at, Outstanding')
      <3>1. Doomed(at, Outstanding) \subseteq Doomed(at, TRUE)
        BY <1>1 DEF Doomed
      <3>2. Doomed(t, FALSE) \subseteq Doomed(reader'.at, FALSE)
        BY <1>3, DoomedGrows DEF t
      <3>3. Doomed(reader'.at, FALSE) \subseteq Doomed(reader'.at, Outstanding')
        BY <1>1 DEF Doomed
      <3> QED
        BY <3>1, <3>2, <3>3, <1>3
    <2>3. Occupied' = Occupied /\ (Cached(reader') <=> Cached(reader))
      BY DEF Occupied, Cached
    <2> QED
      BY <2>1, <2>2, <2>3, <1>1 DEF CacheKept
  <1> QED
    BY <1>6, <1>7, <1>8, <1>9, <1>10, <1>11, <1>12 DEF ReaderInv

LEMMA DeletionFor ==
  ASSUME NEW ids \in Seq(Ids), NEW id \in ToSet(ids), id.place # 0
  PROVE  \E i \in DOMAIN Deletions(ids) : Deletions(ids)[i] = [cmd |-> "delete", place |-> id.place]
  <1>1. /\ DOMAIN Deletions(ids) = DOMAIN Stored(ids)
        /\ \A i \in DOMAIN Deletions(ids) :
              Deletions(ids)[i] = [cmd |-> "delete", place |-> Stored(ids)[i].place]
    BY DeletionsProperties
  <1>2. Stored(ids) \in Seq(StoredIds) /\ id \in ToSet(Stored(ids))
    BY StoredProperties
  <1>3. PICK i \in DOMAIN Stored(ids) : Stored(ids)[i] = id
    BY <1>2, SetOfSeq, Zenon
  <1> QED
    BY <1>1, <1>3

LEMMA AheadOfLists ==
  ASSUME NEW a \in Seq(Commands), NEW d \in Seq(Commands), Lists(a) = {}, Lists(d) = {},
         NEW p, \E i \in DOMAIN d : d[i] = [cmd |-> "delete", place |-> p]
  PROVE  Ahead(a \o d, FALSE, p)
  <1>1. PICK i \in DOMAIN d : d[i] = [cmd |-> "delete", place |-> p]
    OBVIOUS
  <1>2. /\ DOMAIN a = 1..Len(a) /\ Len(a) \in Nat /\ DOMAIN d = 1..Len(d)
        /\ Len(d) \in Nat /\ DOMAIN (a \o d) = 1..(Len(a) + Len(d))
        /\ \A j \in 1..Len(d) : (a \o d)[Len(a) + j] = d[j]
    BY Concats
  <1>3. Lists(a \o d) = {}
    BY ListsConcat
  <1> DEFINE k == Len(a) + i
  <1>4. k \in DOMAIN (a \o d) /\ (a \o d)[k] = [cmd |-> "delete", place |-> p]
    BY <1>1, <1>2
  <1>5. \A l \in 1..k : (a \o d)[l].cmd # "list"
    <2>1. \A l \in 1..k : l \in DOMAIN (a \o d)
      BY <1>2, <1>4
    <2> QED
      BY <2>1, <1>3 DEF Lists
  <1> QED
    BY <1>4, <1>5 DEF Ahead

LEMMA ConcatOnce ==
  ASSUME NEW A, NEW s \in Seq(A), NEW t \in Seq(A), ToSet(s) \cap ToSet(t) = {},
         \A i, j \in DOMAIN s : s[i] = s[j] => i = j,
         \A i, j \in DOMAIN t : t[i] = t[j] => i = j
  PROVE  \A i, j \in DOMAIN (s \o t) : (s \o t)[i] = (s \o t)[j] => i = j
  <1>1. /\ DOMAIN s = 1..Len(s) /\ Len(s) \in Nat /\ DOMAIN t = 1..Len(t) /\ Len(t) \in Nat
        /\ DOMAIN (s \o t) = 1..(Len(s) + Len(t))
        /\ \A i \in 1..Len(s) : (s \o t)[i] = s[i]
        /\ \A i \in 1..Len(t) : (s \o t)[Len(s) + i] = t[i]
    BY Concats
  <1> DEFINE u == s \o t
  <1> HIDE DEF u
  <1>2. ASSUME NEW i \in DOMAIN u
        PROVE  \/ i \in DOMAIN s /\ u[i] = s[i]
               \/ i - Len(s) \in DOMAIN t /\ u[i] = t[i - Len(s)] /\ i \notin DOMAIN s
    <2>1. CASE i \in 1..Len(s)
      BY <1>1, <2>1 DEF u
    <2>2. CASE i \notin 1..Len(s)
      <3>1. i - Len(s) \in 1..Len(t) /\ Len(s) + (i - Len(s)) = i
        BY <1>1, <2>2 DEF u
      <3>2. u[Len(s) + (i - Len(s))] = t[i - Len(s)]
        BY <3>1, <1>1 DEF u
      <3> QED
        BY <3>1, <3>2, <2>2, <1>1
    <2> QED
      BY <2>1, <2>2
  <1>3. \A i \in DOMAIN s, j \in DOMAIN t : s[i] # t[j]
    BY DEF ToSet
  <1>4. SUFFICES ASSUME NEW i \in DOMAIN u, NEW j \in DOMAIN u, u[i] = u[j]
                 PROVE  i = j
    BY DEF u
  <1>5. i \in Int /\ j \in Int
    BY <1>1 DEF u
  <1> QED
    BY <1>1, <1>2, <1>3, <1>4, <1>5

LEMMA MsgsConcat == \A s, t \in Seq(Msgs) : ToSet(s \o t) = ToSet(s) \cup ToSet(t)
  BY ConcatSet

LEMMA IdsAt == \A s \in Seq(Ids) : \A x \in ToSet(s) : \E i \in DOMAIN s : s[i] = x
  BY SetOfSeq

\* The answer to AT+CMGL
LEMMA ListRead ==
  ASSUME ReaderInv, rx # <<>>, rx' = Tail(rx), Head(rx).what = "answer",
         UNCHANGED <<modem, arrived, failures>>,
         Head(reader.at).cmd = "list",
         reader' = StoreListDone([reader EXCEPT !.at = Tail(@)], Head(rx).ok, Head(rx).ids)
  PROVE  ReaderInv'
  <1> DEFINE at   == reader.at
             t    == Tail(reader.at)
             r    == [reader EXCEPT !.at = t]
             ok   == Head(rx).ok
             ids  == Head(rx).ids
             all  == reader.pending \o ids
             data == DataOf(all)
             new  == MsgSeq(data)
  <1>0. /\ reader.at # <<>> /\ Outstanding /\ ~Outstanding' /\ Answers' = {} /\ Answering' = {}
        /\ modem.answer = <<>> /\ (NoNews' => NoNews)
        /\ Head(rx) \in Answering /\ Head(rx) \in Lines
        /\ rx' \in Seq(Lines)
        /\ \A i \in DOMAIN rx' : i + 1 \in DOMAIN rx /\ rx'[i] = rx[i + 1] /\ i \in Nat \ {0}
    BY AnswerRead
  <1>1. /\ ReaderType /\ Local(reader) /\ reader \in Readers /\ reader.at \in Seq(Commands)
        /\ reader.pending \in Seq(Ids) /\ reader.pseudoInbox \in Seq(Ids)
        /\ reader.dispatched \in Seq(Msgs) /\ modem.sim \in [Places -> 0..MaxMessages]
    BY Typed DEF ReaderInv
  <1>2. ok \in BOOLEAN /\ ids \in Seq(Ids)
    BY <1>0 DEF Lines
  <1>3. /\ t \in Seq(Commands) /\ Head(at) = at[1] /\ 1 \in DOMAIN at
        /\ \A p : ~Ahead(at, TRUE, p)
        /\ \A i \in Lists(t) : i + 1 \in Lists(at) /\ i \in Nat \ {0}
    <2>1. /\ t \in Seq(Commands) /\ Head(at) = at[1] /\ 1 \in DOMAIN at
          /\ at[1].cmd = "list" => \A p : ~Ahead(at, TRUE, p)
          /\ \A i \in Lists(t) : i + 1 \in Lists(at) /\ i \in Nat \ {0}
      BY <1>0, <1>1, QueueTail
    <2> QED
      BY <2>1
  <1> HIDE DEF t, ok, ids
  <1>4. 1 \in Lists(at) /\ Lists(t) = {}
    <2>1. 1 \in Lists(at)
      BY <1>3 DEF Lists
    <2>2. \A i, j \in Lists(at) : i = j
      BY <1>1 DEF Local, ListFlags
    <2> QED
      BY <2>1, <2>2, <1>3
  <1>5. /\ r \in Readers /\ r.at = t /\ r.pending = reader.pending /\ r.pseudoInbox = reader.pseudoInbox
        /\ r.fetching = reader.fetching /\ r.needRefetch = reader.needRefetch
        /\ r.pendingCheck = reader.pendingCheck
        /\ r.pendingFirstMessage = reader.pendingFirstMessage
        /\ r.dispatched = reader.dispatched
    BY <1>1, <1>3 DEF Readers
  <1>6. reader' = StoreListDone(r, ok, ids)
    BY DEF r, t, ok, ids
  <1> HIDE DEF r
  <1>7. /\ reader.fetching /\ (reader.pendingCheck \/ reader.pendingFirstMessage)
        /\ Sorted(reader) /\ Begun(reader)
    BY <1>1, <1>4 DEF Local, ListFlags
  <1>8. Sorted(r) /\ Begun(r)
    BY <1>5, <1>7 DEF Sorted, Begun
  <1>9. /\ Distinct(ids)
        /\ \A id \in ToSet(ids) : /\ id \in Ids
                                  /\ id.place \in Places /\ id.place # 0
                                  /\ modem.sim[id.place] = id.msg /\ id.msg # 0
                                  /\ id.msg \notin Direct /\ id.msg <= arrived
                                  /\ id.msg \notin ToSet(reader.dispatched)
    <2>1. /\ Distinct(ids)
          /\ \A id \in ToSet(ids) : /\ id.place \in Places /\ modem.sim[id.place] = id.msg
                                    /\ id.msg \notin ToSet(reader.dispatched)
      BY <1>0 DEF ReaderInv, Snapshot, ids
    <2>2. \A id \in ToSet(ids) : id \in Ids /\ id.msg # 0
      <3>1. ToSet(ids) \subseteq Ids
        BY <1>2, SetOfSeq
      <3> QED
        BY <3>1 DEF Ids, Msgs
    <2>3. \A p \in Places : p # 0
      BY SlotsAssumption DEF Places
    <2>4. \A p \in Places : modem.sim[p] # 0 => modem.sim[p] \notin Direct /\ modem.sim[p] <= arrived
      BY DEF ReaderInv, SimOnce
    <2> QED
      BY <2>1, <2>2, <2>3, <2>4
  <1>10. /\ Local(reader') /\ Distinct(all) /\ all \in Seq(Ids)
         /\ ToSet(all) = ToSet(reader.pending) \cup ToSet(ids)
         /\ ToSet(reader'.pseudoInbox) = ToSet(reader.pseudoInbox) \ ToSet(data)
         /\ reader'.dispatched = reader.dispatched \o new
         /\ \E q \in Seq(Commands) : reader'.at = (t \o Deletions(data)) \o q
         /\ Cached(reader') => /\ ok /\ ~reader.needRefetch
                               /\ ToSet(reader'.pending) = ToSet(all) \ ToSet(data)
    <2>1. LET s == StoreListDone(r, ok, ids)
              a == r.pending \o ids
              d == DataOf(a)
          IN /\ Local(s) /\ Distinct(a) /\ a \in Seq(Ids)
             /\ ToSet(a) = ToSet(r.pending) \cup ToSet(ids)
             /\ ToSet(s.pseudoInbox) = ToSet(r.pseudoInbox) \ ToSet(d)
             /\ s.dispatched = r.dispatched \o MsgSeq(d)
             /\ \E q \in Seq(Commands) : s.at = (r.at \o Deletions(d)) \o q
             /\ Cached(s) => /\ ok /\ ~r.needRefetch
                             /\ ToSet(s.pending) = ToSet(a) \ ToSet(d)
      <3>1. Lists(r.at) = {} /\ r.fetching /\ (r.pendingCheck \/ r.pendingFirstMessage)
        BY <1>4, <1>5, <1>7
      <3>2. \A id \in ToSet(ids) : id.place # 0 /\ id.msg \notin Direct
        BY <1>9
      <3>3. r \in Readers /\ Sorted(r) /\ Begun(r) /\ ok \in BOOLEAN /\ ids \in Seq(Ids) /\ Distinct(ids)
        BY <1>2, <1>5, <1>8, <1>9
      <3> HIDE DEF data, all, new
      <3> QED
        BY <3>1, <3>2, <3>3, LocalListDone, ZenonT(60)
    <2> QED
      BY <2>1, <1>5, <1>6, Zenon
  <1> HIDE DEF all
  <1>11. /\ data \in Seq(Ids)
         /\ ToSet(data) = {id \in ToSet(all) : id.msg \in Datagrams}
         /\ Distinct(data)
    BY <1>10, DataProperties
  <1>12. /\ new \in Seq(Msgs) /\ DOMAIN new = DOMAIN data
         /\ \A i \in DOMAIN data : new[i] = data[i].msg
         /\ ToSet(new) = {id.msg : id \in ToSet(data)}
    BY <1>11, MsgSeqProperties
  <1>13. /\ Deletions(data) \in Seq(Commands) /\ Lists(Deletions(data)) = {}
         /\ \A id \in ToSet(data) : id.place # 0 =>
               \E i \in DOMAIN Deletions(data) :
                  Deletions(data)[i] = [cmd |-> "delete", place |-> id.place]
    BY <1>11, DeletionsProperties, DeletionsNoList, DeletionFor
  <1> DEFINE d == Deletions(data)
  <1> HIDE DEF data, new, d
  <1>14. ToSet(reader.pending) \subseteq ToSet(reader.pseudoInbox)
    BY <1>7 DEF Sorted
  <1>15. \A id \in ToSet(reader.pseudoInbox) : /\ id.place = 0 /\ id.msg \in Direct
                                               /\ id.msg <= arrived
                                               /\ id.msg \notin ToSet(reader.dispatched)
    BY <1>7 DEF Sorted, ReaderInv, PseudoNew
  <1>16. \A id \in ToSet(data) : /\ id \in ToSet(ids) \/ id \in ToSet(reader.pseudoInbox)
                                 /\ id.msg <= arrived
                                 /\ id.msg \notin ToSet(reader.dispatched)
    BY <1>9, <1>10, <1>11, <1>14, <1>15
  <1>17. ToSet(reader'.dispatched) = ToSet(reader.dispatched) \cup ToSet(new)
    <2>1. reader'.dispatched = reader.dispatched \o new /\ new \in Seq(Msgs)
      BY <1>10, <1>12 DEF new, data
    <2>2. reader.dispatched \in Seq(Msgs)
      BY <1>1
    <2>3. ToSet(reader.dispatched \o new) = ToSet(reader.dispatched) \cup ToSet(new)
      BY <2>1, <2>2, MsgsConcat
    <2> QED
      BY <2>1, <2>3, Zenon
  <1>18. PICK q \in Seq(Commands) : reader'.at = (t \o d) \o q
    BY <1>10 DEF d
  <1>19. t \o d \in Seq(Commands)
    BY <1>3, <1>13, Concats DEF d
  <1>20. ReaderType'
    BY <1>0, <1>1, <1>10 DEF ReaderType, Local
  <1>21. OneAnswer' /\ Snapshot'
    BY <1>0 DEF OneAnswer, Snapshot
  <1>22. SimOnce'
    BY DEF ReaderInv, SimOnce
  <1>23. DatagramsOnce'
    <2>1. ToSet(reader.dispatched) \cap ToSet(new) = {}
      BY <1>12, <1>16
    <2>2. \A i, j \in DOMAIN new : new[i] = new[j] => i = j
      BY <1>11, <1>12 DEF Distinct
    <2>3. \A i, j \in DOMAIN reader.dispatched : reader.dispatched[i] = reader.dispatched[j] => i = j
      BY DEF ReaderInv, DatagramsOnce
    <2> DEFINE Once(seq) == \A i, j \in DOMAIN seq : seq[i] = seq[j] => i = j
    <2>4. Once(reader.dispatched \o new)
      <3>1. reader.dispatched \in Seq(Msgs) /\ new \in Seq(Msgs)
        BY <1>1, <1>12
      <3> HIDE DEF new
      <3> QED
        BY <3>1, <2>1, <2>2, <2>3, ConcatOnce, Zenon
    <2>5. reader'.dispatched = reader.dispatched \o new
      BY <1>10
    <2> HIDE DEF new, Once
    <2>6. Once(reader'.dispatched)
      BY <2>4, <2>5, Zenon
    <2> QED
      BY <2>6 DEF DatagramsOnce, Once
  <1>24. PseudoNew'
    <2>1. SUFFICES ASSUME NEW id \in ToSet(reader.pseudoInbox), id \notin ToSet(data),
                          NEW x \in ToSet(data), x.msg = id.msg
                   PROVE  FALSE
      BY <1>10, <1>12, <1>15, <1>17 DEF PseudoNew
    <2>2. x \in ToSet(reader.pseudoInbox)
      <3>1. x.msg \in Direct
        BY <2>1, <1>15
      <3>2. x \notin ToSet(ids)
        BY <3>1, <1>9
      <3> QED
        BY <3>2, <2>1, <1>16
    <2>0. \A y \in ToSet(reader.pseudoInbox) :
             \E i \in DOMAIN reader.pseudoInbox : reader.pseudoInbox[i] = y
      <3>1. reader.pseudoInbox \in Seq(Ids)
        BY <1>1
      <3> QED
        BY <3>1, IdsAt
    <2>3. PICK i \in DOMAIN reader.pseudoInbox : reader.pseudoInbox[i] = id
      BY <2>0, <2>1
    <2>4. PICK j \in DOMAIN reader.pseudoInbox : reader.pseudoInbox[j] = x
      BY <2>0, <2>2
    <2>5. i = j
      BY <2>1, <2>3, <2>4, <1>7 DEF Sorted, Distinct
    <2> QED
      BY <2>1, <2>3, <2>4, <2>5
  <1>25. DirectOnce'
    <2>1. \A i \in DOMAIN rx' : i + 1 \in DOMAIN rx /\ rx'[i] = rx[i + 1] /\ i \in Nat \ {0}
      BY <1>0
    <2>2. DirectOnce
      BY DEF ReaderInv
    <2>3. \A i, j \in DOMAIN rx' :
            rx'[i].what = "direct" /\ rx'[j].what = "direct" /\ rx'[i].msg = rx'[j].msg => i = j
      BY <2>1, <2>2 DEF DirectOnce
    <2>4. \A i \in DOMAIN rx' : rx'[i].what = "direct" =>
             /\ rx'[i].msg \in Direct /\ rx'[i].msg <= arrived'
             /\ rx'[i].msg \notin ToSet(reader.dispatched)
             /\ \A x \in ToSet(reader.pseudoInbox) : x.msg # rx'[i].msg
      BY <2>1, <2>2 DEF DirectOnce
    <2>5. ASSUME NEW i \in DOMAIN rx', rx'[i].what = "direct"
          PROVE  rx'[i].msg \notin ToSet(new)
      <3>1. \A id \in ToSet(data) : id.msg # rx'[i].msg
        BY <2>4, <2>5, <1>9, <1>16
      <3> QED
        BY <3>1, <1>12
    <2>6. /\ ToSet(reader'.pseudoInbox) \subseteq ToSet(reader.pseudoInbox)
          /\ ToSet(reader'.dispatched) = ToSet(reader.dispatched) \cup ToSet(new)
      BY <1>10, <1>17
    <2> QED
      BY <2>3, <2>4, <2>5, <2>6 DEF DirectOnce
  <1>26. Gone'
    <2>1. \A m \in ToSet(reader'.dispatched) : m <= arrived'
      BY <1>12, <1>16, <1>17 DEF ReaderInv, Gone
    <2>2. ASSUME NEW p \in Places, modem.sim[p] \in ToSet(reader'.dispatched)
          PROVE  Ahead(reader'.at, Outstanding', p)
      <3>1. modem.sim[p] \notin ToSet(reader.dispatched)
        <4>1. Ahead(at, Outstanding, p) => Ahead(at, TRUE, p)
          BY <1>0 DEF Ahead
        <4> QED
          BY <4>1, <1>3 DEF ReaderInv, Gone
      <3>2. PICK id \in ToSet(data) : modem.sim[p] = id.msg
        <4>1. modem.sim[p] \in ToSet(new)
          BY <2>2, <3>1, <1>17
        <4> QED
          BY <4>1, <1>12
      <3>3. modem.sim[p] # 0
        <4>1. ToSet(data) \subseteq Ids
          BY <1>11, SetOfSeq, Zenon
        <4> QED
          BY <3>2, <4>1 DEF Ids, Msgs
      <3>4. id \in ToSet(ids)
        BY <3>2, <3>3, <1>15, <1>16 DEF ReaderInv, SimOnce
      <3>5. id.place = p /\ id.place # 0
        BY <3>2, <3>3, <3>4, <1>9 DEF ReaderInv, SimOnce
      <3>6. Ahead(t \o d, FALSE, p)
        BY <3>5, <1>3, <1>4, <1>13, AheadOfLists DEF d
      <3>7. Ahead(reader'.at, FALSE, p)
        BY <3>6, <1>18, <1>19, AheadGrows
      <3> QED
        BY <3>7, <1>0 DEF Ahead
    <2> QED
      BY <2>1, <2>2 DEF Gone
  <1>27. Announces => CacheKept'
    <2>1. SUFFICES ASSUME CacheKept PROVE CacheKept'
      BY DEF ReaderInv
    <2>2. ASSUME NoNews', Cached(reader')
          PROVE  /\ \A p \in Occupied \ Doomed(reader'.at, Outstanding') :
                      [place |-> p, msg |-> modem.sim[p]] \in ToSet(reader'.pending)
                 /\ ToSet(reader'.pseudoInbox) \subseteq ToSet(reader'.pending)
      <3>1. ok /\ ~reader.needRefetch /\ ToSet(reader'.pending) = ToSet(all) \ ToSet(data)
        BY <2>2, <1>10
      <3>2. \A p \in Occupied : [place |-> p, msg |-> modem.sim[p]] \in ToSet(ids)
        BY <2>1, <2>2, <3>1, <1>0 DEF CacheKept, ok, ids
      <3>3. ASSUME NEW p \in Occupied, [place |-> p, msg |-> modem.sim[p]] \in ToSet(data)
            PROVE  p \in Doomed(reader'.at, Outstanding')
        <4>1. \E i \in DOMAIN d : d[i] = [cmd |-> "delete", place |-> p]
          <5> DEFINE id == [place |-> p, msg |-> modem.sim[p]]
          <5>1. id \in ToSet(data) /\ id.place = p
            BY <3>3
          <5>2. p # 0
            BY SlotsAssumption DEF Occupied, Places
          <5> QED
            BY <5>1, <5>2, <1>13 DEF d
        <4>2. p \in Doomed(t \o d, FALSE)
          BY <4>1, <1>3, <1>13, DoomedGrows DEF d
        <4>3. p \in Doomed(reader'.at, FALSE)
          BY <4>2, <1>18, <1>19, DoomedGrows
        <4> QED
          BY <4>3, <1>0 DEF Doomed
      <3>4. ToSet(reader.pseudoInbox) \subseteq ToSet(reader.pending)
        BY <1>7, <3>1 DEF Begun
      <3> QED
        BY <3>1, <3>2, <3>3, <3>4, <1>10
    <2>3. Occupied' = Occupied
      BY DEF Occupied
    <2> QED
      BY <2>1, <2>2, <2>3, <1>0 DEF CacheKept
  <1> QED
    BY <1>10, <1>20, <1>21, <1>22, <1>23, <1>24, <1>25, <1>26, <1>27 DEF ReaderInv

-----------------------------------------------------------------------------
\* The modem

LEMMA OccupiedCount ==
  ASSUME NEW S \in SUBSET Places
  PROVE  Cardinality(S) \in 0..Slots
  <1>1. IsFiniteSet(Places) /\ Cardinality(Places) = Slots
    BY SlotsAssumption, FS_Interval DEF Places
  <1>2. IsFiniteSet(S) /\ Cardinality(S) <= Cardinality(Places) /\ Cardinality(S) \in Nat
    BY <1>1, FS_Subset, FS_CardinalityType
  <1> QED
    BY <1>1, <1>2, SlotsAssumption

LEMMA ListedProperties ==
  ASSUME ReaderType, SimOnce
  PROVE  /\ Listed \in Seq(Ids) /\ Distinct(Listed)
         /\ ToSet(Listed) = {[place |-> p, msg |-> modem.sim[p]] : p \in Occupied}
  <1> DEFINE store == [p \in Places |-> [place |-> p, msg |-> modem.sim[p]]]
  <1>1. modem.sim \in [Places -> 0..MaxMessages]
    BY Typed
  <1>2. /\ DOMAIN store = Places
        /\ \A p \in Places : store[p] = [place |-> p, msg |-> modem.sim[p]]
                             /\ store[p] \in Entries
    BY <1>1, SlotsAssumption DEF Entries, Places
  <1>3. store \in Seq(Entries)
    BY <1>2, SlotsAssumption DEF Places
  <1>4. StoredIds \in SUBSET Entries
    BY MessagesAssumption, SlotsAssumption DEF Entries, StoredIds, Places, Msgs
  <1> HIDE DEF store
  <1>5. \A p \in Places : store[p] \in StoredIds <=> modem.sim[p] # 0
    BY <1>1, <1>2, MessagesAssumption DEF StoredIds, Msgs
  <1>6. DistinctIn(store, StoredIds)
    BY <1>2, <1>5 DEF DistinctIn, SimOnce
  <1>7. /\ Only[StoredIds][store] \in Seq(StoredIds)
        /\ ToSet(Only[StoredIds][store]) = ToSet(store) \cap StoredIds
        /\ DistinctIn(store, StoredIds) => Distinct(Only[StoredIds][store])
    BY <1>3, <1>4, OnlyProperties, Zenon
  <1>8. Listed = Only[StoredIds][store]
    BY DEF Listed, store
  <1>9. ToSet(store) \cap StoredIds = {[place |-> p, msg |-> modem.sim[p]] : p \in Occupied}
    BY <1>2, <1>5 DEF ToSet, Occupied
  <1>10. StoredIds \subseteq Ids
    BY SlotsAssumption DEF StoredIds, Ids, Places
  <1>11. Only[StoredIds][store] \in Seq(Ids)
    BY <1>7, <1>10
  <1> QED
    BY <1>6, <1>7, <1>8, <1>9, <1>11

LEMMA PlaceCleared ==
  ASSUME NEW f \in [Places -> 0..MaxMessages], NEW x
  PROVE  /\ [f EXCEPT ![x] = 0] \in [Places -> 0..MaxMessages]
         /\ \A p \in Places : [f EXCEPT ![x] = 0][p] = IF p = x THEN 0 ELSE f[p]
  <1>1. 0 \in 0..MaxMessages
    BY MessagesAssumption
  <1>2. [f EXCEPT ![x] = 0] = [p \in Places |-> IF p = x THEN 0 ELSE f[p]]
    OBVIOUS
  <1> QED
    BY <1>1, <1>2

LEMMA ExecutePreserves ==
  ASSUME ReaderInv, ModemExecutes
  PROVE  ReaderInv'
  <1> DEFINE at == reader.at
             c  == Head(reader.at)
  <1>1. /\ ReaderType /\ Local(reader) /\ reader \in Readers /\ at \in Seq(Commands)
        /\ modem \in Modems /\ modem.sim \in [Places -> 0..MaxMessages]
        /\ failures \in 0..MaxFailures
    BY Typed DEF ReaderInv, ReaderType
  <1>2. at # <<>> /\ ~Outstanding /\ UNCHANGED <<reader, rx, arrived>>
    BY DEF ModemExecutes
  <1>3. PICK ok \in {TRUE} \cup (IF c.cmd = "list" /\ failures > 0 THEN {FALSE} ELSE {}) :
          /\ modem' = [modem EXCEPT
                !.sim = IF c.cmd = "delete" THEN [@ EXCEPT ![c.place] = 0] ELSE @,
                !.notifies = @ \/ c.cmd = "notify",
                !.answer = <<[what |-> "answer", ok |-> ok,
                              ids |-> IF c.cmd = "list" /\ ok THEN Listed ELSE <<>>,
                              used |-> Cardinality(Occupied)]>>]
          /\ failures' = IF ok THEN failures ELSE failures - 1
    BY DEF ModemExecutes
  <1> DEFINE ids == IF c.cmd = "list" /\ ok THEN Listed ELSE <<>>
             line == [what |-> "answer", ok |-> ok, ids |-> ids, used |-> Cardinality(Occupied)]
             sim == IF c.cmd = "delete" THEN [modem.sim EXCEPT ![c.place] = 0] ELSE modem.sim
  <1>4. SimOnce /\ Gone
    BY DEF ReaderInv
  <1>5. /\ ids \in Seq(Ids) /\ Distinct(ids)
        /\ ids # <<>> => c.cmd = "list"
        /\ ToSet(ids) \subseteq {[place |-> p, msg |-> modem.sim[p]] : p \in Occupied}
        /\ c.cmd = "list" /\ ok => ToSet(ids) = {[place |-> p, msg |-> modem.sim[p]] : p \in Occupied}
    <2>1. CASE c.cmd = "list" /\ ok
      BY <2>1, <1>1, <1>4, ListedProperties
    <2>2. CASE ~(c.cmd = "list" /\ ok)
      <3>1. ids = <<>> /\ <<>> \in Seq(Ids) /\ DOMAIN <<>> = {}
        BY <2>2
      <3> QED
        BY <3>1, <2>2 DEF Distinct, ToSet
    <2> QED
      BY <2>1, <2>2
  <1> HIDE DEF ids
  <1>6. line \in Lines /\ line.what = "answer" /\ line.ids = ids /\ line.ok = ok
    <2>1. Cardinality(Occupied) \in 0..Slots
      BY OccupiedCount DEF Occupied
    <2> QED
      BY <2>1, <1>5 DEF Lines
  <1> HIDE DEF line
  <1>7. /\ sim \in [Places -> 0..MaxMessages]
        /\ \A p \in Places : sim[p] = IF c.cmd = "delete" /\ p = c.place THEN 0 ELSE modem.sim[p]
    <2>1. CASE c.cmd = "delete"
      <3>1. sim = [modem.sim EXCEPT ![c.place] = 0]
        BY <2>1
      <3> HIDE DEF sim, c
      <3> QED
        BY <2>1, <3>1, <1>1, PlaceCleared
    <2>2. CASE c.cmd # "delete"
      BY <2>2, <1>1
    <2> QED
      BY <2>1, <2>2
  <1> HIDE DEF sim
  <1>8. /\ modem' \in Modems
        /\ modem'.sim = sim /\ modem'.notifies = (modem.notifies \/ c.cmd = "notify")
        /\ modem'.answer = <<line>>
    <2>1. modem' = [modem EXCEPT !.sim = sim, !.notifies = modem.notifies \/ c.cmd = "notify",
                                 !.answer = <<line>>]
      BY <1>1, <1>3 DEF sim, line, ids, Modems
    <2>2. <<line>> \in Seq(Lines)
      BY <1>6
    <2>3. (modem.notifies \/ c.cmd = "notify") \in BOOLEAN
      OBVIOUS
    <2> QED
      BY <2>1, <2>2, <2>3, <1>1, <1>7 DEF Modems
  <1>9. ReaderType'
    <2>1. failures' \in 0..MaxFailures
      <3>1. CASE ok
        BY <3>1, <1>1, <1>3
      <3>2. CASE ~ok
        <4>1. failures > 0 /\ failures' = failures - 1
          BY <3>2, <1>3
        <4> QED
          BY <4>1, <1>1, MessagesAssumption
      <3> QED
        BY <3>1, <3>2
    <2> QED
      BY <2>1, <1>1, <1>2, <1>8 DEF ReaderType
  <1>10. Answers = {} /\ Answers' = {} /\ modem.answer = <<>>
    BY <1>2 DEF Outstanding, Answers
  <1>11. Outstanding' /\ Answering' = {line}
    <2>1. modem'.answer # <<>> /\ ToSet(modem'.answer) = {line}
      BY <1>8 DEF ToSet
    <2>2. Outstanding'
      BY <2>1 DEF Outstanding
    <2>3. Answering' = ToSet(modem'.answer) \cup {rx'[i] : i \in Answers'}
      BY DEF Answering
    <2> QED
      BY <2>1, <2>2, <2>3, <1>10
  <1>12. OneAnswer'
    <2>1. Len(modem'.answer) = 1 /\ modem'.answer[1].what = "answer"
      BY <1>6, <1>8
    <2>2. reader'.at # <<>>
      BY <1>2
    <2> QED
      BY <2>1, <2>2, <1>10 DEF OneAnswer
  <1>13. /\ Head(at) = at[1] /\ 1 \in DOMAIN at /\ at[1] \in Commands
         /\ at[1].cmd = "list" => \A p : ~Ahead(at, TRUE, p)
    BY <1>1, <1>2, QueueTail
  <1>14. Snapshot'
    <2>1. ASSUME NEW id \in ToSet(ids)
          PROVE  /\ id.place \in Places /\ sim[id.place] = id.msg
                 /\ id.msg \notin ToSet(reader.dispatched)
      <3>1. PICK p \in Occupied : id = [place |-> p, msg |-> modem.sim[p]]
        BY <1>5
      <3>2. id.place = p /\ p \in Places /\ id.msg = modem.sim[p]
        BY <3>1 DEF Occupied
      <3>3. c.cmd = "list"
        BY <1>5 DEF ToSet
      <3>4. sim[p] = modem.sim[p]
        BY <3>2, <3>3, <1>7
      <3>5. ~Ahead(at, Outstanding, p)
        <4>1. ASSUME Ahead(at, Outstanding, p) PROVE FALSE
          <5>1. PICK k \in DOMAIN at : \A l \in 1..k : at[l].cmd # "list"
            BY <4>1 DEF Ahead
          <5>2. 1 \in 1..k
            BY <1>1
          <5> QED
            BY <5>1, <5>2, <3>3, <1>13
        <4> QED
          BY <4>1
      <3>6. id.msg \notin ToSet(reader.dispatched)
        BY <3>2, <3>5, <1>4 DEF Gone
      <3> QED
        BY <3>2, <3>4, <3>6
    <2>2. SUFFICES ASSUME NEW l \in Answering'
                   PROVE  /\ Distinct(l.ids)
                          /\ \A id \in ToSet(l.ids) : /\ id.place \in Places
                                /\ modem'.sim[id.place] = id.msg
                                /\ id.msg \notin ToSet(reader'.dispatched)
      BY DEF Snapshot
    <2>3. l.ids = ids
      BY <1>6, <1>11
    <2> QED
      BY <2>1, <2>3, <1>2, <1>5, <1>8
  <1>15. SimOnce'
    BY <1>2, <1>4, <1>7, <1>8 DEF SimOnce
  <1>16. DirectOnce' /\ PseudoNew' /\ DatagramsOnce' /\ Local(reader')
    <2>1. DirectOnce'
      BY <1>2 DEF ReaderInv, DirectOnce
    <2>2. PseudoNew' /\ DatagramsOnce' /\ Local(reader')
      BY <1>2 DEF ReaderInv, PseudoNew, DatagramsOnce
    <2> QED
      BY <2>1, <2>2
  <1>17. Gone'
    <2>1. ASSUME NEW p \in Places, sim[p] \in ToSet(reader.dispatched)
          PROVE  Ahead(at, TRUE, p)
      <3>1. ToSet(reader.dispatched) \subseteq Msgs
        BY <1>1, ReaderFields, SetOfSeq
      <3>2. sim[p] # 0
        BY <2>1, <3>1 DEF Msgs
      <3>3. sim[p] = modem.sim[p] /\ ~(c.cmd = "delete" /\ p = c.place)
        BY <3>2, <1>7
      <3>4. Ahead(at, Outstanding, p)
        BY <2>1, <3>3, <1>4 DEF Gone
      <3>5. PICK k \in DOMAIN at : /\ at[k] = [cmd |-> "delete", place |-> p]
                                   /\ \A l \in 1..k : at[l].cmd # "list"
        BY <3>4 DEF Ahead
      <3>6. k # 1
        BY <3>3, <3>5, <1>13
      <3> QED
        BY <3>5, <3>6 DEF Ahead
    <2>2. \A p : Ahead(at, TRUE, p) => Ahead(reader'.at, Outstanding', p)
      BY <1>2, <1>11 DEF Ahead
    <2>3. \A m \in ToSet(reader'.dispatched) : m <= arrived'
      BY <1>2, <1>4 DEF Gone
    <2> QED
      BY <2>1, <2>2, <2>3, <1>2, <1>8 DEF Gone
  <1>18. Announces => CacheKept'
    <2>1. SUFFICES ASSUME CacheKept PROVE CacheKept'
      BY DEF ReaderInv
    <2>2. modem'.notifies
      BY <2>1, <1>8 DEF CacheKept
    <2>3. \A p \in Occupied' : p \in Occupied /\ sim[p] = modem.sim[p] /\ modem'.sim[p] = sim[p]
                               /\ ~(c.cmd = "delete" /\ p = c.place)
      BY <1>7, <1>8 DEF Occupied
    <2>4. NoNews' = NoNews /\ Cached(reader') = Cached(reader)
      BY <1>2 DEF NoNews
    <2>5. ASSUME NoNews, Cached(reader), NEW p \in Occupied' \ Doomed(at, TRUE)
          PROVE  [place |-> p, msg |-> sim[p]] \in ToSet(reader.pending)
      <3>1. p \notin Doomed(at, Outstanding)
        <4>1. ASSUME p \in Doomed(at, Outstanding) PROVE FALSE
          <5>1. PICK i \in DOMAIN at : at[i].cmd = "delete" /\ at[i].place = p
            BY <4>1 DEF Doomed
          <5>2. i = 1
            BY <5>1, <2>5 DEF Doomed
          <5> QED
            BY <5>1, <5>2, <2>3, <2>5, <1>13
        <4> QED
          BY <4>1
      <3> QED
        BY <3>1, <2>1, <2>3, <2>5 DEF CacheKept
    <2>6. Doomed(reader'.at, Outstanding') = Doomed(at, TRUE)
      BY <1>2, <1>11 DEF Doomed
    <2>7. NoNews /\ Cached(reader) => ToSet(reader.pseudoInbox) \subseteq ToSet(reader.pending)
      BY <2>1 DEF CacheKept
    <2>8. ASSUME Head(reader'.at).cmd = "list", NEW l \in Answering', l.ok, NEW p \in Occupied'
          PROVE  [place |-> p, msg |-> modem'.sim[p]] \in ToSet(l.ids)
      <3>1. l.ids = ids /\ ok /\ c.cmd = "list"
        BY <2>8, <1>2, <1>6, <1>11
      <3> QED
        BY <3>1, <2>3, <1>5
    <2> QED
      BY <2>2, <2>3, <2>4, <2>5, <2>6, <2>7, <2>8, <1>2 DEF CacheKept
  <1> QED
    BY <1>9, <1>12, <1>14, <1>15, <1>16, <1>17, <1>18 DEF ReaderInv

LEMMA AnswersPreserves ==
  ASSUME ReaderInv, ModemAnswers
  PROVE  ReaderInv'
  <1> DEFINE a == modem.answer
             n == Len(rx) + 1
  <1>1. /\ ReaderType /\ rx \in Seq(Lines) /\ a \in Seq(Lines) /\ modem \in Modems
    BY Typed DEF ReaderInv
  <1>2. /\ a # <<>> /\ rx' = rx \o a /\ modem' = [modem EXCEPT !.answer = <<>>]
        /\ UNCHANGED <<reader, arrived, failures>>
    BY DEF ModemAnswers
  <1>3. Len(a) = 1 /\ a[1].what = "answer" /\ Answers = {}
    BY <1>2 DEF ReaderInv, OneAnswer
  <1>4. /\ Len(rx) \in Nat /\ DOMAIN rx = 1..Len(rx) /\ DOMAIN a = {1}
        /\ rx' \in Seq(Lines) /\ DOMAIN rx' = 1..n
        /\ \A i \in 1..Len(rx) : rx'[i] = rx[i]
        /\ rx'[n] = a[1]
    <2>1. /\ Len(rx) \in Nat /\ DOMAIN rx = 1..Len(rx) /\ DOMAIN a = 1..Len(a)
          /\ rx \o a \in Seq(Lines) /\ DOMAIN (rx \o a) = 1..(Len(rx) + Len(a))
          /\ \A i \in 1..Len(rx) : (rx \o a)[i] = rx[i]
          /\ \A i \in 1..Len(a) : (rx \o a)[Len(rx) + i] = a[i]
      BY <1>1, Concats
    <2> HIDE DEF a
    <2> QED
      BY <2>1, <1>2, <1>3
  <1> HIDE DEF a, n
  <1>5. /\ modem'.answer = <<>> /\ modem'.sim = modem.sim /\ modem'.notifies = modem.notifies
        /\ modem' \in Modems
    <2>1. <<>> \in Seq(Lines)
      OBVIOUS
    <2> QED
      BY <2>1, <1>1, <1>2 DEF Modems
  <1>6. Answers' = {n}
    <2>1. n \in DOMAIN rx' /\ rx'[n].what = "answer"
      BY <1>3, <1>4 DEF n
    <2>2. ASSUME NEW i \in DOMAIN rx', rx'[i].what = "answer" PROVE i = n
      <3>1. i \in 1..Len(rx) => i \in DOMAIN rx /\ rx[i] = rx'[i]
        BY <1>4
      <3>2. i \notin 1..Len(rx)
        BY <3>1, <2>2, <1>3 DEF Answers
      <3> QED
        BY <3>2, <1>4 DEF n
    <2> QED
      BY <2>1, <2>2 DEF Answers
  <1>7. Outstanding /\ Outstanding'
    BY <1>2, <1>6 DEF Outstanding, Answers, a
  <1>8. Answering' = Answering
    <2>1. Answering' = ToSet(modem'.answer) \cup {rx'[i] : i \in Answers'}
      BY DEF Answering
    <2>2. Answering = ToSet(a)
      BY <1>3 DEF Answering, a
    <2>3. ToSet(a) = {a[1]}
      BY <1>4 DEF ToSet
    <2>4. ToSet(modem'.answer) = {}
      BY <1>5 DEF ToSet
    <2>5. {rx'[i] : i \in Answers'} = {a[1]}
      BY <1>4, <1>6
    <2> QED
      BY <2>1, <2>2, <2>3, <2>4, <2>5
  <1>9. NoNews' => NoNews
    BY <1>4 DEF NoNews, n
  <1>10. ReaderType'
    BY <1>1, <1>2, <1>4, <1>5 DEF ReaderType
  <1>11. OneAnswer'
    <2>1. \A i, j \in Answers' : i = j
      BY <1>6
    <2> QED
      BY <2>1, <1>2, <1>5, <1>7 DEF ReaderInv, OneAnswer
  <1>12. Snapshot' /\ SimOnce'
    BY <1>2, <1>5, <1>8 DEF ReaderInv, Snapshot, SimOnce
  <1>13. PseudoNew' /\ DatagramsOnce' /\ Local(reader')
    BY <1>2 DEF ReaderInv, PseudoNew, DatagramsOnce
  <1>14. DirectOnce'
    <2>1. \A i \in DOMAIN rx' : rx'[i].what = "direct" => i \in DOMAIN rx /\ rx'[i] = rx[i]
      <3>1. rx'[n].what # "direct"
        BY <1>3, <1>4
      <3> QED
        BY <3>1, <1>4 DEF n
    <2> QED
      BY <2>1, <1>2 DEF ReaderInv, DirectOnce
  <1>15. Gone'
    BY <1>2, <1>5, <1>7 DEF ReaderInv, Gone, Ahead
  <1>16. Announces => CacheKept'
    <2>1. Occupied' = Occupied
      BY <1>5 DEF Occupied
    <2>2. Doomed(reader.at, Outstanding') = Doomed(reader.at, Outstanding)
      BY <1>7 DEF Doomed
    <2> QED
      BY <2>1, <2>2, <1>2, <1>5, <1>8, <1>9 DEF ReaderInv, CacheKept
  <1> QED
    BY <1>10, <1>11, <1>12, <1>13, <1>14, <1>15, <1>16 DEF ReaderInv

\* A line that is no answer is added.
LEMMA LineAdded ==
  ASSUME ReaderType, NEW line \in Lines, line.what # "answer", rx' = Append(rx, line)
  PROVE  /\ rx' \in Seq(Lines) /\ Answers' = Answers /\ ~NoNews'
         /\ {rx'[i] : i \in Answers'} = {rx[i] : i \in Answers}
         /\ Len(rx) \in Nat /\ DOMAIN rx = 1..Len(rx) /\ DOMAIN rx' = 1..(Len(rx) + 1)
         /\ \A i \in DOMAIN rx : rx'[i] = rx[i]
         /\ rx'[Len(rx) + 1] = line
  <1>1. rx \in Seq(Lines)
    BY DEF ReaderType
  <1>2. /\ rx' \in Seq(Lines)
        /\ Len(rx) \in Nat /\ DOMAIN rx = 1..Len(rx) /\ DOMAIN rx' = 1..(Len(rx) + 1)
        /\ \A i \in DOMAIN rx : rx'[i] = rx[i]
        /\ rx'[Len(rx) + 1] = line
    BY <1>1
  <1>3. Answers' = Answers
    <2>1. \A i \in DOMAIN rx' : rx'[i].what = "answer" <=> i \in DOMAIN rx /\ rx[i].what = "answer"
      BY <1>2
    <2>2. DOMAIN rx \subseteq DOMAIN rx'
      BY <1>2
    <2> QED
      BY <2>1, <2>2 DEF Answers
  <1>4. ~NoNews'
    BY <1>2 DEF NoNews
  <1>5. {rx'[i] : i \in Answers'} = {rx[i] : i \in Answers}
    BY <1>2, <1>3 DEF Answers
  <1> QED
    BY <1>2, <1>3, <1>4, <1>5

LEMMA ArrivesPreserves ==
  ASSUME ReaderInv, MessageArrives
  PROVE  ReaderInv'
  <1>1. /\ ReaderType /\ modem \in Modems /\ modem.sim \in [Places -> 0..MaxMessages]
        /\ rx \in Seq(Lines) /\ arrived \in Nat
        /\ OneAnswer /\ Snapshot /\ SimOnce /\ DirectOnce /\ PseudoNew /\ Gone /\ Local(reader)
        /\ DatagramsOnce
    BY Typed DEF ReaderInv
  <1>2. arrived < MaxMessages /\ arrived' = arrived + 1 /\ UNCHANGED <<reader, failures>>
    BY DEF MessageArrives
  <1>3. /\ arrived' \in Msgs /\ arrived' \in 0..MaxMessages /\ arrived' \in Nat
        /\ \A m \in Nat : m <= arrived => m <= arrived' /\ m # arrived'
    BY <1>1, <1>2, MessagesAssumption DEF Msgs
  <1>4. PseudoNew' /\ DatagramsOnce' /\ Local(reader') /\ (\A m \in ToSet(reader'.dispatched) : m <= arrived')
    <2>1. \A id \in ToSet(reader.pseudoInbox) : id.msg \in Nat
      <3>1. ToSet(reader.pseudoInbox) \subseteq Ids
        BY <1>1, ReaderFields, SetOfSeq DEF Local
      <3> QED
        BY <3>1 DEF Ids, Msgs
    <2>2. ToSet(reader.dispatched) \subseteq Msgs
      BY <1>1, ReaderFields, SetOfSeq DEF Local
    <2>3. \A m \in Msgs : m \in Nat
      BY DEF Msgs
    <2> QED
      BY <2>1, <2>2, <2>3, <1>1, <1>2, <1>3 DEF PseudoNew, DatagramsOnce, Gone
  <1>5. \A p \in Places : modem.sim[p] # 0 => modem.sim[p] <= arrived' /\ modem.sim[p] # arrived'
    BY <1>1, <1>3 DEF SimOnce
  <1>6. \A i \in DOMAIN rx : rx[i].what = "direct" => rx[i].msg <= arrived' /\ rx[i].msg # arrived'
    <2>1. \A i \in DOMAIN rx : rx[i].what = "direct" => rx[i].msg \in Nat /\ rx[i].msg <= arrived
      <3>1. \A m \in Direct : m \in Nat
        BY KindsAssumption
      <3>2. DirectOnce
        BY <1>1
      <3> QED
        BY <3>1, <3>2 DEF DirectOnce
    <2> QED
      BY <2>1, <1>3
  <1>7. arrived' \notin ToSet(reader.dispatched)
    <2>1. ToSet(reader.dispatched) \subseteq Msgs
      BY <1>1, ReaderFields, SetOfSeq DEF Local
    <2>2. \A m \in Msgs : m \in Nat
      BY DEF Msgs
    <2> QED
      BY <2>1, <2>2, <1>1, <1>3 DEF Gone
  <1>8. \A id \in ToSet(reader.pseudoInbox) : id.msg # arrived'
    <2>1. \A id \in ToSet(reader.pseudoInbox) : id.msg \in Nat
      <3>1. ToSet(reader.pseudoInbox) \subseteq Ids
        BY <1>1, ReaderFields, SetOfSeq DEF Local
      <3> QED
        BY <3>1 DEF Ids, Msgs
    <2> QED
      BY <2>1, <1>1, <1>3 DEF PseudoNew
  <1>9. CASE /\ arrived' \in Direct
             /\ rx' = Append(rx, [what |-> "direct", msg |-> arrived'])
             /\ UNCHANGED modem
    <2> DEFINE line == [what |-> "direct", msg |-> arrived']
    <2>1. line \in Lines /\ line.what = "direct" /\ line.msg = arrived'
      BY <1>3 DEF Lines
    <2> HIDE DEF line
    <2>2. /\ rx' \in Seq(Lines) /\ Answers' = Answers /\ ~NoNews'
          /\ {rx'[i] : i \in Answers'} = {rx[i] : i \in Answers}
          /\ Len(rx) \in Nat /\ DOMAIN rx = 1..Len(rx) /\ DOMAIN rx' = 1..(Len(rx) + 1)
          /\ \A i \in DOMAIN rx : rx'[i] = rx[i]
          /\ rx'[Len(rx) + 1] = line
      <3>1. rx' = Append(rx, line) /\ line.what # "answer"
        BY <1>9, <2>1 DEF line
      <3> QED
        BY <3>1, <1>1, <2>1, LineAdded
    <2>3. ReaderType'
      BY <2>2, <1>1, <1>2, <1>3, <1>9 DEF ReaderType
    <2>4. Answering' = Answering /\ (Outstanding' <=> Outstanding)
      <3>1. Answering' = Answering
        BY <2>2, <1>9 DEF Answering
      <3>2. Outstanding <=> modem.answer # <<>> \/ Answers # {}
        BY DEF Outstanding, Answers
      <3>3. Outstanding' <=> modem'.answer # <<>> \/ Answers' # {}
        BY DEF Outstanding, Answers
      <3> QED
        BY <3>1, <3>2, <3>3, <2>2, <1>9
    <2>5. OneAnswer'
      BY <2>2, <2>4, <1>1, <1>2, <1>9 DEF OneAnswer
    <2>6. Snapshot'
      BY <2>4, <1>1, <1>2, <1>9 DEF Snapshot
    <2>7. SimOnce'
      BY <1>1, <1>5, <1>9 DEF SimOnce
    <2>8. DirectOnce'
      <3>1. \A i \in DOMAIN rx' : \/ i \in DOMAIN rx /\ rx'[i] = rx[i]
                                  \/ i = Len(rx) + 1 /\ rx'[i] = line
        BY <2>2
      <3>2. \A i \in DOMAIN rx' : rx'[i].what = "direct" =>
               /\ rx'[i].msg \in Direct /\ rx'[i].msg <= arrived'
               /\ rx'[i].msg \notin ToSet(reader.dispatched)
               /\ \A id \in ToSet(reader.pseudoInbox) : id.msg # rx'[i].msg
        BY <3>1, <2>1, <1>1, <1>3, <1>6, <1>7, <1>8, <1>9 DEF DirectOnce
      <3>3. \A i, j \in DOMAIN rx' :
               rx'[i].what = "direct" /\ rx'[j].what = "direct" /\ rx'[i].msg = rx'[j].msg => i = j
        BY <3>1, <2>1, <1>1, <1>6 DEF DirectOnce
      <3> QED
        BY <3>2, <3>3, <1>2 DEF DirectOnce
    <2>9. Gone'
      BY <2>4, <1>1, <1>2, <1>4, <1>9 DEF Gone, Ahead
    <2>10. Announces => CacheKept'
      BY <2>2, <1>9 DEF ReaderInv, CacheKept
    <2> QED
      BY <2>3, <2>5, <2>6, <2>7, <2>8, <2>9, <2>10, <1>4 DEF ReaderInv
  <1>10. ASSUME arrived' \notin Direct, NEW p \in Places \ Occupied,
                modem' = [modem EXCEPT !.sim[p] = arrived'],
                rx' = IF modem.notifies THEN Append(rx, [what |-> "note"]) ELSE rx
         PROVE  ReaderInv'
    <2>1. /\ modem' \in Modems /\ modem'.answer = modem.answer /\ modem'.notifies = modem.notifies
          /\ \A q \in Places : modem'.sim[q] = IF q = p THEN arrived' ELSE modem.sim[q]
      <3> DEFINE sim == [modem.sim EXCEPT ![p] = arrived']
      <3>1. sim \in [Places -> 0..MaxMessages]
            /\ \A q \in Places : sim[q] = IF q = p THEN arrived' ELSE modem.sim[q]
        BY <1>1, <1>3
      <3>2. modem' = [modem EXCEPT !.sim = sim]
        BY <1>1, <1>10 DEF Modems
      <3> HIDE DEF sim
      <3> QED
        BY <3>1, <3>2, <1>1 DEF Modems
    <2>2. modem.sim[p] = 0
      BY <1>10 DEF Occupied
    <2>3. /\ rx' \in Seq(Lines) /\ Answers' = Answers
          /\ {rx'[i] : i \in Answers'} = {rx[i] : i \in Answers}
          /\ modem.notifies => ~NoNews'
          /\ \A i \in DOMAIN rx' : rx'[i].what = "direct" => i \in DOMAIN rx /\ rx'[i] = rx[i]
      <3>1. CASE modem.notifies
        <4> DEFINE line == [what |-> "note"]
        <4>1. line \in Lines /\ line.what = "note"
          BY DEF Lines
        <4> HIDE DEF line
        <4>2. /\ rx' \in Seq(Lines) /\ Answers' = Answers /\ ~NoNews'
              /\ {rx'[i] : i \in Answers'} = {rx[i] : i \in Answers}
              /\ Len(rx) \in Nat /\ DOMAIN rx = 1..Len(rx) /\ DOMAIN rx' = 1..(Len(rx) + 1)
              /\ \A i \in DOMAIN rx : rx'[i] = rx[i]
              /\ rx'[Len(rx) + 1] = line
          <5>1. rx' = Append(rx, line) /\ line.what # "answer"
            BY <1>10, <3>1, <4>1 DEF line
          <5> QED
            BY <5>1, <1>1, <4>1, LineAdded
        <4>3. \A i \in DOMAIN rx' : rx'[i].what = "direct" => i \in DOMAIN rx /\ rx'[i] = rx[i]
          BY <4>1, <4>2
        <4> QED
          BY <4>2, <4>3
      <3>2. CASE ~modem.notifies
        <4>1. rx' = rx
          BY <1>10, <3>2
        <4> QED
          BY <4>1, <3>2, <1>1 DEF Answers
      <3> QED
        BY <3>1, <3>2
    <2>4. ReaderType'
      BY <2>1, <2>3, <1>1, <1>2, <1>3 DEF ReaderType
    <2>5. Answering' = Answering /\ (Outstanding' <=> Outstanding)
      <3>1. Answering' = Answering
        BY <2>1, <2>3 DEF Answering
      <3>2. Outstanding <=> modem.answer # <<>> \/ Answers # {}
        BY DEF Outstanding, Answers
      <3>3. Outstanding' <=> modem'.answer # <<>> \/ Answers' # {}
        BY DEF Outstanding, Answers
      <3> QED
        BY <3>1, <3>2, <3>3, <2>1, <2>3
    <2>6. OneAnswer'
      BY <2>1, <2>3, <2>5, <1>1, <1>2 DEF OneAnswer
    <2>7. Snapshot'
      <3>1. SUFFICES ASSUME NEW l \in Answering, NEW id \in ToSet(l.ids)
                     PROVE  id.place \in Places /\ modem'.sim[id.place] = id.msg
                            /\ id.msg \notin ToSet(reader.dispatched)
        BY <2>5, <1>1, <1>2 DEF Snapshot
      <3>2. /\ id.place \in Places /\ modem.sim[id.place] = id.msg
            /\ id.msg \notin ToSet(reader.dispatched)
        BY <3>1, <1>1 DEF Snapshot
      <3>3. id.msg # 0
        <4>1. l \in Lines /\ l.what = "answer"
          <5>1. l \in ToSet(modem.answer) \/ l \in {rx[i] : i \in Answers}
            BY <3>1 DEF Answering
          <5>2. CASE l \in ToSet(modem.answer)
            <6>1. modem.answer \in Seq(Lines)
              BY <1>1 DEF Modems
            <6>2. PICK i \in DOMAIN modem.answer : l = modem.answer[i]
              BY <5>2 DEF ToSet
            <6>3. i = 1 /\ modem.answer[1].what = "answer"
              BY <6>1, <6>2, <1>1 DEF OneAnswer
            <6> QED
              BY <6>1, <6>2, <6>3
          <5>3. CASE l \in {rx[i] : i \in Answers}
            BY <5>3, <1>1 DEF Answers
          <5> QED
            BY <5>1, <5>2, <5>3
        <4>2. l.ids \in Seq(Ids)
          BY <4>1 DEF Lines
        <4>3. ToSet(l.ids) \subseteq Ids
          BY <4>2, SetOfSeq
        <4> QED
          BY <4>3, <3>1 DEF Ids, Msgs
      <3>4. id.place # p
        BY <3>2, <3>3, <2>2
      <3> QED
        BY <3>2, <3>4, <2>1
    <2>8. SimOnce'
      BY <2>1, <2>2, <1>1, <1>3, <1>5, <1>10 DEF SimOnce
    <2>9. DirectOnce'
      BY <2>3, <1>1, <1>2, <1>6 DEF DirectOnce
    <2>10. Gone'
      <3>1. \A q \in Places : modem'.sim[q] \in ToSet(reader.dispatched) =>
               modem'.sim[q] = modem.sim[q]
        BY <2>1, <1>7
      <3>2. \A q : Ahead(reader.at, Outstanding, q) => Ahead(reader'.at, Outstanding', q)
        BY <2>5, <1>2 DEF Ahead
      <3> QED
        BY <3>1, <3>2, <1>1, <1>2, <1>4 DEF Gone
    <2>11. Announces => CacheKept'
      BY <2>1, <2>3 DEF ReaderInv, CacheKept
    <2> QED
      BY <2>4, <2>6, <2>7, <2>8, <2>9, <2>10, <2>11, <1>4 DEF ReaderInv
  <1> QED
    BY <1>9, <1>10 DEF MessageArrives

-----------------------------------------------------------------------------
\* The steps of the reader

LEMMA ReadPreserves ==
  ASSUME ReaderInv, ReadLine
  PROVE  ReaderInv'
  <1> DEFINE line == Head(rx)
             cmd  == Head(reader.at).cmd
             t    == Tail(reader.at)
             s    == [reader EXCEPT !.at = Tail(@)]
  <1>1. /\ rx # <<>> /\ rx' = Tail(rx) /\ UNCHANGED <<modem, arrived, failures>>
        /\ reader' =
             CASE line.what = "answer" -> CommandDone(reader, line)
               [] line.what = "note"   -> NewMessageArrived(reader)
               [] line.what = "direct" -> NewMessageArrived([reader EXCEPT
                     !.pseudoInbox = Append(@, [place |-> 0, msg |-> line.msg])])
    BY DEF ReadLine
  <1>2. line \in Lines
    BY <1>1, TailLines DEF ReaderInv
  <1>3. line.what \in {"answer", "note", "direct"}
    BY <1>2 DEF Lines
  <1>4. CASE line.what = "note"
    <2>1. reader' = NewMessageArrived(reader)
      BY <1>1, <1>4
    <2> QED
      BY <2>1, <1>1, <1>4, NoteRead
  <1>5. CASE line.what = "direct"
    <2>1. reader' = NewMessageArrived([reader EXCEPT
                     !.pseudoInbox = Append(@, [place |-> 0, msg |-> line.msg])])
      BY <1>1, <1>5
    <2> QED
      BY <2>1, <1>1, <1>5, DirectRead
  <1>6. CASE line.what = "answer"
    <2>1. reader.at # <<>> /\ reader.at \in Seq(Commands) /\ reader \in Readers
      BY <1>1, <1>6, AnswerRead, Typed DEF ReaderInv
    <2>2. t \in Seq(Commands)
      BY <2>1, TailSet
    <2>3. reader' = CASE cmd = "list"    -> StoreListDone(s, line.ok, line.ids)
                      [] cmd = "usage"   -> CpmsDone(s, line.used)
                      [] cmd = "options" -> NmiStatusReceived(s)
                      [] OTHER           -> s
      BY <1>1, <1>6 DEF CommandDone
    <2>4. CASE cmd = "list"
      <3>1. reader' = StoreListDone(s, line.ok, line.ids)
        BY <2>3, <2>4
      <3> QED
        BY <3>1, <2>4, <1>1, <1>6, ListRead
    <2> HIDE DEF t
    <2>5. /\ s \in Readers /\ s.at = t
          /\ s.pending = reader.pending /\ s.pseudoInbox = reader.pseudoInbox
          /\ s.fetching = reader.fetching /\ s.needRefetch = reader.needRefetch
          /\ s.pendingCheck = reader.pendingCheck
          /\ s.pendingFirstMessage = reader.pendingFirstMessage
          /\ s.dispatched = reader.dispatched /\ s.haveCached = reader.haveCached
      <3>1. s = [reader EXCEPT !.at = t]
        BY DEF t
      <3> HIDE DEF s
      <3> QED
        BY <3>1, <2>1, <2>2 DEF Readers
    <2>6. line.used \in 0..Slots
      BY <1>2, <1>6 DEF Lines
    <2> HIDE DEF s
    <2> DEFINE Same(r) == /\ r \in Readers
          /\ r.pending = reader.pending /\ r.pseudoInbox = reader.pseudoInbox
          /\ r.fetching = reader.fetching /\ r.needRefetch = reader.needRefetch
          /\ r.pendingCheck = reader.pendingCheck
          /\ r.pendingFirstMessage = reader.pendingFirstMessage
          /\ r.dispatched = reader.dispatched /\ r.haveCached = reader.haveCached
    <2>7. t = t \o <<>> /\ <<>> \in Seq(Commands) /\ Lists(<<>>) = {}
      BY <2>2, EmptyConcat DEF Lists
    <2>8. CASE cmd \in {"notify", "delete"}
      <3>1. Same(reader') /\ reader'.at = t \o <<>>
        BY <2>3, <2>5, <2>7, <2>8
      <3> QED
        BY <3>1, <2>7, <2>8, <1>1, <1>6, OtherAnswerRead DEF t
    <2>9. CASE cmd = "usage"
      <3>1. reader' = [s EXCEPT !.used = line.used, !.total = Slots]
        BY <2>3, <2>9 DEF CpmsDone
      <3> DEFINE n == line.used
                 w == reader'
      <3> HIDE DEF n, w
      <3>2. w = [s EXCEPT !.used = n, !.total = Slots] /\ n \in 0..Slots
        BY <3>1, <2>6 DEF n, w
      <3>3. w \in Readers
        BY <3>2, <2>5 DEF Readers
      <3>4. Same(w) /\ w.at = t
        BY <3>2, <3>3, <2>5 DEF Readers
      <3>5. Same(reader') /\ reader'.at = t \o <<>>
        BY <3>4, <2>7 DEF w
      <3> QED
        BY <3>5, <2>7, <2>9, <1>1, <1>6, OtherAnswerRead DEF t
    <2>10. CASE cmd = "options"
      <3> DEFINE u == [s EXCEPT !.initializing = FALSE]
                 q == <<Command("notify")>>
      <3>1. Same(u) /\ u.at = t
        BY <2>5 DEF Readers
      <3>2. q \in Seq(Commands) /\ Lists(q) = {}
        BY CommandType DEF Lists
      <3>3. reader' = Queue(u, q)
        BY <2>3, <2>10 DEF NmiStatusReceived
      <3> HIDE DEF u, q
      <3>4. Queue(u, q) \in Readers /\ Queue(u, q) = [u EXCEPT !.at = t \o q]
        BY <3>1, <3>2, QueueEffect
      <3>5. Same(reader') /\ reader'.at = t \o q
        <4> DEFINE w == reader'
                   v == t \o q
        <4> HIDE DEF w, v
        <4>1. w \in Readers /\ w = [u EXCEPT !.at = v]
          BY <3>3, <3>4 DEF w, v
        <4>2. Same(w) /\ w.at = v
          BY <3>1, <4>1 DEF Readers
        <4> QED
          BY <4>2 DEF w, v
      <3> QED
        <4>1. Head(reader.at).cmd # "list" /\ Head(rx).what = "answer"
          BY <2>10, <1>6
        <4>2. reader'.at = Tail(reader.at) \o q
          BY <3>5 DEF t
        <4> QED
          BY <3>2, <3>5, <4>1, <4>2, <1>1, OtherAnswerRead
    <2>11. cmd \in {"options", "notify", "usage", "list", "delete"}
      <3>1. Head(reader.at) \in Commands
        BY <2>1, TailSet
      <3> QED
        BY <3>1 DEF Commands
    <2> QED
      BY <2>4, <2>8, <2>9, <2>10, <2>11
  <1> QED
    BY <1>3, <1>4, <1>5, <1>6

LEMMA CommandsAssociative ==
  \A s, t, u \in Seq(Commands) : (s \o t) \o u = s \o (t \o u)
  BY ConcatAssociative

LEMMA ReadyPreserves ==
  ASSUME ReaderInv, SmsReady
  PROVE  ReaderInv'
  <1> DEFINE u == [reader EXCEPT !.initializing = FALSE]
             q == <<Command("options")>>
             s == Queue(u, q)
  <1>1. reader \in Readers /\ Local(reader) /\ reader.at \in Seq(Commands)
    BY Typed DEF ReaderInv
  <1>2. q \in Seq(Commands) /\ Lists(q) = {}
    BY CommandType DEF Lists
  <1>3. /\ u \in Readers /\ u.at = reader.at
        /\ u.pending = reader.pending /\ u.pseudoInbox = reader.pseudoInbox
        /\ u.fetching = reader.fetching /\ u.needRefetch = reader.needRefetch
        /\ u.pendingCheck = reader.pendingCheck
        /\ u.pendingFirstMessage = reader.pendingFirstMessage
        /\ u.dispatched = reader.dispatched /\ u.haveCached = reader.haveCached
        /\ u.overtaken = reader.overtaken
    BY <1>1 DEF Readers
  <1> HIDE DEF u, q
  <1>4. s \in Readers /\ s = [u EXCEPT !.at = reader.at \o q]
    <2>1. s \in Readers /\ s = [u EXCEPT !.at = u.at \o q]
      BY <1>2, <1>3, QueueEffect, Zenon
    <2> QED
      BY <2>1, <1>3, Zenon
  <1> HIDE DEF s
  <1>5. /\ s \in Readers /\ s.at = reader.at \o q
        /\ s.pending = reader.pending /\ s.pseudoInbox = reader.pseudoInbox
        /\ s.fetching = reader.fetching /\ s.needRefetch = reader.needRefetch
        /\ s.pendingCheck = reader.pendingCheck
        /\ s.pendingFirstMessage = reader.pendingFirstMessage
        /\ s.dispatched = reader.dispatched /\ s.haveCached = reader.haveCached
        /\ s.overtaken = reader.overtaken
    BY <1>3, <1>4 DEF Readers
  <1>6. Lists(s.at) = Lists(reader.at)
    BY <1>1, <1>2, <1>5, ListsConcat
  <1>7. Local(s)
    BY <1>1, <1>5, <1>6 DEF Local, ListFlags, Sorted, Begun
  <1>8. reader' = Check(s, TRUE) /\ UNCHANGED <<modem, rx, arrived, failures>>
    BY DEF SmsReady, s, u, q
  <1>9. Local(reader') /\ After(s, reader')
    BY <1>7, <1>8, LocalCheck
  <1>10. After(reader, reader')
    <2>1. PICK p \in Seq(Commands) :
            /\ reader'.at = s.at \o p
            /\ Cached(reader') => \A id \in ToSet(s.pending) :
              \/ id \in ToSet(reader'.pending)
              \/ id.place = 0
              \/ \E i \in DOMAIN p : p[i] = [cmd |-> "delete", place |-> id.place]
      BY <1>9 DEF After
    <2>2. (reader.at \o q) \o p = reader.at \o (q \o p)
      BY <1>1, <1>2, <2>1, CommandsAssociative
    <2>3. /\ q \o p \in Seq(Commands)
          /\ \A i \in DOMAIN p : Len(q) + i \in DOMAIN (q \o p) /\ (q \o p)[Len(q) + i] = p[i]
      BY <1>2, <2>1
    <2>5. reader'.at = reader.at \o (q \o p)
      BY <2>1, <2>2, <1>5
    <2>4. ASSUME Cached(reader'), NEW id \in ToSet(reader.pending)
          PROVE  \/ id \in ToSet(reader'.pending)
                 \/ id.place = 0
                 \/ \E i \in DOMAIN (q \o p) : (q \o p)[i] = [cmd |-> "delete", place |-> id.place]
      <3>1. \/ id \in ToSet(reader'.pending)
            \/ id.place = 0
            \/ \E i \in DOMAIN p : p[i] = [cmd |-> "delete", place |-> id.place]
        BY <2>1, <2>4, <1>5
      <3> QED
        BY <3>1, <2>3
    <2> QED
      BY <2>3, <2>4, <2>5, <1>5, <1>9 DEF After, Cached
  <1> QED
    BY <1>8, <1>9, <1>10, ReaderWorks

LEMMA ReaderStep ==
  ASSUME ReaderInv, ReaderNext
  PROVE  ReaderInv'
  BY ReadyPreserves, ReadPreserves, ExecutePreserves, AnswersPreserves, ArrivesPreserves
     DEF ReaderNext

LEMMA ReaderInits ==
  ASSUME ReaderInit
  PROVE  ReaderInv
  <1>1. /\ <<>> \in Seq(Ids) /\ <<>> \in Seq(Commands) /\ <<>> \in Seq(Signals) /\ <<>> \in Seq(Msgs)
        /\ <<>> \in Seq(Lines) /\ DOMAIN <<>> = {}
    OBVIOUS
  <1>2. ToSet(<<>>) = {}
    BY <1>1 DEF ToSet
  <1>3. /\ reader \in Readers
        /\ reader.pending = <<>> /\ reader.pseudoInbox = <<>> /\ reader.at = <<>>
        /\ reader.dispatched = <<>> /\ reader.fetching = FALSE /\ reader.needRefetch = FALSE
        /\ reader.pendingCheck = FALSE /\ reader.pendingFirstMessage = FALSE
        /\ reader.haveCached = FALSE
    BY <1>1, SlotsAssumption DEF ReaderInit, Readers
  <1>4. /\ modem \in Modems /\ modem.answer = <<>> /\ modem.notifies = Announces
        /\ \A p \in Places : modem.sim[p] = 0
    <2>1. [p \in Places |-> 0] \in [Places -> 0..MaxMessages]
      BY MessagesAssumption
    <2> QED
      BY <2>1, <1>1, AnnouncesAssumption DEF ReaderInit, Modems
  <1>5. rx = <<>> /\ arrived = 0 /\ failures = MaxFailures
    BY DEF ReaderInit
  <1>6. ReaderType
    BY <1>1, <1>3, <1>4, <1>5, MessagesAssumption DEF ReaderType
  <1>7. Local(reader)
    BY <1>1, <1>2, <1>3 DEF Local, ListFlags, Sorted, Begun, Lists, Distinct
  <1>8. Answers = {} /\ Answering = {} /\ ~Outstanding
    BY <1>1, <1>2, <1>4, <1>5 DEF Answers, Answering, Outstanding
  <1>9. OneAnswer /\ Snapshot
    BY <1>4, <1>8 DEF OneAnswer, Snapshot
  <1>10. SimOnce /\ DirectOnce /\ PseudoNew /\ DatagramsOnce
    BY <1>1, <1>2, <1>3, <1>4, <1>5 DEF SimOnce, DirectOnce, PseudoNew, DatagramsOnce
  <1>11. Gone
    BY <1>2, <1>3 DEF Gone
  <1>12. Announces => CacheKept
    BY <1>3, <1>4, <1>8 DEF CacheKept, Cached
  <1> QED
    BY <1>6, <1>7, <1>9, <1>10, <1>11, <1>12 DEF ReaderInv

-----------------------------------------------------------------------------
\* The client

\* What has been retrieved and what is in the mailbox is known to fetched().
Retrieved ==
  /\ client.retrievedIds # {} => client.mailbox \subseteq client.retrievedIds
  /\ ToSet(client.retrievedMessages) \subseteq client.retrievedIds
  /\ RetrievedOnce

ClientInv == client \in Clients /\ requests \in Seq(Requests) /\ Retrieved
InboxInv  == ReaderInv /\ ClientInv

LEMMA ClientFields ==
  ASSUME ClientInv
  PROVE  /\ client \in Clients /\ client.activeIds \in Seq(Ids)
         /\ client.retrievedIds \in SUBSET Ids /\ client.retrievedMessages \in Seq(Ids)
         /\ client.mailbox \in SUBSET Ids /\ client.received \in SUBSET Ids
         /\ requests \in Seq(Requests)
  BY DEF ClientInv, Clients

LEMMA Asked ==
  ASSUME requests \in Seq(Requests), NEW reqs \in Seq(Requests), Ask(reqs)
  PROVE  requests' \in Seq(Requests)
  BY DEF Ask

LEMMA Calls ==
  \A name \in {"check", "first", "next"} :
     Call(name) \in Seq(Requests) /\ Call(name) \o Call(name) \in Seq(Requests)
  <1>1. \A name \in {"check", "first", "next"} : [req |-> name] \in Requests
    BY DEF Requests
  <1>2. \A x \in Requests : <<x>> \in Seq(Requests) /\ <<x>> \o <<x>> \in Seq(Requests)
    OBVIOUS
  <1> QED
    BY <1>1, <1>2 DEF Call

\* The client's list of retrieved messages and its mailbox are as before.
LEMMA SameRetrieved ==
  ASSUME ClientInv, client' \in Clients, requests' \in Seq(Requests),
         client'.retrievedIds = client.retrievedIds,
         client'.retrievedMessages = client.retrievedMessages,
         client'.mailbox \subseteq client.mailbox
  PROVE  ClientInv'
  BY DEF ClientInv, Retrieved, RetrievedOnce

LEMMA FetchedPreserves ==
  ASSUME ClientInv, NEW id \in Ids, Fetched(id)
  PROVE  ClientInv'
  <1> DEFINE known == RetrievedIds(client)
             c == [client EXCEPT !.activeIds = Append(@, id), !.retrievedIds = RetrievedIds(client)]
             new == client.retrievedMessages
  <1>1. /\ client \in Clients /\ client.activeIds \in Seq(Ids)
        /\ client.retrievedIds \in SUBSET Ids /\ new \in Seq(Ids)
        /\ client.mailbox \in SUBSET Ids /\ requests \in Seq(Requests)
    BY ClientFields
  <1>2. requests' \in Seq(Requests)
    BY <1>1, Calls, Asked DEF Fetched
  <1>3. known \in SUBSET Ids /\ client.mailbox \subseteq known /\ ToSet(new) \subseteq known
    BY <1>1 DEF RetrievedIds, ClientInv, Retrieved
  <1> HIDE DEF known
  <1>4. /\ c \in Clients /\ c.retrievedIds = known /\ c.retrievedMessages = new
        /\ c.mailbox = client.mailbox
    <2>1. Append(client.activeIds, id) \in Seq(Ids)
      BY <1>1
    <2> QED
      BY <2>1, <1>1, <1>3 DEF Clients, known
  <1>5. client' = IF id \in c.retrievedIds THEN c
                  ELSE [c EXCEPT !.retrievedIds = @ \cup {id}, !.retrievedMessages = Append(@, id)]
    BY DEF Fetched
  <1> HIDE DEF c
  <1>6. RetrievedOnce
    BY DEF ClientInv, Retrieved
  <1>7. CASE id \in known
    <2>1. client' = c
      BY <1>4, <1>5, <1>7
    <2> QED
      BY <2>1, <1>2, <1>3, <1>4, <1>6 DEF ClientInv, Retrieved, RetrievedOnce
  <1>8. CASE id \notin known
    <2> DEFINE more == Append(new, id)
    <2>1. /\ more \in Seq(Ids) /\ ToSet(more) = ToSet(new) \cup {id}
          /\ DOMAIN more = 1..(Len(new) + 1) /\ DOMAIN new = 1..Len(new) /\ Len(new) \in Nat
          /\ more[Len(new) + 1] = id
          /\ \A i \in 1..Len(new) : more[i] = new[i]
      BY <1>1, AppendSet
    <2> HIDE DEF more
    <2>2. client' = [c EXCEPT !.retrievedIds = known \cup {id}, !.retrievedMessages = more]
      BY <1>4, <1>5, <1>8 DEF Clients, more
    <2>3. known \cup {id} \in SUBSET Ids
      BY <1>3
    <2>4. /\ client' \in Clients /\ client'.retrievedIds = known \cup {id}
          /\ client'.retrievedMessages = more /\ client'.mailbox = client.mailbox
      BY <2>1, <2>2, <2>3, <1>4 DEF Clients
    <2>5. \A i \in 1..Len(new) : new[i] # id /\ new[i] \notin client.mailbox
      BY <2>1, <1>3, <1>6, <1>8 DEF ToSet, RetrievedOnce
    <2>6. id \notin client.mailbox
      BY <1>3, <1>8
    <2>7. RetrievedOnce'
      <3>1. \A i \in DOMAIN more : more[i] \notin client.mailbox
        BY <2>1, <2>5, <2>6
      <3>2. ASSUME NEW i \in DOMAIN more, NEW j \in DOMAIN more, more[i] = more[j]
            PROVE  i = j
        <4>1. CASE i \in 1..Len(new) /\ j \in 1..Len(new)
          BY <4>1, <3>2, <2>1, <1>6 DEF RetrievedOnce
        <4>2. CASE ~(i \in 1..Len(new) /\ j \in 1..Len(new))
          BY <4>2, <3>2, <2>1, <2>5
        <4> QED
          BY <4>1, <4>2
      <3> QED
        BY <3>1, <3>2, <2>4 DEF RetrievedOnce
    <2> QED
      BY <2>1, <2>4, <2>7, <1>2, <1>3 DEF ClientInv, Retrieved
  <1> QED
    BY <1>7, <1>8

LEMMA EndPreserves ==
  ASSUME ReaderType, ClientInv, FetchedEnd
  PROVE  ClientInv'
  <1>1. /\ client \in Clients /\ client.activeIds \in Seq(Ids)
        /\ client.retrievedMessages \in Seq(Ids)
        /\ client.mailbox \in SUBSET Ids /\ client.received \in SUBSET Ids
        /\ requests \in Seq(Requests)
    BY ClientFields
  <1>2. CASE client.sawNewMessage
    <2>1. client' = [client EXCEPT !.smsFetching = FALSE] /\ Ask(Call("check"))
      BY <1>2 DEF FetchedEnd
    <2>2. requests' \in Seq(Requests)
      BY <2>1, <1>1, Calls, Asked
    <2>3. /\ client' \in Clients /\ client'.retrievedIds = client.retrievedIds
          /\ client'.retrievedMessages = client.retrievedMessages
          /\ client'.mailbox = client.mailbox
      BY <2>1, <1>1 DEF Clients
    <2> QED
      BY <2>2, <2>3, SameRetrieved
  <1>3. CASE ~client.sawNewMessage
    <2> DEFINE freed == Freed(client.activeIds, ToBeDeleted)
               mail == client.mailbox \cup ToSet(client.retrievedMessages)
               got == client.received \cup ToSet(client.retrievedMessages)
    <2>1. /\ client' = [client EXCEPT
                  !.smsFetching = FALSE,
                  !.mailbox = @ \cup ToSet(client.retrievedMessages),
                  !.received = @ \cup ToSet(client.retrievedMessages),
                  !.retrievedMessages = <<>>, !.retrievedIds = {},
                  !.activeIds = freed.ids]
          /\ Ask(freed.calls)
      BY <1>3 DEF FetchedEnd
    <2>2. ToBeDeleted \in Nat
      <3>1. reader.used \in Nat /\ reader.total \in Nat
        BY SlotsAssumption DEF ReaderType, Readers
      <3> QED
        BY <3>1, ClientAssumption DEF ToBeDeleted
    <2>3. freed.calls \in Seq(Requests) /\ freed.ids \in Seq(Ids)
      BY <1>1, <2>2, FreedProperties DEF Freeing, Accs
    <2>4. requests' \in Seq(Requests)
      BY <2>1, <2>3, <1>1, Asked
    <2>5. mail \in SUBSET Ids /\ got \in SUBSET Ids
      BY <1>1, SetOfSeq
    <2> DEFINE ids == freed.ids
    <2>6. client' = [client EXCEPT
                  !.smsFetching = FALSE, !.mailbox = mail, !.received = got,
                  !.retrievedMessages = <<>>, !.retrievedIds = {}, !.activeIds = ids]
      BY <2>1, <1>1 DEF Clients
    <2>7. ids \in Seq(Ids) /\ <<>> \in Seq(Ids) /\ {} \in SUBSET Ids /\ DOMAIN <<>> = {}
      BY <2>3
    <2> HIDE DEF mail, got, ids
    <2>8. /\ client' \in Clients /\ client'.retrievedIds = {}
          /\ client'.retrievedMessages = <<>>
      BY <1>1, <2>5, <2>6, <2>7 DEF Clients
    <2>9. ToSet(<<>>) = {}
      BY <2>7 DEF ToSet
    <2> QED
      BY <2>4, <2>7, <2>8, <2>9 DEF ClientInv, Retrieved, RetrievedOnce
  <1> QED
    BY <1>2, <1>3

LEMMA CountPreserves ==
  ASSUME ClientInv, NEW n \in Nat, MessageCount(n)
  PROVE  ClientInv'
  <1>1. client \in Clients /\ requests \in Seq(Requests)
    BY ClientFields
  <1>2. CASE UNCHANGED <<client, requests>>
    BY <1>1, <1>2, SameRetrieved
  <1>3. CASE client' = [client EXCEPT !.sawNewMessage = TRUE] /\ UNCHANGED requests
    <2>1. /\ client' \in Clients /\ client'.retrievedIds = client.retrievedIds
          /\ client'.retrievedMessages = client.retrievedMessages
          /\ client'.mailbox = client.mailbox
      BY <1>1, <1>3 DEF Clients
    <2> QED
      BY <2>1, <1>1, <1>3, SameRetrieved
  <1>4. CASE /\ client' = [client EXCEPT !.smsFetching = TRUE,
                                         !.sawNewMessage = FALSE,
                                         !.activeIds = <<>>]
             /\ Ask(Call("first"))
    <2>1. <<>> \in Seq(Ids)
      OBVIOUS
    <2>2. /\ client' \in Clients /\ client'.retrievedIds = client.retrievedIds
          /\ client'.retrievedMessages = client.retrievedMessages
          /\ client'.mailbox = client.mailbox
      BY <1>1, <1>4, <2>1 DEF Clients
    <2>3. requests' \in Seq(Requests)
      BY <1>1, <1>4, Calls, Asked
    <2> QED
      BY <2>2, <2>3, SameRetrieved
  <1> QED
    BY <1>2, <1>3, <1>4 DEF MessageCount

LEMMA ReadyChangedPreserves ==
  ASSUME ClientInv, SimReadyChanged
  PROVE  ClientInv'
  <1>1. client \in Clients /\ requests \in Seq(Requests)
    BY ClientFields
  <1>2. CASE UNCHANGED <<client, requests>>
    BY <1>1, <1>2, SameRetrieved
  <1>3. CASE client' = [client EXCEPT !.smsCheckRequired = FALSE] /\ Ask(Call("check"))
    <2>1. /\ client' \in Clients /\ client'.retrievedIds = client.retrievedIds
          /\ client'.retrievedMessages = client.retrievedMessages
          /\ client'.mailbox = client.mailbox
      BY <1>1, <1>3 DEF Clients
    <2>2. requests' \in Seq(Requests)
      BY <1>1, <1>3, Calls, Asked
    <2> QED
      BY <2>1, <2>2, SameRetrieved
  <1> QED
    BY <1>2, <1>3 DEF SimReadyChanged

LEMMA SignalPreserves ==
  ASSUME InboxInv, ReceiveSignal
  PROVE  InboxInv'
  <1> DEFINE signal == Head(reader.out)
  <1>1. ReaderInv /\ ClientInv /\ ReaderType /\ reader \in Readers /\ Local(reader)
    BY Typed DEF InboxInv, ReaderInv
  <1>2. reader.out \in Seq(Signals) /\ reader.out # <<>>
    BY <1>1, ReaderFields DEF ReceiveSignal
  <1>3. signal \in Signals /\ Tail(reader.out) \in Seq(Signals)
    BY <1>2, TailSet
  <1>4. reader' = [reader EXCEPT !.out = Tail(@)] /\ UNCHANGED <<modem, rx, arrived, failures>>
    BY DEF ReceiveSignal
  <1>5. ReaderInv'
    <2>1. /\ reader' \in Readers
          /\ reader'.pending = reader.pending /\ reader'.pseudoInbox = reader.pseudoInbox
          /\ reader'.at = reader.at
          /\ reader'.fetching = reader.fetching /\ reader'.needRefetch = reader.needRefetch
          /\ reader'.pendingCheck = reader.pendingCheck
          /\ reader'.pendingFirstMessage = reader.pendingFirstMessage
          /\ reader'.dispatched = reader.dispatched /\ reader'.overtaken = reader.overtaken
          /\ reader'.haveCached = reader.haveCached
      BY <1>1, <1>3, <1>4 DEF Readers
    <2>2. Local(reader') /\ After(reader, reader')
      BY <2>1, <1>1, LocalSame
    <2> QED
      BY <2>2, <1>1, <1>4, ReaderWorks
  <1>6. ClientInv'
    <2>1. CASE signal.sig = "ready"
      BY <2>1, <1>1, ReadyChangedPreserves DEF ReceiveSignal
    <2>2. CASE signal.sig = "count"
      <3>1. signal.n \in Nat
        BY <2>2, <1>3 DEF Signals
      <3>2. MessageCount(signal.n)
        BY <2>2 DEF ReceiveSignal
      <3> QED
        BY <3>1, <3>2, <1>1, CountPreserves
    <2>3. CASE signal.sig = "fetched"
      <3>1. signal.id \in Ids
        BY <2>3, <1>3 DEF Signals
      <3>2. Fetched(signal.id)
        BY <2>3 DEF ReceiveSignal
      <3> QED
        BY <3>1, <3>2, <1>1, FetchedPreserves
    <2>4. CASE signal.sig = "end"
      BY <2>4, <1>1, EndPreserves DEF ReceiveSignal
    <2>5. signal.sig \in {"ready", "count", "fetched", "end"}
      BY <1>3 DEF Signals
    <2> QED
      BY <2>1, <2>2, <2>3, <2>4, <2>5
  <1> QED
    BY <1>5, <1>6 DEF InboxInv

LEMMA ServePreserves ==
  ASSUME InboxInv, ServeRequest
  PROVE  InboxInv'
  <1> DEFINE call == Head(requests)
  <1>1. ReaderInv /\ ClientInv /\ ReaderType /\ Local(reader) /\ client \in Clients
    BY ClientFields DEF InboxInv, ReaderInv
  <1>2. requests \in Seq(Requests) /\ requests # <<>>
    BY <1>1, ClientFields DEF ServeRequest
  <1>3. call \in Requests /\ Tail(requests) \in Seq(Requests)
    BY <1>2, TailSet
  <1>4. requests' = Tail(requests) /\ UNCHANGED <<modem, rx, arrived, failures, client>>
    BY DEF ServeRequest
  <1>5. Local(reader') /\ After(reader, reader')
    <2>1. CASE call.req = "check"
      <3>1. reader' = Check(reader, FALSE)
        BY <2>1 DEF ServeRequest
      <3> QED
        BY <3>1, <1>1, LocalCheck
    <2>2. CASE call.req = "first"
      <3>1. reader' = FirstMessage(reader)
        BY <2>2 DEF ServeRequest
      <3> QED
        BY <3>1, <1>1, LocalFirst
    <2>3. CASE call.req = "next"
      <3>1. reader' = NextMessage(reader)
        BY <2>3 DEF ServeRequest
      <3> QED
        BY <3>1, <1>1, LocalNext
    <2>4. CASE call.req = "delete"
      <3>1. call.id \in Ids
        BY <2>4, <1>3 DEF Requests
      <3>2. reader' = DeleteMessages(reader, <<call.id>>)
        BY <2>4 DEF ServeRequest
      <3>3. <<call.id>> \in Seq(Ids)
        BY <3>1
      <3> QED
        BY <3>2, <3>3, <1>1, LocalDelete
    <2>5. call.req \in {"check", "first", "next", "delete"}
      BY <1>3 DEF Requests
    <2> QED
      BY <2>1, <2>2, <2>3, <2>4, <2>5
  <1>6. ReaderInv'
    BY <1>1, <1>4, <1>5, ReaderWorks
  <1>7. ClientInv'
    BY <1>1, <1>3, <1>4, SameRetrieved
  <1> QED
    BY <1>6, <1>7 DEF InboxInv

LEMMA CheckPreserves ==
  ASSUME InboxInv, CheckForNewMessages
  PROVE  InboxInv'
  <1>1. ReaderInv /\ ClientInv /\ client \in Clients /\ requests \in Seq(Requests)
    BY ClientFields DEF InboxInv
  <1>2. UNCHANGED <<reader, modem, rx, arrived, failures>>
    BY DEF CheckForNewMessages, readerVars
  <1>3. /\ client.checks > 0
        /\ client' = [client EXCEPT !.checks = @ - 1, !.smsCheckRequired = ~reader.ready]
    BY DEF CheckForNewMessages
  <1>4. client.checks \in Nat /\ client.checks - 1 \in 0..MaxChecks /\ (~reader.ready) \in BOOLEAN
    BY <1>1, <1>3, ClientAssumption DEF Clients
  <1>5. /\ client' \in Clients /\ client'.retrievedIds = client.retrievedIds
        /\ client'.retrievedMessages = client.retrievedMessages
        /\ client'.mailbox = client.mailbox
    BY <1>1, <1>3, <1>4 DEF Clients
  <1>6. requests' \in Seq(Requests)
    <2>1. <<>> \in Seq(Requests)
      OBVIOUS
    <2> QED
      BY <2>1, <1>1, Calls, Asked DEF CheckForNewMessages
  <1>7. ReaderInv'
    <2>1. Local(reader') /\ After(reader, reader')
      <3>1. Local(reader) /\ reader \in Readers
        BY <1>1 DEF ReaderInv, Local
      <3>2. Local(reader) /\ After(reader, reader)
        BY <3>1, LocalSame
      <3> QED
        BY <3>2, <1>2
    <2> QED
      BY <2>1, <1>1, <1>2, ReaderWorks
  <1> QED
    BY <1>1, <1>5, <1>6, <1>7, SameRetrieved DEF InboxInv

LEMMA UserDeletePreserves ==
  ASSUME InboxInv, DeleteImmediately
  PROVE  InboxInv'
  <1>1. /\ ReaderInv /\ ClientInv /\ client \in Clients /\ requests \in Seq(Requests)
        /\ client.activeIds \in Seq(Ids) /\ client.mailbox \in SUBSET Ids
    BY ClientFields DEF InboxInv
  <1>2. UNCHANGED <<reader, modem, rx, arrived, failures>>
    BY DEF DeleteImmediately, readerVars
  <1>3. PICK id \in client.mailbox :
          /\ client' = [Forget(client, id) EXCEPT !.mailbox = @ \ {id}]
          /\ Ask(Deletion(client, id))
    BY DEF DeleteImmediately
  <1> DEFINE ids == Without(client.activeIds, {id})
             mail == client.mailbox \ {id}
  <1>4. ids \in Seq(Ids) /\ mail \in SUBSET Ids
    BY <1>1, Withouts
  <1>5. client' = [client EXCEPT !.activeIds = ids, !.mailbox = mail]
    BY <1>1, <1>3 DEF Forget, Clients
  <1> HIDE DEF ids, mail
  <1>6. /\ client' \in Clients /\ client'.retrievedIds = client.retrievedIds
        /\ client'.retrievedMessages = client.retrievedMessages
        /\ client'.mailbox = mail
    BY <1>1, <1>4, <1>5 DEF Clients
  <1>7. requests' \in Seq(Requests)
    <2>1. [req |-> "delete", id |-> id] \in Requests
      BY <1>1 DEF Requests
    <2>2. Deletion(client, id) \in Seq(Requests)
      BY <2>1 DEF Deletion
    <2> QED
      BY <2>2, <1>1, <1>3, Asked
  <1>8. ReaderInv'
    <2>1. Local(reader') /\ After(reader, reader')
      <3>1. Local(reader) /\ reader \in Readers
        BY <1>1 DEF ReaderInv, Local
      <3>2. Local(reader) /\ After(reader, reader)
        BY <3>1, LocalSame
      <3> QED
        BY <3>2, <1>2
    <2> QED
      BY <2>1, <1>1, <1>2, ReaderWorks
  <1> QED
    BY <1>1, <1>6, <1>7, <1>8, SameRetrieved DEF InboxInv, mail

LEMMA InboxInits ==
  ASSUME Init
  PROVE  InboxInv
  <1>1. ReaderInv
    BY ReaderInits DEF Init
  <1>2. <<>> \in Seq(Ids) /\ <<>> \in Seq(Requests) /\ DOMAIN <<>> = {}
    OBVIOUS
  <1>3. /\ client \in Clients /\ client.retrievedIds = {} /\ client.retrievedMessages = <<>>
        /\ requests \in Seq(Requests)
    BY <1>2, ClientAssumption DEF Init, Clients
  <1>4. ToSet(<<>>) = {}
    BY <1>2 DEF ToSet
  <1> QED
    BY <1>1, <1>2, <1>3, <1>4 DEF InboxInv, ClientInv, Retrieved, RetrievedOnce

LEMMA InboxStep ==
  ASSUME InboxInv, [Next]_vars
  PROVE  InboxInv'
  <1>1. CASE ReaderNext /\ UNCHANGED <<client, requests>>
    <2>1. ReaderInv'
      BY <1>1, ReaderStep DEF InboxInv
    <2>2. ClientInv'
      BY <1>1, ClientFields, SameRetrieved DEF InboxInv
    <2> QED
      BY <2>1, <2>2 DEF InboxInv
  <1>2. CASE ReceiveSignal
    BY <1>2, SignalPreserves
  <1>3. CASE ServeRequest
    BY <1>3, ServePreserves
  <1>4. CASE CheckForNewMessages
    BY <1>4, CheckPreserves
  <1>5. CASE DeleteImmediately
    BY <1>5, UserDeletePreserves
  <1>6. CASE UNCHANGED vars
    <2>1. UNCHANGED <<reader, modem, rx, arrived, failures, client, requests>>
      BY <1>6 DEF vars
    <2>2. Local(reader') /\ After(reader, reader')
      <3>1. Local(reader) /\ reader \in Readers
        BY DEF InboxInv, ReaderInv, Local
      <3>2. Local(reader) /\ After(reader, reader)
        BY <3>1, LocalSame
      <3> QED
        BY <3>2, <2>1
    <2>3. ReaderInv'
      BY <2>1, <2>2, ReaderWorks DEF InboxInv
    <2>4. ClientInv'
      BY <2>1, ClientFields, SameRetrieved DEF InboxInv
    <2> QED
      BY <2>3, <2>4 DEF InboxInv
  <1> QED
    BY <1>1, <1>2, <1>3, <1>4, <1>5, <1>6 DEF Next

LEMMA InboxInvariant == Spec => []InboxInv
  BY InboxInits, InboxStep, PTL DEF Spec

-----------------------------------------------------------------------------
\* Datagrams of the SIM are not handed to the client

\* What the client may be given: joinMessages() has seen all that was listed,
\* but not what fetchMessages() takes from the pseudo inbox.
MayHave(id) == id.place = 0 \/ id.msg \notin Datagrams
Proper(signal) == signal.sig = "fetched" => MayHave(signal.id)

Clean(r) ==
  /\ r \in Readers
  /\ \A id \in ToSet(r.pending) : MayHave(id)
  /\ \A id \in ToSet(r.pseudoInbox) : id.place = 0
  /\ \A signal \in ToSet(r.out) : Proper(signal)
  /\ ToSet(r.dispatched) \subseteq Datagrams

LEMMA CleanSame ==
  ASSUME NEW r, Clean(r), NEW s \in Readers, s.pending = r.pending,
         s.pseudoInbox = r.pseudoInbox, s.dispatched = r.dispatched,
         ToSet(s.out) \subseteq ToSet(r.out)
  PROVE  Clean(s)
  BY DEF Clean

LEMMA CleanEmit ==
  ASSUME NEW r, Clean(r), NEW signal, Proper(signal), NEW s \in Readers,
         s.out = Append(r.out, signal), s.pending = r.pending,
         s.pseudoInbox = r.pseudoInbox, s.dispatched = r.dispatched
  PROVE  Clean(s)
  <1>1. ToSet(s.out) = ToSet(r.out) \cup {signal}
    BY ReaderFields, AppendSet DEF Clean
  <1> QED
    BY <1>1 DEF Clean

LEMMA CleanCount ==
  ASSUME NEW r, Clean(r)
  PROVE  Clean(Count(r))
  <1> DEFINE s == Count(r)
  <1>1. r \in Readers
    BY DEF Clean
  <1>2. s \in Readers /\ s = [r EXCEPT !.out = Append(r.out, CountSignal(r))]
    BY <1>1, CountEffect
  <1>3. Proper(CountSignal(r))
    BY DEF Proper, CountSignal
  <1> HIDE DEF s
  <1>4. /\ s.out = Append(r.out, CountSignal(r)) /\ s.pending = r.pending
        /\ s.pseudoInbox = r.pseudoInbox /\ s.dispatched = r.dispatched
    BY <1>1, <1>2 DEF Readers
  <1>5. Clean(s)
    BY <1>2, <1>3, <1>4, CleanEmit
  <1> QED
    BY <1>5 DEF s

LEMMA CleanNext ==
  ASSUME NEW r, Clean(r)
  PROVE  Clean(NextMessage(r))
  <1> DEFINE s == NextMessage(r)
             posn == IF r.pendingPosn < Len(r.pending) THEN r.pendingPosn + 1 ELSE 0
  <1>1. r \in Readers /\ r.pending \in Seq(Ids) /\ r.pendingPosn \in Nat
    BY ReaderFields DEF Clean
  <1>2. s \in Readers /\ s = [r EXCEPT !.out = Append(r.out, NextSignal(r)), !.pendingPosn = posn]
    BY <1>1, NextEffect
  <1>3. Proper(NextSignal(r))
    <2>1. CASE r.pendingPosn < Len(r.pending)
      <3>1. r.pendingPosn + 1 \in DOMAIN r.pending
        BY <1>1, <2>1
      <3>2. r.pending[r.pendingPosn + 1] \in ToSet(r.pending)
        BY <1>1, <3>1, SetOfSeq
      <3> QED
        BY <2>1, <3>2 DEF Clean, Proper, NextSignal
    <2>2. CASE ~(r.pendingPosn < Len(r.pending))
      BY <2>2 DEF Proper, NextSignal
    <2> QED
      BY <2>1, <2>2
  <1> HIDE DEF s, posn
  <1>4. /\ s.out = Append(r.out, NextSignal(r)) /\ s.pending = r.pending
        /\ s.pseudoInbox = r.pseudoInbox /\ s.dispatched = r.dispatched
    BY <1>1, <1>2 DEF Readers
  <1>5. Clean(s)
    BY <1>2, <1>3, <1>4, CleanEmit
  <1> QED
    BY <1>5 DEF s

LEMMA CleanFetch ==
  ASSUME NEW r, Clean(r)
  PROVE  Clean(FetchMessages(r))
  <1> DEFINE s == FetchMessages(r)
  <1>1. r \in Readers
    BY DEF Clean
  <1>2. /\ s \in Readers
        /\ s = [r EXCEPT !.fetching = TRUE, !.pending = r.pseudoInbox, !.at = r.at \o ListCmds]
    BY <1>1, FetchEffect
  <1> HIDE DEF s
  <1>3. /\ s.pending = r.pseudoInbox /\ s.out = r.out
        /\ s.pseudoInbox = r.pseudoInbox /\ s.dispatched = r.dispatched
    BY <1>1, <1>2 DEF Readers
  <1>4. Clean(s)
    BY <1>2, <1>3 DEF Clean, MayHave
  <1> QED
    BY <1>4 DEF s

LEMMA CleanCheck ==
  ASSUME NEW r, Clean(r), NEW force \in BOOLEAN
  PROVE  Clean(Check(r, force))
  <1> DEFINE u == [r EXCEPT !.pendingCheck = TRUE]
  <1>1. r \in Readers
    BY DEF Clean
  <1>2. /\ u \in Readers /\ u.pending = r.pending /\ u.pseudoInbox = r.pseudoInbox
        /\ u.dispatched = r.dispatched /\ u.out = r.out
    BY <1>1 DEF Readers
  <1>3. Check(r, force) \in {Count(r), u, FetchMessages(u)}
    BY <1>1, CheckEffect, Zenon
  <1> HIDE DEF u
  <1>4. Clean(u)
    BY <1>2, CleanSame
  <1> QED
    BY <1>3, <1>4, CleanCount, CleanFetch

LEMMA CleanNews ==
  ASSUME NEW r, Clean(r)
  PROVE  Clean(NewMessageArrived(r))
  <1> DEFINE u == [r EXCEPT !.needRefetch = TRUE]
             v == [r EXCEPT !.haveCached = FALSE]
  <1>1. /\ u \in Readers /\ u.pending = r.pending /\ u.pseudoInbox = r.pseudoInbox
        /\ u.dispatched = r.dispatched /\ u.out = r.out
    BY DEF Clean, Readers
  <1>2. /\ v \in Readers /\ v.pending = r.pending /\ v.pseudoInbox = r.pseudoInbox
        /\ v.dispatched = r.dispatched /\ v.out = r.out
    BY DEF Clean, Readers
  <1>3. NewMessageArrived(r) = u \/ NewMessageArrived(r) = Check(v, FALSE)
    BY DEF NewMessageArrived
  <1> HIDE DEF u, v
  <1>4. Clean(u) /\ Clean(v)
    BY <1>1, <1>2, CleanSame
  <1> QED
    BY <1>3, <1>4, CleanCheck

LEMMA CleanFirst ==
  ASSUME NEW r, Clean(r)
  PROVE  Clean(FirstMessage(r))
  <1> DEFINE u == [r EXCEPT !.pendingPosn = 0]
             v == [r EXCEPT !.pendingFirstMessage = TRUE]
  <1>1. /\ u \in Readers /\ u.pending = r.pending /\ u.pseudoInbox = r.pseudoInbox
        /\ u.dispatched = r.dispatched /\ u.out = r.out
    BY DEF Clean, Readers
  <1>2. /\ v \in Readers /\ v.pending = r.pending /\ v.pseudoInbox = r.pseudoInbox
        /\ v.dispatched = r.dispatched /\ v.out = r.out
    BY DEF Clean, Readers
  <1>3. FirstMessage(r) \in {NextMessage(u), v, FetchMessages(v)}
    BY DEF FirstMessage
  <1> HIDE DEF u, v
  <1>4. Clean(u) /\ Clean(v)
    BY <1>1, <1>2, CleanSame
  <1> QED
    BY <1>3, <1>4, CleanNext, CleanFetch

LEMMA CleanDelete ==
  ASSUME NEW r, Clean(r), NEW ids \in Seq(Ids)
  PROVE  Clean(DeleteMessages(r, ids))
  <1> DEFINE s == DeleteMessages(r, ids)
             p == Without(r.pending, ToSet(ids))
             q == Without(r.pseudoInbox, ToSet(ids))
             o == r.overtaken \/ (Stored(ids) # <<>> /\ Listing(r))
             n == UsedWithout(r.used, Len(Stored(ids)))
             d == r.at \o Deletions(ids)
  <1>1. r \in Readers /\ r.pending \in Seq(Ids) /\ r.pseudoInbox \in Seq(Ids)
    BY ReaderFields DEF Clean
  <1>2. /\ s \in Readers
        /\ s = [r EXCEPT !.pending = p, !.pseudoInbox = q, !.overtaken = o, !.used = n, !.at = d]
    BY <1>1, DeleteEffect
  <1>3. /\ ToSet(p) \subseteq ToSet(r.pending) /\ ToSet(q) \subseteq ToSet(r.pseudoInbox)
    BY <1>1, Withouts
  <1> HIDE DEF s, p, q, o, n, d
  <1>4. /\ s.pending = p /\ s.pseudoInbox = q /\ s.out = r.out /\ s.dispatched = r.dispatched
    BY <1>1, <1>2 DEF Readers
  <1>5. Clean(s)
    BY <1>2, <1>3, <1>4 DEF Clean
  <1> QED
    BY <1>5 DEF s

LEMMA CleanListDone ==
  ASSUME NEW r, Clean(r), NEW ok \in BOOLEAN, NEW ids \in Seq(Ids)
  PROVE  Clean(StoreListDone(r, ok, ids))
  <1> DEFINE done == Done(r, ok, ids)
             all  == r.pending \o ids
             data == DataOf(all)
             new  == MsgSeq(data)
             rest == Without(all, ToSet(data))
             kept == Without(r.pseudoInbox, ToSet(data))
             u    == [done EXCEPT !.needRefetch = FALSE]
  <1>1. /\ r \in Readers /\ r.pseudoInbox \in Seq(Ids) /\ r.out \in Seq(Signals)
        /\ r.dispatched \in Seq(Msgs)
    BY ReaderFields DEF Clean
  <1>2. /\ done \in Readers /\ all \in Seq(Ids) /\ done.pending = rest
        /\ done.pseudoInbox = kept /\ done.dispatched = r.dispatched \o new
        /\ done.out = r.out \/ done.out = Append(r.out, Ready)
    BY <1>1, DoneEffect, ZenonT(60)
  <1>3. /\ data \in Seq(Ids)
        /\ ToSet(data) = {id \in ToSet(all) : id.msg \in Datagrams}
    BY <1>2, DataProperties
  <1>4. new \in Seq(Msgs) /\ ToSet(new) = {id.msg : id \in ToSet(data)}
    BY <1>3, MsgSeqProperties
  <1>5. ASSUME NEW a \in Seq(Ids), NEW D PROVE ToSet(Without(a, D)) = ToSet(a) \ D
    BY Withouts
  <1>6. StoreListDone(r, ok, ids) = IF done.needRefetch THEN FetchMessages(u) ELSE Answer(done)
    BY StoreListDoneIs
  <1> HIDE DEF done, all, data, new
  <1>7. ToSet(rest) = ToSet(all) \ ToSet(data)
    BY <1>2, <1>5 DEF rest
  <1>8. ToSet(kept) \subseteq ToSet(r.pseudoInbox)
    BY <1>1, <1>5 DEF kept
  <1> HIDE DEF rest, kept
  <1>9. Clean(done)
    <2>1. \A id \in ToSet(done.pending) : MayHave(id)
      BY <1>2, <1>3, <1>7 DEF MayHave
    <2>2. \A id \in ToSet(done.pseudoInbox) : id.place = 0
      BY <1>2, <1>8 DEF Clean
    <2>3. ToSet(Append(r.out, Ready)) = ToSet(r.out) \cup {Ready} /\ Proper(Ready)
      BY <1>1, AppendSet DEF Ready, Proper
    <2>4. \A signal \in ToSet(done.out) : Proper(signal)
      BY <1>2, <2>3 DEF Clean
    <2>5. ToSet(done.dispatched) = ToSet(r.dispatched) \cup ToSet(new)
      BY <1>1, <1>2, <1>4, ConcatSet
    <2>6. ToSet(done.dispatched) \subseteq Datagrams
      BY <1>3, <1>4, <2>5 DEF Clean
    <2> QED
      BY <1>2, <2>1, <2>2, <2>4, <2>6 DEF Clean
  <1>10. Clean(u)
    <2>1. /\ u \in Readers /\ u.pending = done.pending /\ u.pseudoInbox = done.pseudoInbox
          /\ u.dispatched = done.dispatched /\ u.out = done.out
      BY <1>2 DEF Readers
    <2> QED
      BY <1>9, <2>1, CleanSame
  <1>11. Clean(Answer(done))
    <2> DEFINE s == Answer(done)
               c == CountedOut(done)
    <2>1. /\ s \in Readers /\ s.pending = done.pending /\ s.pseudoInbox = done.pseudoInbox
          /\ s.dispatched = done.dispatched
          /\ s.out = IF done.pendingFirstMessage THEN Append(c, FirstSignal(done)) ELSE c
      BY <1>2, AnswerEffect
    <2>2. Proper(CountSignal(done))
      BY DEF Proper, CountSignal
    <2>3. Proper(FirstSignal(done))
      <3>1. done.pending \in Seq(Ids)
        BY <1>2, ReaderFields
      <3>2. CASE 0 < Len(done.pending)
        <4>1. done.pending[1] \in ToSet(done.pending)
          BY <3>1, <3>2, SetOfSeq
        <4> QED
          BY <1>9, <3>2, <4>1 DEF Clean, Proper, FirstSignal
      <3>3. CASE ~(0 < Len(done.pending))
        BY <3>3 DEF Proper, FirstSignal
      <3> QED
        BY <3>2, <3>3
    <2>4. done.out \in Seq(Signals) /\ CountSignal(done) \in Signals
      BY <1>2, ReaderFields, CountEffect
    <2>5. c \in Seq(Signals) /\ \A x \in ToSet(c) : Proper(x)
      <3>1. Append(done.out, CountSignal(done)) \in Seq(Signals)
        BY <2>4
      <3>2. ToSet(Append(done.out, CountSignal(done))) = ToSet(done.out) \cup {CountSignal(done)}
        BY <2>4, AppendSet
      <3> QED
        BY <1>9, <2>2, <2>4, <3>1, <3>2 DEF CountedOut, Clean
    <2> HIDE DEF s, c
    <2>6. ToSet(Append(c, FirstSignal(done))) = ToSet(c) \cup {FirstSignal(done)}
      BY <2>5, AppendSet
    <2>7. Clean(s)
      BY <1>9, <2>1, <2>3, <2>5, <2>6 DEF Clean
    <2> QED
      BY <2>7 DEF s
  <1> QED
    BY <1>6, <1>10, <1>11, CleanFetch

\* Neither the reader's list and signals nor what the client took from them
\* holds a datagram of the SIM.
CleanInv == Clean(reader) /\ \A id \in HandedOver : MayHave(id)

LEMMA CleanRead ==
  ASSUME InboxInv, InboxInv', CleanInv, ReadLine
  PROVE  Clean(reader')
  <1> DEFINE line == Head(rx)
             t    == Tail(reader.at)
             s    == [reader EXCEPT !.at = Tail(@)]
  <1>0. Clean(reader) /\ reader \in Readers /\ reader' \in Readers
    BY DEF CleanInv, Clean, InboxInv, ReaderInv, ReaderType
  <1>1. line \in Lines
    BY TailLines DEF InboxInv, ReaderInv, ReadLine
  <1>2. CASE line.what = "note"
    <2>1. reader' = NewMessageArrived(reader)
      BY <1>2 DEF ReadLine
    <2> QED
      BY <1>0, <2>1, CleanNews
  <1>3. CASE line.what = "direct"
    <2> DEFINE id == [place |-> 0, msg |-> line.msg]
               q  == Append(reader.pseudoInbox, id)
               u  == [reader EXCEPT !.pseudoInbox = q]
    <2>1. reader' = NewMessageArrived(u)
      BY <1>3 DEF ReadLine
    <2>2. id \in Ids /\ id.place = 0
      BY <1>1, <1>3, SlotsAssumption DEF Lines, Ids
    <2>3. reader.pseudoInbox \in Seq(Ids)
      BY <1>0, ReaderFields
    <2> HIDE DEF id
    <2>4. q \in Seq(Ids) /\ ToSet(q) = ToSet(reader.pseudoInbox) \cup {id}
      BY <2>2, <2>3, AppendSet
    <2> HIDE DEF q
    <2>5. /\ u \in Readers /\ u.pending = reader.pending /\ u.pseudoInbox = q
          /\ u.dispatched = reader.dispatched /\ u.out = reader.out
      BY <1>0, <2>4 DEF Readers
    <2> HIDE DEF u
    <2>6. Clean(u)
      BY <1>0, <2>2, <2>4, <2>5 DEF Clean
    <2> QED
      BY <2>1, <2>6, CleanNews
  <1>4. CASE line.what = "answer"
    <2>1. reader.at # <<>> /\ reader.at \in Seq(Commands)
      BY <1>4, AnswerRead, Typed DEF InboxInv, ReaderInv, ReadLine
    <2>2. t \in Seq(Commands)
      BY <2>1, TailSet
    <2> HIDE DEF t
    <2>3. s \in Readers /\ Clean(s)
      <3>1. s = [reader EXCEPT !.at = t]
        BY DEF t
      <3> HIDE DEF s
      <3>2. /\ s \in Readers /\ s.pending = reader.pending /\ s.pseudoInbox = reader.pseudoInbox
            /\ s.dispatched = reader.dispatched /\ s.out = reader.out
        BY <1>0, <2>2, <3>1 DEF Readers
      <3> QED
        BY <1>0, <3>2, CleanSame
    <2>4. /\ line.ok \in BOOLEAN /\ line.ids \in Seq(Ids) /\ line.used \in 0..Slots
      BY <1>1, <1>4 DEF Lines
    <2>5. \/ reader' = StoreListDone(s, line.ok, line.ids)
          \/ reader' = CpmsDone(s, line.used)
          \/ reader' = NmiStatusReceived(s)
          \/ reader' = s
      BY <1>4 DEF ReadLine, CommandDone
    <2> HIDE DEF s
    <2>6. CASE reader' = StoreListDone(s, line.ok, line.ids)
      BY <2>3, <2>4, <2>6, CleanListDone
    <2>7. CASE reader' = CpmsDone(s, line.used)
      <3> DEFINE w == CpmsDone(s, line.used)
      <3>1. /\ w.pending = s.pending /\ w.pseudoInbox = s.pseudoInbox
            /\ w.dispatched = s.dispatched /\ w.out = s.out
        BY <2>3 DEF CpmsDone, Readers
      <3> HIDE DEF w
      <3>2. w \in Readers
        BY <1>0, <2>7 DEF w
      <3>3. Clean(w)
        BY <2>3, <3>1, <3>2, CleanSame
      <3> QED
        BY <2>7, <3>3 DEF w
    <2>8. CASE reader' = NmiStatusReceived(s)
      <3> DEFINE w == NmiStatusReceived(s)
      <3>1. /\ w.pending = s.pending /\ w.pseudoInbox = s.pseudoInbox
            /\ w.dispatched = s.dispatched /\ w.out = s.out
        BY <2>3 DEF NmiStatusReceived, Queue, Readers
      <3> HIDE DEF w
      <3>2. w \in Readers
        BY <1>0, <2>8 DEF w
      <3>3. Clean(w)
        BY <2>3, <3>1, <3>2, CleanSame
      <3> QED
        BY <2>8, <3>3 DEF w
    <2>9. CASE reader' = s
      BY <2>3, <2>9
    <2> QED
      BY <2>5, <2>6, <2>7, <2>8, <2>9
  <1>5. line.what \in {"answer", "note", "direct"}
    BY <1>1 DEF Lines
  <1> QED
    BY <1>2, <1>3, <1>4, <1>5

LEMMA CleanReader ==
  ASSUME InboxInv, InboxInv', CleanInv, ReaderNext
  PROVE  Clean(reader')
  <1>0. Clean(reader) /\ reader \in Readers
    BY DEF CleanInv, Clean
  <1>1. CASE SmsReady
    <2> DEFINE q == <<Command("options")>>
               v == [reader EXCEPT !.initializing = FALSE]
               u == Queue(v, q)
    <2>1. reader' = Check(u, TRUE)
      BY <1>1 DEF SmsReady
    <2>2. q \in Seq(Commands)
      BY CommandType
    <2>3. /\ v \in Readers /\ v.pending = reader.pending /\ v.pseudoInbox = reader.pseudoInbox
          /\ v.dispatched = reader.dispatched /\ v.out = reader.out
      BY <1>0 DEF Readers
    <2> HIDE DEF q, v
    <2>4. u \in Readers /\ u = [v EXCEPT !.at = v.at \o q]
      BY <2>2, <2>3, QueueEffect
    <2> HIDE DEF u
    <2>5. /\ u.pending = reader.pending /\ u.pseudoInbox = reader.pseudoInbox
          /\ u.dispatched = reader.dispatched /\ u.out = reader.out
      BY <2>3, <2>4 DEF Readers
    <2>6. Clean(u)
      BY <1>0, <2>4, <2>5, CleanSame
    <2> QED
      BY <2>1, <2>6, CleanCheck
  <1>2. CASE ReadLine
    BY <1>2, CleanRead
  <1>3. CASE ModemExecutes \/ ModemAnswers \/ MessageArrives
    BY <1>0, <1>3 DEF ModemExecutes, ModemAnswers, MessageArrives
  <1> QED
    BY <1>1, <1>2, <1>3 DEF ReaderNext

LEMMA CleanServed ==
  ASSUME InboxInv, CleanInv, ServeRequest
  PROVE  Clean(reader')
  <1> DEFINE call == Head(requests)
  <1>1. requests \in Seq(Requests) /\ requests # <<>>
    BY ClientFields DEF InboxInv, ServeRequest
  <1>2. call \in Requests
    BY <1>1, TailSet
  <1>3. call.req = "delete" => <<call.id>> \in Seq(Ids)
    <2>1. call.req = "delete" => call.id \in Ids
      BY <1>2 DEF Requests
    <2> QED
      BY <2>1
  <1>4. \/ reader' = Check(reader, FALSE)
        \/ reader' = FirstMessage(reader)
        \/ reader' = NextMessage(reader)
        \/ call.req = "delete" /\ reader' = DeleteMessages(reader, <<call.id>>)
    BY <1>2 DEF Requests, ServeRequest
  <1> HIDE DEF call
  <1> QED
    BY <1>3, <1>4, CleanCheck, CleanFirst, CleanNext, CleanDelete DEF CleanInv

LEMMA CleanTaken ==
  ASSUME InboxInv, InboxInv', CleanInv, ReceiveSignal
  PROVE  CleanInv'
  <1> DEFINE signal == Head(reader.out)
             new == client.retrievedMessages
  <1>0. /\ Clean(reader) /\ reader \in Readers /\ reader.out \in Seq(Signals) /\ reader.out # <<>>
        /\ reader' \in Readers
        /\ client \in Clients /\ new \in Seq(Ids)
    BY ReaderFields, ClientFields DEF CleanInv, Clean, InboxInv, ReaderInv, ReaderType, ReceiveSignal
  <1>1. signal \in Signals /\ signal \in ToSet(reader.out) /\ ToSet(Tail(reader.out)) \subseteq ToSet(reader.out)
    BY <1>0, TailSet
  <1>2. Clean(reader')
    <2>1. /\ reader'.out = Tail(reader.out) /\ reader'.pending = reader.pending
          /\ reader'.pseudoInbox = reader.pseudoInbox /\ reader'.dispatched = reader.dispatched
      BY <1>0 DEF ReceiveSignal, Readers
    <2> QED
      BY <1>0, <1>1, <2>1, CleanSame
  <1>3. \A id \in HandedOver : MayHave(id)
    BY DEF CleanInv
  <1>4. ASSUME client'.retrievedMessages = new, client'.received = client.received
        PROVE  CleanInv'
    BY <1>2, <1>3, <1>4 DEF CleanInv, HandedOver, MayHave
  <1>5. CASE signal.sig = "ready"
    <2>1. SimReadyChanged
      BY <1>5 DEF ReceiveSignal
    <2> QED
      BY <1>0, <1>4, <2>1 DEF SimReadyChanged, Clients
  <1>6. CASE signal.sig = "count"
    <2>1. MessageCount(signal.n)
      BY <1>6 DEF ReceiveSignal
    <2> QED
      BY <1>0, <1>4, <2>1 DEF MessageCount, Clients
  <1>7. CASE signal.sig = "fetched"
    <2> DEFINE id == signal.id
               ids == Append(client.activeIds, id)
               known == RetrievedIds(client)
               c == [client EXCEPT !.activeIds = ids, !.retrievedIds = known]
               more == Append(new, id)
    <2>1. MayHave(id)
      BY <1>1, <1>2, <1>7 DEF Clean, CleanInv, Proper
    <2>2. client' = IF id \in c.retrievedIds THEN c
                    ELSE [c EXCEPT !.retrievedIds = @ \cup {id}, !.retrievedMessages = Append(@, id)]
      BY <1>7 DEF ReceiveSignal, Fetched
    <2> HIDE DEF ids, known
    <2>3. c.retrievedMessages = new /\ c.received = client.received
      BY <1>0 DEF Clients
    <2>4. /\ client'.retrievedMessages = new \/ client'.retrievedMessages = more
          /\ client'.received = client.received
      BY <1>0, <2>2 DEF Clients
    <2>5. ToSet(more) = ToSet(new) \cup {id}
      BY <1>0, AppendSet
    <2> HIDE DEF id, more
    <2>6. ASSUME client'.retrievedMessages = more PROVE CleanInv'
      <3>1. \A x \in client'.received \cup ToSet(client'.retrievedMessages) : MayHave(x)
        BY <1>3, <2>1, <2>4, <2>5, <2>6 DEF HandedOver
      <3> QED
        BY <1>2, <3>1 DEF CleanInv, HandedOver, MayHave
    <2> QED
      BY <1>4, <2>4, <2>6
  <1>8. CASE signal.sig = "end"
    <2>1. FetchedEnd
      BY <1>8 DEF ReceiveSignal
    <2>2. CASE client.sawNewMessage
      BY <1>0, <1>4, <2>1, <2>2 DEF FetchedEnd, Clients
    <2>3. CASE ~client.sawNewMessage
      <3> DEFINE ids == Freed(client.activeIds, ToBeDeleted).ids
      <3>1. client' = [client EXCEPT
                  !.smsFetching = FALSE,
                  !.mailbox = @ \cup ToSet(client.retrievedMessages),
                  !.received = @ \cup ToSet(client.retrievedMessages),
                  !.retrievedMessages = <<>>, !.retrievedIds = {},
                  !.activeIds = ids]
        BY <2>1, <2>3 DEF FetchedEnd
      <3> HIDE DEF ids
      <3>2. client'.received = HandedOver /\ client'.retrievedMessages = <<>>
        BY <1>0, <3>1 DEF Clients, HandedOver
      <3>3. ToSet(<<>>) = {}
        BY DEF ToSet
      <3> QED
        BY <1>2, <1>3, <3>2, <3>3 DEF CleanInv, HandedOver, MayHave
    <2> QED
      BY <2>2, <2>3
  <1>9. signal.sig \in {"ready", "count", "fetched", "end"}
    BY <1>1 DEF Signals
  <1> QED
    BY <1>5, <1>6, <1>7, <1>8, <1>9

LEMMA CleanStep ==
  ASSUME InboxInv, InboxInv', CleanInv, [Next]_vars
  PROVE  CleanInv'
  <1>0. client \in Clients
    BY ClientFields DEF InboxInv
  <1>1. ASSUME Clean(reader'), client'.retrievedMessages = client.retrievedMessages,
               client'.received = client.received
        PROVE  CleanInv'
    BY <1>1 DEF CleanInv, HandedOver, MayHave
  <1>2. CASE ReaderNext /\ UNCHANGED <<client, requests>>
    BY <1>1, <1>2, CleanReader
  <1>3. CASE ReceiveSignal
    BY <1>3, CleanTaken
  <1>4. CASE ServeRequest
    <2>1. UNCHANGED client
      BY <1>4 DEF ServeRequest
    <2> QED
      BY <1>1, <1>4, <2>1, CleanServed
  <1>5. CASE CheckForNewMessages
    <2>1. UNCHANGED reader /\ client'.retrievedMessages = client.retrievedMessages
          /\ client'.received = client.received
      BY <1>0, <1>5 DEF CheckForNewMessages, readerVars, Clients
    <2> QED
      BY <1>1, <2>1 DEF CleanInv
  <1>6. CASE DeleteImmediately
    <2>1. PICK id \in client.mailbox : client' = [Forget(client, id) EXCEPT !.mailbox = @ \ {id}]
      BY <1>6 DEF DeleteImmediately
    <2>2. client'.retrievedMessages = client.retrievedMessages /\ client'.received = client.received
      BY <1>0, <2>1 DEF Forget, Clients
    <2>3. UNCHANGED reader
      BY <1>6 DEF DeleteImmediately, readerVars
    <2> QED
      BY <1>1, <2>2, <2>3 DEF CleanInv
  <1>7. CASE UNCHANGED vars
    BY <1>1, <1>7 DEF vars, CleanInv
  <1> QED
    BY <1>2, <1>3, <1>4, <1>5, <1>6, <1>7 DEF Next

LEMMA CleanInits == Init => CleanInv
  <1> SUFFICES ASSUME Init PROVE CleanInv
    OBVIOUS
  <1>1. reader \in Readers
    BY InboxInits DEF InboxInv, ReaderInv, ReaderType
  <1>2. /\ reader.pending = <<>> /\ reader.pseudoInbox = <<>> /\ reader.out = <<>>
        /\ reader.dispatched = <<>>
    BY DEF Init, ReaderInit
  <1>3. client.received = {} /\ client.retrievedMessages = <<>>
    BY DEF Init
  <1>4. ToSet(<<>>) = {}
    BY DEF ToSet
  <1> QED
    BY <1>1, <1>2, <1>3, <1>4 DEF CleanInv, Clean, HandedOver

LEMMA CleanInvariant == Spec => [](InboxInv /\ CleanInv)
  BY InboxInits, InboxStep, CleanInits, CleanStep, PTL DEF Spec

-----------------------------------------------------------------------------
\* The theorems

LEMMA InvListOut ==
  ASSUME InboxInv
  PROVE  OneListOut
  <1>1. ListFlags(reader)
    BY DEF InboxInv, ReaderInv, Local
  <1>2. Queued("list") = Lists(reader.at)
    BY DEF Queued, Lists
  <1> QED
    BY <1>1, <1>2 DEF ListFlags, OneListOut

\* The SIM is listed once at a time, and whenever it is listed someone waits
\* for the list: fetching, pendingCheck, pendingFirstMessage and needRefetch
\* of QModemSMSReader agree with its AT queue.
THEOREM ListedOnce == Spec => []OneListOut
  BY InboxInvariant, InvListOut, PTL

LEMMA InvDelivered ==
  ASSUME InboxInv, CleanInv
  PROVE  DeliveredOnce
  <1>1. DispatchedOrRetrieved
    BY DEF CleanInv, Clean, MayHave, DispatchedOrRetrieved
  <1> QED
    BY <1>1 DEF InboxInv, ReaderInv, ClientInv, Retrieved, DeliveredOnce, TypeOK

\* joinMessages() dispatches a datagram once, fetched() takes no message
\* into the mailbox twice, and no message of the SIM is both dispatched and
\* taken by the client, however often the store is listed.
THEOREM HandledOnce == Spec => []DeliveredOnce
  BY CleanInvariant, InvDelivered, PTL

LEMMA InvCache ==
  ASSUME InboxInv
  PROVE  Announces => CacheComplete
  <1>0. SUFFICES ASSUME Announces PROVE CacheComplete
    OBVIOUS
  <1>1. CacheKept /\ ReaderType /\ Local(reader)
    BY <1>0 DEF InboxInv, ReaderInv
  <1>2. SUFFICES ASSUME Cached(reader), NoNews
                 PROVE  /\ \A p \in Occupied \ Deleting :
                             [place |-> p, msg |-> modem.sim[p]] \in ToSet(reader.pending)
                        /\ ToSet(reader.pseudoInbox) \subseteq ToSet(reader.pending)
    BY DEF CacheComplete, Cached, NoNews
  <1>3. Doomed(reader.at, Outstanding) \subseteq Deleting
    BY DEF Doomed, Deleting, Queued
  <1> QED
    BY <1>1, <1>2, <1>3 DEF CacheKept

\* If the modem announces every message, the cache of QModemSMSReader knows
\* each message that is on the SIM, unless it is about to be deleted or an
\* announcement that will drop the cache has not been read.
THEOREM CacheKnowsAll == Spec => [](Announces => CacheComplete)
  BY InboxInvariant, InvCache, PTL

-----------------------------------------------------------------------------
\* Lists in order

\* Nothing moves back when a list is cut.
LEMMA OnlyOrder ==
  ASSUME NEW seq \in Seq(Entries), NEW S \in SUBSET Entries
  PROVE  \A k \in DOMAIN Only[S][seq] : \E j \in DOMAIN seq : k <= j /\ seq[j] = Only[S][seq][k]
  <1>1. PICK kept : Only[S][seq] = kept[Len(seq)] /\ Keeps(kept, seq, S, Len(seq))
    BY OnlyKept
  <1> DEFINE P(n) == /\ kept[n] \in Seq(S) /\ Len(kept[n]) <= n
                     /\ \A k \in DOMAIN kept[n] : \E j \in 1..n : k <= j /\ seq[j] = kept[n][k]
             T == {n \in 0..Len(seq) : ~P(n)}
  <1>2. Len(seq) \in Nat /\ DOMAIN seq = 1..Len(seq)
    OBVIOUS
  <1>3. T = {}
    <2>1. SUFFICES ASSUME T # {} PROVE FALSE
      BY Zenon
    <2>2. PICK n \in T : \A y \in T : n <= y
      <3>1. T \in SUBSET Nat
        BY <1>2
      <3> QED
        BY <2>1, <3>1, Least
    <2>3. kept[0] = <<>>
      BY <1>1, <1>2 DEF Keeps
    <2>4. n # 0
      <3>1. DOMAIN kept[0] = {} /\ kept[0] \in Seq(S) /\ Len(kept[0]) = 0
        BY <2>3
      <3>2. P(0)
        BY <3>1
      <3> QED
        BY <2>2, <3>2
    <2>5. n - 1 \in 0..Len(seq) /\ P(n - 1)
      <3> HIDE DEF P
      <3>1. n - 1 \in 0..Len(seq) /\ ~(n <= n - 1)
        BY <2>2, <2>4, <1>2
      <3> QED
        BY <3>1, <2>2
    <2>6. kept[n] = IF seq[n] \in S THEN Append(kept[n - 1], seq[n]) ELSE kept[n - 1]
      BY <1>1, <1>2, <2>2, <2>4 DEF Keeps
    <2>10. n \in 1..Len(seq)
      <3> HIDE DEF P
      <3> QED
        BY <2>2, <2>4, <1>2
    <2> DEFINE s == kept[n - 1]
    <2>7. s \in Seq(S) /\ Len(s) \in Nat /\ Len(s) <= n - 1 /\ DOMAIN s = 1..Len(s)
      BY <2>5
    <2>8. \A k \in DOMAIN s : \E j \in 1..(n - 1) : k <= j /\ seq[j] = s[k]
      BY <2>5
    <2>9. n \in Nat /\ \A j \in 1..(n - 1) : j \in 1..n
      BY <2>10, <1>2
    <2>11. CASE seq[n] \notin S
      <3>1. kept[n] = s
        BY <2>6, <2>11
      <3>2. P(n)
        BY <3>1, <2>7, <2>8, <2>9
      <3> QED
        BY <3>2, <2>2
    <2>12. CASE seq[n] \in S
      <3>1. kept[n] = Append(s, seq[n])
        BY <2>6, <2>12
      <3> HIDE DEF s
      <3>2. /\ Append(s, seq[n]) \in Seq(S) /\ Len(Append(s, seq[n])) = Len(s) + 1
            /\ DOMAIN Append(s, seq[n]) = 1..(Len(s) + 1)
            /\ Append(s, seq[n])[Len(s) + 1] = seq[n]
            /\ \A i \in 1..Len(s) : Append(s, seq[n])[i] = s[i]
        BY <2>7, <2>12
      <3>3. ASSUME NEW k \in 1..(Len(s) + 1)
            PROVE  \E j \in 1..n : k <= j /\ seq[j] = Append(s, seq[n])[k]
        <4>1. CASE k = Len(s) + 1
          <5>1. k <= n /\ n \in 1..n
            BY <4>1, <2>7, <2>9, <2>10
          <5> QED
            BY <4>1, <5>1, <3>2
        <4>2. CASE k \in 1..Len(s)
          BY <4>2, <3>2, <2>7, <2>8, <2>9
        <4> QED
          BY <4>1, <4>2, <2>7
      <3>4. P(n)
        BY <3>1, <3>2, <3>3, <2>7, <2>9
      <3> QED
        BY <3>4, <2>2
    <2> QED
      BY <2>11, <2>12
  <1>4. P(Len(seq))
    BY <1>2, <1>3
  <1> QED
    BY <1>1, <1>2, <1>4

LEMMA WithoutOrder ==
  ASSUME NEW seq \in Seq(Ids), NEW S
  PROVE  \A k \in DOMAIN Without(seq, S) : \E j \in DOMAIN seq : k <= j /\ seq[j] = Without(seq, S)[k]
  <1>1. Ids \subseteq Entries
    BY MessagesAssumption DEF Ids, Entries, Msgs
  <1>2. seq \in Seq(Entries) /\ Entries \ S \in SUBSET Entries
    BY <1>1, SetOfSeq, SeqIn
  <1> QED
    BY <1>2, OnlyOrder, Zenon DEF Without

-----------------------------------------------------------------------------
\* What is deleted has been read

\* The message with this identifier is on the SIM and not about to be deleted.
Stays(id) == /\ modem.sim[id.place] = id.msg
             /\ id.msg \notin Datagrams
             /\ id.place \notin Doomed(reader.at, Outstanding)

\* Of the client's calls under way: the deletions on the SIM, and the call that
\* asks for the first or the next message of the list.
Wanted(q)    == {i \in DOMAIN q : q[i].req = "delete" /\ q[i].id.place # 0}
WantedIds(q) == {q[i].id : i \in Wanted(q)}
Turns(q)     == {i \in DOMAIN q : q[i].req \in {"first", "next"}}
Has(q, name) == \E i \in DOMAIN q : q[i].req = name

OneTurn(q)    == \A i, j \in Turns(q) : i = j
OneWanted(q)  == \A i, j \in Wanted(q) : q[i].id.place = q[j].id.place => i = j
FirstAfter(q) == \A i \in DOMAIN q : q[i].req = "first" => \A j \in Wanted(q) : j < i

\* Of the signals under way: the answers to such a call, and whether a message
\* count that is not 0 comes before or with the i-th.
Turning(out)    == {i \in DOMAIN out : out[i].sig \in {"fetched", "end"}}
FetchedIds(out) == {out[i].id : i \in {j \in DOMAIN out : out[j].sig = "fetched"}}
Told(out, i)    == \E j \in 1..i : out[j].sig = "count" /\ out[j].n # 0
OneAnswered(out) == \A i, j \in Turning(out) : i = j

-----------------------------------------------------------------------------
\* The calls under way

LEMMA CallsMore ==
  ASSUME NEW q \in Seq(Requests), NEW s \in Seq(Requests)
  PROVE  /\ WantedIds(q \o s) = WantedIds(q) \cup WantedIds(s)
         /\ \A name : Has(q \o s, name) <=> Has(q, name) \/ Has(s, name)
         /\ Turns(q \o s) = {} <=> Turns(q) = {} /\ Turns(s) = {}
         /\ OneTurn(q) /\ OneTurn(s) /\ (Turns(q) = {} \/ Turns(s) = {}) => OneTurn(q \o s)
         /\ /\ OneWanted(q) /\ OneWanted(s)
            /\ \A x \in WantedIds(q), y \in WantedIds(s) : x.place # y.place
            => OneWanted(q \o s)
         /\ /\ FirstAfter(q) /\ FirstAfter(s)
            /\ Wanted(s) = {} \/ ~Has(q, "first")
            => FirstAfter(q \o s)
  <1> DEFINE u == q \o s
             n == Len(q)
  <1>1. /\ n \in Nat /\ Len(s) \in Nat /\ DOMAIN q = 1..n /\ DOMAIN s = 1..Len(s)
        /\ DOMAIN u = 1..(n + Len(s))
        /\ \A i \in 1..n : u[i] = q[i]
        /\ \A i \in 1..Len(s) : u[n + i] = s[i]
    BY Concats
  <1> HIDE DEF u, n
  <1>2. \A i \in DOMAIN u : \/ i \in DOMAIN q /\ u[i] = q[i]
                            \/ i - n \in DOMAIN s /\ u[i] = s[i - n] /\ i \notin DOMAIN q
    <2> TAKE i \in DOMAIN u
    <2>1. CASE i \in 1..n
      BY <2>1, <1>1
    <2>2. CASE i \notin 1..n
      <3>1. i - n \in 1..Len(s) /\ n + (i - n) = i
        BY <1>1, <2>2
      <3>2. u[n + (i - n)] = s[i - n]
        BY <3>1, <1>1
      <3> QED
        BY <3>1, <3>2, <2>2, <1>1
    <2> QED
      BY <2>1, <2>2
  <1>3. /\ \A i \in DOMAIN q : i \in DOMAIN u /\ u[i] = q[i] /\ i \in Nat /\ i <= n
        /\ \A i \in DOMAIN s : n + i \in DOMAIN u /\ u[n + i] = s[i] /\ i \in Nat /\ ~(n + i <= n)
    BY <1>1
  <1>4. /\ \A i \in Wanted(u) : \/ i \in Wanted(q) /\ u[i] = q[i]
                                \/ i - n \in Wanted(s) /\ u[i] = s[i - n] /\ i \notin DOMAIN q
        /\ \A i \in Wanted(q) : i \in Wanted(u) /\ u[i] = q[i]
        /\ \A i \in Wanted(s) : n + i \in Wanted(u) /\ u[n + i] = s[i]
    BY <1>2, <1>3 DEF Wanted
  <1>5. /\ \A i \in Turns(u) : i \in Turns(q) \/ (i - n \in Turns(s) /\ i \notin DOMAIN q)
        /\ \A i \in Turns(q) : i \in Turns(u)
        /\ \A i \in Turns(s) : n + i \in Turns(u)
    BY <1>2, <1>3 DEF Turns
  <1>6. WantedIds(u) = WantedIds(q) \cup WantedIds(s)
    <2>1. ASSUME NEW x \in WantedIds(u) PROVE x \in WantedIds(q) \cup WantedIds(s)
      <3>1. PICK i \in Wanted(u) : x = u[i].id
        BY DEF WantedIds
      <3> QED
        BY <3>1, <1>4 DEF WantedIds
    <2>2. ASSUME NEW x \in WantedIds(q) PROVE x \in WantedIds(u)
      <3>1. PICK i \in Wanted(q) : x = q[i].id
        BY DEF WantedIds
      <3> QED
        BY <3>1, <1>4 DEF WantedIds
    <2>3. ASSUME NEW x \in WantedIds(s) PROVE x \in WantedIds(u)
      <3>1. PICK i \in Wanted(s) : x = s[i].id
        BY DEF WantedIds
      <3> QED
        BY <3>1, <1>4 DEF WantedIds
    <2> QED
      BY <2>1, <2>2, <2>3
  <1>7. ASSUME NEW name PROVE Has(u, name) <=> Has(q, name) \/ Has(s, name)
    <2>1. ASSUME Has(u, name) PROVE Has(q, name) \/ Has(s, name)
      BY <2>1, <1>2 DEF Has
    <2>2. ASSUME Has(q, name) PROVE Has(u, name)
      BY <2>2, <1>3 DEF Has
    <2>3. ASSUME Has(s, name) PROVE Has(u, name)
      BY <2>3, <1>3 DEF Has
    <2> QED
      BY <2>1, <2>2, <2>3
  <1>8. Turns(u) = {} <=> Turns(q) = {} /\ Turns(s) = {}
    BY <1>5
  <1>9. \A i \in DOMAIN u : i \in Int
    BY <1>1
  <1>10. \A i \in Turns(u) : i \in DOMAIN u
    BY DEF Turns
  <1>11. ASSUME OneTurn(q), OneTurn(s), Turns(q) = {} \/ Turns(s) = {} PROVE OneTurn(u)
    <2> SUFFICES ASSUME NEW i \in Turns(u), NEW j \in Turns(u) PROVE i = j
      BY DEF OneTurn
    <2>1. i \in Int /\ j \in Int /\ n \in Nat
      BY <1>1, <1>9, <1>10
    <2>2. CASE Turns(s) = {}
      BY <2>2, <1>5, <1>11 DEF OneTurn
    <2>3. CASE Turns(q) = {}
      <3>1. i - n \in Turns(s) /\ j - n \in Turns(s)
        BY <2>3, <1>5
      <3>2. i - n = j - n
        BY <3>1, <1>11 DEF OneTurn
      <3> QED
        BY <3>2, <2>1
    <2> QED
      BY <2>2, <2>3, <1>11
  <1>12. ASSUME OneWanted(q), OneWanted(s),
                \A x \in WantedIds(q), y \in WantedIds(s) : x.place # y.place
         PROVE  OneWanted(u)
    <2> SUFFICES ASSUME NEW i \in Wanted(u), NEW j \in Wanted(u), u[i].id.place = u[j].id.place
                 PROVE  i = j
      BY DEF OneWanted
    <2>1. i \in Int /\ j \in Int /\ n \in Nat
      BY <1>1, <1>9 DEF Wanted
    <2>2. /\ \A k \in Wanted(q) : q[k].id \in WantedIds(q)
          /\ \A k \in Wanted(s) : s[k].id \in WantedIds(s)
      BY DEF WantedIds
    <2>3. CASE i \in Wanted(q) /\ u[i] = q[i] /\ j \in Wanted(q) /\ u[j] = q[j]
      BY <2>3, <1>12 DEF OneWanted
    <2>4. CASE i - n \in Wanted(s) /\ u[i] = s[i - n] /\ j - n \in Wanted(s) /\ u[j] = s[j - n]
      <3>1. i - n = j - n
        BY <2>4, <1>12 DEF OneWanted
      <3> QED
        BY <3>1, <2>1
    <2>5. CASE i \in Wanted(q) /\ u[i] = q[i] /\ j - n \in Wanted(s) /\ u[j] = s[j - n]
      BY <2>5, <2>2, <1>12
    <2>6. CASE j \in Wanted(q) /\ u[j] = q[j] /\ i - n \in Wanted(s) /\ u[i] = s[i - n]
      BY <2>6, <2>2, <1>12
    <2> QED
      BY <2>3, <2>4, <2>5, <2>6, <1>4
  <1>13. ASSUME FirstAfter(q), FirstAfter(s), Wanted(s) = {} \/ ~Has(q, "first")
         PROVE  FirstAfter(u)
    <2> SUFFICES ASSUME NEW i \in DOMAIN u, u[i].req = "first", NEW j \in Wanted(u)
                 PROVE  j < i
      BY DEF FirstAfter
    <2>1. i \in Int /\ j \in Int /\ n \in Nat
      BY <1>1, <1>9 DEF Wanted
    <2>2. CASE i \in DOMAIN q /\ u[i] = q[i]
      <3>1. Has(q, "first")
        BY <2>2 DEF Has
      <3>2. j \in Wanted(q)
        BY <3>1, <1>4, <1>13
      <3> QED
        BY <3>2, <2>2, <1>13 DEF FirstAfter
    <2>3. CASE i - n \in DOMAIN s /\ u[i] = s[i - n] /\ i \notin DOMAIN q
      <3>1. CASE j \in Wanted(q)
        <4>1. j \in 1..n
          BY <3>1, <1>1 DEF Wanted
        <4> QED
          BY <4>1, <2>1, <2>3, <1>1
      <3>2. CASE j - n \in Wanted(s)
        <4>1. j - n < i - n
          BY <3>2, <2>3, <1>13 DEF FirstAfter
        <4> QED
          BY <4>1, <2>1
      <3> QED
        BY <3>1, <3>2, <1>4
    <2> QED
      BY <2>2, <2>3, <1>2
  <1>14. \A name : Has(u, name) <=> Has(q, name) \/ Has(s, name)
    BY <1>7
  <1> QED
    BY <1>6, <1>8, <1>11, <1>12, <1>13, <1>14 DEF u

LEMMA CallsTail ==
  ASSUME NEW q \in Seq(Requests), q # <<>>
  PROVE  LET t == Tail(q)
             c == Head(q) IN
         /\ WantedIds(t) \subseteq WantedIds(q)
         /\ c.req = "delete" /\ c.id.place # 0 => c.id \in WantedIds(q)
         /\ ~(c.req = "delete" /\ c.id.place # 0) => WantedIds(t) = WantedIds(q)
         /\ OneWanted(q) => OneWanted(t)
         /\ OneWanted(q) /\ c.req = "delete" /\ c.id.place # 0 =>
               \A x \in WantedIds(t) : x.place # c.id.place
         /\ \A name : Has(t, name) => Has(q, name)
         /\ \A name : c.req # name => (Has(t, name) <=> Has(q, name))
         /\ Has(q, c.req)
         /\ OneTurn(q) => OneTurn(t)
         /\ OneTurn(q) /\ c.req \in {"first", "next"} => Turns(t) = {}
         /\ c.req \in {"first", "next"} => Turns(q) # {}
         /\ c.req \notin {"first", "next"} => (Turns(t) = {} <=> Turns(q) = {})
         /\ FirstAfter(q) => FirstAfter(t)
         /\ FirstAfter(q) /\ c.req = "first" => Wanted(q) = {}
  <1> DEFINE t == Tail(q)
             c == Head(q)
  <1>1. /\ t \in Seq(Requests) /\ c \in Requests /\ c = q[1]
        /\ DOMAIN t = 1..(Len(q) - 1) /\ Len(q) \in Nat \ {0} /\ DOMAIN q = 1..Len(q)
        /\ \A i \in DOMAIN t : t[i] = q[i + 1]
    BY TailSet
  <1> HIDE DEF t, c
  <1>2. /\ \A i \in DOMAIN t : i + 1 \in DOMAIN q /\ t[i] = q[i + 1] /\ i \in Nat \ {0}
        /\ \A i \in DOMAIN q : i \in Nat \ {0} /\ (i = 1 \/ (i - 1 \in DOMAIN t /\ t[i - 1] = q[i]))
        /\ 1 \in DOMAIN q
    <2>1. ASSUME NEW i \in DOMAIN q, i # 1 PROVE i - 1 \in DOMAIN t /\ t[i - 1] = q[i]
      <3>1. i - 1 \in 1..(Len(q) - 1) /\ (i - 1) + 1 = i
        BY <1>1, <2>1
      <3> QED
        BY <3>1, <1>1
    <2> QED
      BY <2>1, <1>1
  <1>3. /\ \A i \in Wanted(t) : i + 1 \in Wanted(q) /\ t[i] = q[i + 1] /\ i \in Nat \ {0}
        /\ \A i \in Wanted(q) : i \in Nat /\ (i = 1 \/ (i - 1 \in Wanted(t) /\ t[i - 1] = q[i]))
    BY <1>2 DEF Wanted
  <1>4. /\ \A i \in Turns(t) : i + 1 \in Turns(q) /\ i \in Nat \ {0}
        /\ \A i \in Turns(q) : i \in Nat /\ (i = 1 \/ i - 1 \in Turns(t))
        /\ 1 \in Turns(q) <=> c.req \in {"first", "next"}
    BY <1>1, <1>2 DEF Turns
  <1>5. 1 \in Wanted(q) <=> c.req = "delete" /\ c.id.place # 0
    BY <1>1, <1>2 DEF Wanted
  <1>6. WantedIds(t) \subseteq WantedIds(q)
    <2> SUFFICES ASSUME NEW i \in Wanted(t) PROVE t[i].id \in WantedIds(q)
      BY DEF WantedIds
    <2> QED
      BY <1>3 DEF WantedIds
  <1>7. 1 \in Wanted(q) => c.id \in WantedIds(q)
    BY <1>1 DEF WantedIds
  <1>8. ASSUME 1 \notin Wanted(q) PROVE WantedIds(t) = WantedIds(q)
    <2>1. ASSUME NEW i \in Wanted(q) PROVE q[i].id \in WantedIds(t)
      <3>1. i - 1 \in Wanted(t) /\ t[i - 1] = q[i]
        BY <1>3, <1>8
      <3> QED
        BY <3>1 DEF WantedIds
    <2>2. WantedIds(q) \subseteq WantedIds(t)
      BY <2>1 DEF WantedIds
    <2> QED
      BY <2>2, <1>6
  <1>9. ASSUME OneWanted(q)
        PROVE  OneWanted(t) /\ (1 \in Wanted(q) => \A x \in WantedIds(t) : x.place # c.id.place)
    <2>1. ASSUME NEW i \in Wanted(t), NEW j \in Wanted(t), t[i].id.place = t[j].id.place
          PROVE  i = j
      <3>1. /\ i + 1 \in Wanted(q) /\ j + 1 \in Wanted(q)
            /\ q[i + 1].id.place = q[j + 1].id.place
        BY <2>1, <1>3
      <3>2. i + 1 = j + 1
        BY <3>1, <1>9 DEF OneWanted
      <3> QED
        BY <3>2, <1>3
    <2>2. ASSUME 1 \in Wanted(q), NEW i \in Wanted(t) PROVE t[i].id.place # c.id.place
      <3>1. i + 1 # 1
        BY <1>3
      <3> QED
        BY <3>1, <2>2, <1>1, <1>3, <1>9 DEF OneWanted
    <2> QED
      BY <2>1, <2>2 DEF OneWanted, WantedIds
  <1>10. \A name : Has(t, name) => Has(q, name)
    BY <1>2 DEF Has
  <1>11. ASSUME NEW name, c.req # name, Has(q, name) PROVE Has(t, name)
    <2>1. PICK i \in DOMAIN q : q[i].req = name
      BY <1>11 DEF Has
    <2>2. i - 1 \in DOMAIN t /\ t[i - 1] = q[i]
      BY <2>1, <1>1, <1>2, <1>11
    <2> QED
      BY <2>1, <2>2 DEF Has
  <1>12. Has(q, c.req)
    BY <1>1, <1>2 DEF Has
  <1>13. ASSUME OneTurn(q) PROVE OneTurn(t) /\ (1 \in Turns(q) => Turns(t) = {})
    <2>1. ASSUME NEW i \in Turns(t), NEW j \in Turns(t) PROVE i = j
      <3>1. i + 1 = j + 1
        BY <1>4, <1>13 DEF OneTurn
      <3> QED
        BY <3>1, <1>4
    <2>2. ASSUME 1 \in Turns(q), NEW i \in Turns(t) PROVE FALSE
      <3>1. i + 1 = 1
        BY <2>2, <1>4, <1>13 DEF OneTurn
      <3> QED
        BY <3>1, <1>4
    <2> QED
      BY <2>1, <2>2 DEF OneTurn
  <1>14. 1 \notin Turns(q) => (Turns(t) = {} <=> Turns(q) = {})
    BY <1>4
  <1>15. ASSUME FirstAfter(q) PROVE FirstAfter(t) /\ (c.req = "first" => Wanted(q) = {})
    <2>1. ASSUME NEW i \in DOMAIN t, t[i].req = "first", NEW j \in Wanted(t) PROVE j < i
      <3>1. j + 1 < i + 1
        BY <2>1, <1>2, <1>3, <1>15 DEF FirstAfter
      <3> QED
        BY <3>1, <1>2, <1>3
    <2>2. ASSUME c.req = "first", NEW j \in Wanted(q) PROVE FALSE
      <3>1. j < 1
        BY <2>2, <1>1, <1>2, <1>15 DEF FirstAfter
      <3> QED
        BY <3>1, <1>2 DEF Wanted
    <2> QED
      BY <2>1, <2>2 DEF FirstAfter
  <1>16. \A name : c.req # name => (Has(t, name) <=> Has(q, name))
    BY <1>10, <1>11
  <1>17. /\ WantedIds(t) \subseteq WantedIds(q)
         /\ c.req = "delete" /\ c.id.place # 0 => c.id \in WantedIds(q)
         /\ ~(c.req = "delete" /\ c.id.place # 0) => WantedIds(t) = WantedIds(q)
         /\ OneWanted(q) => OneWanted(t)
         /\ OneWanted(q) /\ c.req = "delete" /\ c.id.place # 0 =>
               \A x \in WantedIds(t) : x.place # c.id.place
    BY <1>5, <1>6, <1>7, <1>8, <1>9
  <1>18. /\ OneTurn(q) => OneTurn(t)
         /\ OneTurn(q) /\ c.req \in {"first", "next"} => Turns(t) = {}
         /\ c.req \in {"first", "next"} => Turns(q) # {}
         /\ c.req \notin {"first", "next"} => (Turns(t) = {} <=> Turns(q) = {})
    BY <1>4, <1>13, <1>14
  <1> QED
    BY <1>10, <1>12, <1>15, <1>16, <1>17, <1>18, Zenon DEF t, c

\* More calls that ask for nothing but a count
Checks(s) == \A i \in DOMAIN s : s[i].req = "check"

\* p has the same calls as q, but for such.
SameCalls(q, p) ==
  /\ WantedIds(p) = WantedIds(q)
  /\ Has(p, "first") <=> Has(q, "first")
  /\ Has(p, "next") <=> Has(q, "next")
  /\ Turns(p) = {} <=> Turns(q) = {}
  /\ OneTurn(q) => OneTurn(p)
  /\ OneWanted(q) => OneWanted(p)
  /\ FirstAfter(q) => FirstAfter(p)

LEMMA CallsSame ==
  ASSUME NEW q \in Seq(Requests)
  PROVE  /\ SameCalls(q, q)
         /\ \A s \in Seq(Requests) : Checks(s) => SameCalls(q, q \o s)
         /\ q # <<>> /\ Head(q).req = "check" => SameCalls(q, Tail(q))
  <1>1. SameCalls(q, q)
    BY DEF SameCalls
  <1>2. ASSUME NEW s \in Seq(Requests), Checks(s) PROVE SameCalls(q, q \o s)
    <2>1. Turns(s) = {} /\ Wanted(s) = {} /\ WantedIds(s) = {} /\ ~Has(s, "first") /\ ~Has(s, "next")
      BY <1>2 DEF Checks, Turns, Wanted, WantedIds, Has
    <2>2. OneTurn(s) /\ OneWanted(s) /\ FirstAfter(s)
      BY <2>1 DEF OneTurn, OneWanted, FirstAfter
    <2> DEFINE u == q \o s
    <2>3. /\ WantedIds(u) = WantedIds(q) \cup WantedIds(s)
          /\ \A name : Has(u, name) <=> Has(q, name) \/ Has(s, name)
          /\ Turns(u) = {} <=> Turns(q) = {} /\ Turns(s) = {}
          /\ OneTurn(q) /\ OneTurn(s) /\ (Turns(q) = {} \/ Turns(s) = {}) => OneTurn(u)
          /\ /\ OneWanted(q) /\ OneWanted(s)
             /\ \A x \in WantedIds(q), y \in WantedIds(s) : x.place # y.place
             => OneWanted(u)
          /\ /\ FirstAfter(q) /\ FirstAfter(s)
             /\ Wanted(s) = {} \/ ~Has(q, "first")
             => FirstAfter(u)
      BY CallsMore, Zenon
    <2> HIDE DEF u
    <2>4. SameCalls(q, u)
      BY <2>1, <2>2, <2>3 DEF SameCalls
    <2> QED
      BY <2>4 DEF u
  <1>3. ASSUME q # <<>>, Head(q).req = "check" PROVE SameCalls(q, Tail(q))
    BY <1>3, CallsTail DEF SameCalls
  <1> QED
    BY <1>1, <1>2, <1>3

-----------------------------------------------------------------------------
\* The signals under way

\* The client will have been told of new messages once it has received the
\* first i signals of out, or all of them.
Informed(saw, out, i) == saw \/ Told(out, i)
InformedAll(saw, out) == saw \/ Told(out, Len(out))

\* `new` has no other answers than `out`, and the client is told no less.
SameTurns(saw, out, more, new) ==
  /\ Turning(new) = {} <=> Turning(out) = {}
  /\ OneAnswered(out) => OneAnswered(new)
  /\ \A i \in Turning(new) : \E j \in Turning(out) :
        new[i] = out[j] /\ (Informed(saw, out, j) => Informed(more, new, i))
  /\ InformedAll(saw, out) => InformedAll(more, new)

Quiet(signal) == signal.sig \in {"count", "ready"}
Turn(signal)  == signal.sig \in {"fetched", "end"}

LEMMA OutMore ==
  ASSUME NEW out \in Seq(Signals), NEW x \in Signals
  PROVE  /\ Append(out, x) \in Seq(Signals) /\ Len(out) \in Nat
         /\ DOMAIN out = 1..Len(out) /\ DOMAIN Append(out, x) = 1..(Len(out) + 1)
         /\ Len(Append(out, x)) = Len(out) + 1
         /\ Append(out, x)[Len(out) + 1] = x
         /\ \A i \in 1..Len(out) : Append(out, x)[i] = out[i]
         /\ \A i \in 1..Len(out) : Told(out, i) => Told(Append(out, x), i)
         /\ Told(out, Len(out)) => Told(Append(out, x), Len(out) + 1)
         /\ x.sig = "count" /\ x.n # 0 => Told(Append(out, x), Len(out) + 1)
  <1> DEFINE u == Append(out, x)
             n == Len(out)
  <1>1. /\ u \in Seq(Signals) /\ n \in Nat
        /\ DOMAIN out = 1..n /\ DOMAIN u = 1..(n + 1) /\ Len(u) = n + 1
        /\ u[n + 1] = x
        /\ \A i \in 1..n : u[i] = out[i]
    OBVIOUS
  <1> HIDE DEF u, n
  <1>2. ASSUME NEW i \in 0..n, NEW k \in i..(n + 1), Told(out, i) PROVE Told(u, k)
    <2>1. PICK j \in 1..i : out[j].sig = "count" /\ out[j].n # 0
      BY <1>2 DEF Told
    <2>2. j \in 1..k /\ u[j] = out[j]
      BY <2>1, <1>1, <1>2
    <2> QED
      BY <2>1, <2>2 DEF Told
  <1>3. x.sig = "count" /\ x.n # 0 => Told(u, n + 1)
    <2>1. n + 1 \in 1..(n + 1)
      BY <1>1
    <2> QED
      BY <2>1, <1>1 DEF Told
  <1>4. \A i \in 1..n : Told(out, i) => Told(u, i)
    <2>1. \A i \in 1..n : i \in 0..n /\ i \in i..(n + 1)
      BY <1>1
    <2> QED
      BY <2>1, <1>2
  <1>5. Told(out, n) => Told(u, n + 1)
    <2>1. n \in 0..n /\ n + 1 \in n..(n + 1)
      BY <1>1
    <2> QED
      BY <2>1, <1>2
  <1> QED
    BY <1>1, <1>3, <1>4, <1>5 DEF u, n

LEMMA TurnsKept ==
  ASSUME NEW saw, NEW out \in Seq(Signals)
  PROVE  SameTurns(saw, out, saw, out)
  BY DEF SameTurns

LEMMA TurnsAgain ==
  ASSUME NEW saw, NEW a, NEW b, NEW c, SameTurns(saw, a, saw, b), SameTurns(saw, b, saw, c)
  PROVE  SameTurns(saw, a, saw, c)
  <1>1. ASSUME NEW i \in Turning(c)
        PROVE  \E j \in Turning(a) : c[i] = a[j] /\ (Informed(saw, a, j) => Informed(saw, c, i))
    <2>1. PICK k \in Turning(b) : c[i] = b[k] /\ (Informed(saw, b, k) => Informed(saw, c, i))
      BY DEF SameTurns
    <2>2. PICK j \in Turning(a) : b[k] = a[j] /\ (Informed(saw, a, j) => Informed(saw, b, k))
      BY DEF SameTurns
    <2> QED
      BY <2>1, <2>2
  <1> QED
    BY <1>1 DEF SameTurns

LEMMA TurnsQuiet ==
  ASSUME NEW saw, NEW out \in Seq(Signals), NEW x \in Signals, Quiet(x)
  PROVE  SameTurns(saw, out, saw, Append(out, x))
  <1> DEFINE u == Append(out, x)
             n == Len(out)
  <1>1. /\ n \in Nat /\ DOMAIN out = 1..n /\ DOMAIN u = 1..(n + 1) /\ Len(u) = n + 1
        /\ u[n + 1] = x
        /\ \A i \in 1..n : u[i] = out[i]
        /\ \A i \in 1..n : Told(out, i) => Told(u, i)
        /\ Told(out, n) => Told(u, n + 1)
    BY OutMore
  <1> HIDE DEF u, n
  <1>2. Turning(u) = Turning(out)
    <2>1. ~(x.sig \in {"fetched", "end"})
      BY DEF Quiet
    <2>2. \A i \in DOMAIN u : u[i].sig \in {"fetched", "end"} => i \in DOMAIN out /\ u[i] = out[i]
      BY <2>1, <1>1
    <2>3. \A i \in DOMAIN out : i \in DOMAIN u /\ u[i] = out[i]
      BY <1>1
    <2> QED
      BY <2>2, <2>3 DEF Turning
  <1>3. \A i \in Turning(u) : u[i] = out[i] /\ (Informed(saw, out, i) => Informed(saw, u, i))
    <2>1. \A i \in Turning(u) : i \in 1..n
      BY <1>1, <1>2 DEF Turning
    <2> QED
      BY <2>1, <1>1 DEF Informed
  <1>4. SameTurns(saw, out, saw, u)
    BY <1>1, <1>2, <1>3 DEF SameTurns, OneAnswered, InformedAll, n
  <1> QED
    BY <1>4 DEF u

\* An answer is added.
LEMMA TurnAdded ==
  ASSUME NEW out \in Seq(Signals), NEW x \in Signals, Turn(x), Turning(out) = {}
  PROVE  LET u == Append(out, x) IN
         /\ Turning(u) = {Len(u)} /\ OneAnswered(u)
         /\ FetchedIds(u) = IF x.sig = "fetched" THEN {x.id} ELSE {}
         /\ u[Len(u)] = x
         /\ Told(out, Len(out)) => Told(u, Len(u))
  <1> DEFINE u == Append(out, x)
             n == Len(out)
  <1>1. /\ n \in Nat /\ DOMAIN out = 1..n /\ DOMAIN u = 1..(n + 1) /\ Len(u) = n + 1
        /\ u[n + 1] = x
        /\ \A i \in 1..n : u[i] = out[i]
        /\ Told(out, n) => Told(u, n + 1)
    BY OutMore
  <1> HIDE DEF u, n
  <1>2. \A i \in DOMAIN u : i = n + 1 \/ (i \in DOMAIN out /\ u[i] = out[i])
    BY <1>1
  <1>3. \A i \in DOMAIN out : out[i].sig \notin {"fetched", "end"}
    BY DEF Turning
  <1>4. n + 1 \in DOMAIN u
    BY <1>1
  <1>5. Turning(u) = {n + 1}
    BY <1>1, <1>2, <1>3, <1>4 DEF Turning, Turn
  <1>6. {j \in DOMAIN u : u[j].sig = "fetched"} = IF x.sig = "fetched" THEN {n + 1} ELSE {}
    BY <1>1, <1>2, <1>3, <1>4
  <1>7. FetchedIds(u) = IF x.sig = "fetched" THEN {x.id} ELSE {}
    <2>1. CASE x.sig = "fetched"
      <3>1. FetchedIds(u) = {u[i].id : i \in {n + 1}}
        BY <2>1, <1>6 DEF FetchedIds
      <3> QED
        BY <3>1, <2>1, <1>1
    <2>2. CASE x.sig # "fetched"
      <3>1. FetchedIds(u) = {u[i].id : i \in {}}
        BY <2>2, <1>6 DEF FetchedIds
      <3> QED
        BY <3>1, <2>2
    <2> QED
      BY <2>1, <2>2
  <1>8. OneAnswered(u)
    BY <1>5 DEF OneAnswered
  <1> QED
    BY <1>1, <1>5, <1>7, <1>8 DEF u, n

\* The client receives a signal: once it is told it has been told.
LEMMA OutTail ==
  ASSUME NEW out \in Seq(Signals), out # <<>>, NEW saw, NEW more, saw => more,
         Head(out).sig = "count" /\ Head(out).n # 0 => more
  PROVE  LET t == Tail(out) IN
         /\ Quiet(Head(out)) => SameTurns(saw, out, more, t)
         /\ OneAnswered(out) /\ Turn(Head(out)) => Turning(t) = {} /\ Turning(out) = {1} /\ ~Told(out, 1)
         /\ InformedAll(saw, out) => InformedAll(more, t)
         /\ Head(out) = out[1] /\ 1 \in DOMAIN out
  <1> DEFINE t == Tail(out)
             c == Head(out)
  <1>1. /\ t \in Seq(Signals) /\ c \in Signals /\ c = out[1]
        /\ DOMAIN t = 1..(Len(out) - 1) /\ Len(out) \in Nat \ {0} /\ DOMAIN out = 1..Len(out)
        /\ \A i \in DOMAIN t : t[i] = out[i + 1]
    BY TailSet
  <1>2. Len(t) = Len(out) - 1
    BY <1>1
  <1> HIDE DEF t, c
  <1>3. /\ \A i \in DOMAIN t : i + 1 \in DOMAIN out /\ t[i] = out[i + 1] /\ i \in Nat \ {0}
        /\ \A i \in DOMAIN out : i \in Nat \ {0} /\ (i = 1 \/ (i - 1 \in DOMAIN t /\ t[i - 1] = out[i]))
        /\ 1 \in DOMAIN out
    <2>1. ASSUME NEW i \in DOMAIN out, i # 1 PROVE i - 1 \in DOMAIN t /\ t[i - 1] = out[i]
      <3>1. i - 1 \in 1..(Len(out) - 1) /\ (i - 1) + 1 = i
        BY <1>1, <2>1
      <3> QED
        BY <3>1, <1>1
    <2> QED
      BY <2>1, <1>1
  <1>4. ASSUME NEW i \in 0..(Len(out) - 1), Told(out, i + 1)
        PROVE  more \/ Told(t, i)
    <2>1. PICK j \in 1..(i + 1) : out[j].sig = "count" /\ out[j].n # 0
      BY <1>4 DEF Told
    <2>2. CASE j = 1
      BY <2>1, <2>2, <1>1 DEF c
    <2>3. CASE j # 1
      <3>1. j \in DOMAIN out /\ j - 1 \in 1..i
        BY <2>1, <2>3, <1>1, <1>4
      <3>2. t[j - 1] = out[j]
        BY <3>1, <2>3, <1>3
      <3> QED
        BY <3>1, <3>2, <2>1 DEF Told
    <2> QED
      BY <2>2, <2>3
  <1>5. InformedAll(saw, out) => InformedAll(more, t)
    <2>1. Len(out) - 1 \in 0..(Len(out) - 1) /\ (Len(out) - 1) + 1 = Len(out)
      BY <1>1
    <2>2. Told(out, Len(out)) => more \/ Told(t, Len(out) - 1)
      BY <2>1, <1>4
    <2> QED
      BY <2>2, <1>2 DEF InformedAll
  <1>6. /\ \A i \in Turning(t) : i + 1 \in Turning(out) /\ t[i] = out[i + 1] /\ i \in DOMAIN t
        /\ \A i \in Turning(out) : i \in Nat /\ (i = 1 \/ i - 1 \in Turning(t))
        /\ 1 \in Turning(out) <=> Turn(c)
    BY <1>1, <1>3 DEF Turning, Turn
  <1>7. ASSUME Quiet(c) PROVE SameTurns(saw, out, more, t)
    <2>1. 1 \notin Turning(out)
      BY <1>6, <1>7 DEF Quiet, Turn
    <2>2. Turning(t) = {} <=> Turning(out) = {}
      BY <2>1, <1>6
    <2>3. ASSUME OneAnswered(out), NEW i \in Turning(t), NEW j \in Turning(t) PROVE i = j
      <3>1. i + 1 \in Turning(out) /\ j + 1 \in Turning(out) /\ i \in Nat /\ j \in Nat
        BY <1>3, <1>6
      <3>2. i + 1 = j + 1
        BY <3>1, <2>3 DEF OneAnswered
      <3> QED
        BY <3>1, <3>2
    <2>4. ASSUME NEW i \in Turning(t)
          PROVE  \E j \in Turning(out) : t[i] = out[j] /\ (Informed(saw, out, j) => Informed(more, t, i))
      <3>1. i + 1 \in Turning(out) /\ t[i] = out[i + 1] /\ i \in 0..(Len(out) - 1)
        BY <1>1, <1>6
      <3>2. Informed(saw, out, i + 1) => Informed(more, t, i)
        BY <3>1, <1>4 DEF Informed
      <3> QED
        BY <3>1, <3>2
    <2> QED
      BY <2>2, <2>3, <2>4, <1>5 DEF SameTurns, OneAnswered
  <1>8. ASSUME OneAnswered(out), Turn(c) PROVE Turning(t) = {} /\ Turning(out) = {1} /\ ~Told(out, 1)
    <2>1. Turning(out) = {1}
      BY <1>6, <1>8 DEF OneAnswered
    <2>2. ASSUME NEW i \in Turning(t) PROVE FALSE
      <3>1. i + 1 = 1 /\ i \in Nat \ {0}
        BY <2>1, <1>3, <1>6
      <3> QED
        BY <3>1
    <2>3. ~Told(out, 1)
      <3>1. \A j \in 1..1 : j = 1
        OBVIOUS
      <3>2. out[1].sig # "count"
        BY <1>1, <1>8 DEF Turn
      <3> QED
        BY <3>1, <3>2 DEF Told
    <2> QED
      BY <2>1, <2>2, <2>3
  <1> QED
    BY <1>1, <1>3, <1>5, <1>7, <1>8 DEF t, c

\* Every fetched() under way is one of the answers.
LEMMA FetchedTurning ==
  ASSUME NEW out
  PROVE  /\ \A id \in FetchedIds(out) : \E i \in Turning(out) : out[i].sig = "fetched" /\ out[i].id = id
         /\ \A i \in Turning(out) : out[i].sig = "fetched" => out[i].id \in FetchedIds(out)
         /\ Turning(out) = {} => FetchedIds(out) = {}
  BY DEF FetchedIds, Turning

LEMMA FetchedSame ==
  ASSUME NEW saw, NEW out, NEW more, NEW new, SameTurns(saw, out, more, new)
  PROVE  FetchedIds(new) \subseteq FetchedIds(out)
  <1> SUFFICES ASSUME NEW id \in FetchedIds(new) PROVE id \in FetchedIds(out)
    OBVIOUS
  <1>1. PICK i \in Turning(new) : new[i].sig = "fetched" /\ new[i].id = id
    BY FetchedTurning
  <1>2. PICK j \in Turning(out) : new[i] = out[j]
    BY DEF SameTurns
  <1> QED
    BY <1>1, <1>2, FetchedTurning

-----------------------------------------------------------------------------
\* The deletions in the queue of the modem

\* The deletions that the modem has still to execute; Doomed are their places.
Deletes(at, busy) == {j \in DOMAIN at : at[j].cmd = "delete" /\ (busy => j # 1)}

OneEach(at, busy) == \A k, l \in Deletes(at, busy) : at[k].place = at[l].place => k = l
BeforeLists(at) ==
  \A l, k \in DOMAIN at : l < k /\ at[l].cmd = "list" => at[k].cmd # "delete"

NoDeletes(q) == \A i \in DOMAIN q : q[i].cmd # "delete"

LEMMA DoomedPlaces ==
  \A at, busy : Doomed(at, busy) = {at[i].place : i \in Deletes(at, busy)}
  BY DEF Doomed, Deletes

LEMMA QueueMore ==
  ASSUME NEW at \in Seq(Commands), NEW q \in Seq(Commands), NEW busy \in BOOLEAN, busy => at # <<>>
  PROVE  LET u == at \o q IN
         /\ u \in Seq(Commands)
         /\ Doomed(u, busy) = Doomed(at, busy) \cup Doomed(q, FALSE)
         /\ /\ OneEach(at, busy) /\ OneEach(q, FALSE)
            /\ Doomed(at, busy) \cap Doomed(q, FALSE) = {}
            => OneEach(u, busy)
         /\ NoDeletes(q) /\ OneEach(at, busy) => OneEach(u, busy)
         /\ BeforeLists(at) /\ NoDeletes(q) => BeforeLists(u)
         /\ Lists(at) = {} /\ Lists(q) = {} => BeforeLists(u)
         /\ BeforeLists(at) /\ BeforeLists(q) /\ Lists(at) = {} => BeforeLists(u)
         /\ NoDeletes(q) => Doomed(u, busy) = Doomed(at, busy)
  <1> DEFINE u == at \o q
             n == Len(at)
  <1>1. /\ u \in Seq(Commands) /\ n \in Nat /\ Len(q) \in Nat /\ DOMAIN at = 1..n /\ DOMAIN q = 1..Len(q)
        /\ DOMAIN u = 1..(n + Len(q))
        /\ \A i \in 1..n : u[i] = at[i]
        /\ \A i \in 1..Len(q) : u[n + i] = q[i]
    BY Concats
  <1>0. busy => n # 0
    OBVIOUS
  <1> HIDE DEF u, n
  <1>2. \A i \in DOMAIN u : \/ i \in DOMAIN at /\ u[i] = at[i]
                            \/ i - n \in DOMAIN q /\ u[i] = q[i - n] /\ i \notin DOMAIN at
    <2> TAKE i \in DOMAIN u
    <2>1. CASE i \in 1..n
      BY <2>1, <1>1
    <2>2. CASE i \notin 1..n
      <3>1. i - n \in 1..Len(q) /\ n + (i - n) = i
        BY <1>1, <2>2
      <3>2. u[n + (i - n)] = q[i - n]
        BY <3>1, <1>1
      <3> QED
        BY <3>1, <3>2, <2>2, <1>1
    <2> QED
      BY <2>1, <2>2
  <1>3. /\ \A i \in DOMAIN at : i \in DOMAIN u /\ u[i] = at[i] /\ i \in Nat /\ i <= n
        /\ \A i \in DOMAIN q : n + i \in DOMAIN u /\ u[n + i] = q[i] /\ i \in Nat /\ ~(n + i <= n)
        /\ \A i \in DOMAIN u : i \in Int
    BY <1>1
  <1>4. /\ \A i \in Deletes(u, busy) : \/ i \in Deletes(at, busy) /\ u[i] = at[i]
                                       \/ i - n \in Deletes(q, FALSE) /\ u[i] = q[i - n]
        /\ \A i \in Deletes(at, busy) : i \in Deletes(u, busy) /\ u[i] = at[i]
        /\ \A i \in Deletes(q, FALSE) : n + i \in Deletes(u, busy) /\ u[n + i] = q[i]
    <2>1. ASSUME NEW i \in Deletes(q, FALSE) PROVE busy => n + i # 1
      <3>1. i \in 1..Len(q)
        BY <1>1 DEF Deletes
      <3> QED
        BY <3>1, <1>0, <1>1
    <2> QED
      BY <2>1, <1>2, <1>3 DEF Deletes
  <1>5. Doomed(u, busy) = Doomed(at, busy) \cup Doomed(q, FALSE)
    <2>1. ASSUME NEW i \in Deletes(u, busy) PROVE u[i].place \in Doomed(at, busy) \cup Doomed(q, FALSE)
      BY <1>4, DoomedPlaces
    <2>2. ASSUME NEW i \in Deletes(at, busy) PROVE at[i].place \in Doomed(u, busy)
      <3>1. i \in Deletes(u, busy) /\ u[i] = at[i]
        BY <1>4
      <3> QED
        BY <3>1, DoomedPlaces
    <2>3. ASSUME NEW i \in Deletes(q, FALSE) PROVE q[i].place \in Doomed(u, busy)
      <3>1. n + i \in Deletes(u, busy) /\ u[n + i] = q[i]
        BY <1>4
      <3> QED
        BY <3>1, DoomedPlaces
    <2>4. Doomed(u, busy) \subseteq Doomed(at, busy) \cup Doomed(q, FALSE)
      BY <2>1, DoomedPlaces
    <2>5. Doomed(at, busy) \subseteq Doomed(u, busy)
      BY <2>2, DoomedPlaces
    <2>6. Doomed(q, FALSE) \subseteq Doomed(u, busy)
      BY <2>3, DoomedPlaces
    <2> QED
      BY <2>4, <2>5, <2>6
  <1>6. ASSUME OneEach(at, busy), OneEach(q, FALSE), Doomed(at, busy) \cap Doomed(q, FALSE) = {}
        PROVE  OneEach(u, busy)
    <2> SUFFICES ASSUME NEW i \in Deletes(u, busy), NEW j \in Deletes(u, busy), u[i].place = u[j].place
                 PROVE  i = j
      BY DEF OneEach
    <2>1. i \in Int /\ j \in Int /\ n \in Nat
      BY <1>1, <1>3 DEF Deletes
    <2>2. /\ \A k \in Deletes(at, busy) : at[k].place \in Doomed(at, busy)
          /\ \A k \in Deletes(q, FALSE) : q[k].place \in Doomed(q, FALSE)
      BY DoomedPlaces
    <2>3. CASE i \in Deletes(at, busy) /\ u[i] = at[i] /\ j \in Deletes(at, busy) /\ u[j] = at[j]
      BY <2>3, <1>6 DEF OneEach
    <2>4. CASE i - n \in Deletes(q, FALSE) /\ u[i] = q[i - n] /\ j - n \in Deletes(q, FALSE) /\ u[j] = q[j - n]
      <3>1. i - n = j - n
        BY <2>4, <1>6 DEF OneEach
      <3> QED
        BY <3>1, <2>1
    <2>5. CASE i \in Deletes(at, busy) /\ u[i] = at[i] /\ j - n \in Deletes(q, FALSE) /\ u[j] = q[j - n]
      BY <2>5, <2>2, <1>6
    <2>6. CASE j \in Deletes(at, busy) /\ u[j] = at[j] /\ i - n \in Deletes(q, FALSE) /\ u[i] = q[i - n]
      BY <2>6, <2>2, <1>6
    <2> QED
      BY <2>3, <2>4, <2>5, <2>6, <1>4
  <1>7. ASSUME NoDeletes(q) PROVE Deletes(q, FALSE) = {} /\ Doomed(q, FALSE) = {}
    <2>1. Deletes(q, FALSE) = {}
      BY <1>7 DEF NoDeletes, Deletes
    <2> QED
      BY <2>1, DoomedPlaces
  <1>8. ASSUME NoDeletes(q), OneEach(at, busy) PROVE OneEach(u, busy)
    <2>1. OneEach(q, FALSE)
      BY <1>7, <1>8 DEF OneEach
    <2> QED
      BY <2>1, <1>6, <1>7, <1>8
  <1>9. ASSUME NEW l \in DOMAIN u, NEW k \in DOMAIN u, l < k, u[l].cmd = "list", u[k].cmd = "delete"
        PROVE  /\ \/ l \in DOMAIN at /\ at[l].cmd = "list" /\ k \in DOMAIN at /\ at[k].cmd = "delete"
                  \/ l \in DOMAIN at /\ at[l].cmd = "list" /\ k - n \in DOMAIN q /\ q[k - n].cmd = "delete"
                  \/ /\ l - n \in DOMAIN q /\ q[l - n].cmd = "list"
                     /\ k - n \in DOMAIN q /\ q[k - n].cmd = "delete"
               /\ l - n < k - n
    <2>1. l \in Int /\ k \in Int /\ n \in Nat
      BY <1>1, <1>3
    <2>2. CASE l \in DOMAIN at
      BY <2>1, <2>2, <1>2, <1>9
    <2>3. CASE l \notin DOMAIN at
      <3>1. k \notin DOMAIN at
        <4>1. l \in 1..(n + Len(q)) /\ ~(l \in 1..n)
          BY <2>3, <1>1
        <4>2. ~(k \in 1..n)
          BY <4>1, <2>1, <1>1, <1>9
        <4> QED
          BY <4>2, <1>1
      <3> QED
        BY <2>1, <2>3, <3>1, <1>2, <1>9
    <2> QED
      BY <2>2, <2>3
  <1>10. ASSUME BeforeLists(at), NoDeletes(q) PROVE BeforeLists(u)
    <2> SUFFICES ASSUME NEW l \in DOMAIN u, NEW k \in DOMAIN u, l < k, u[l].cmd = "list", u[k].cmd = "delete"
                 PROVE  FALSE
      BY DEF BeforeLists
    <2> QED
      BY <1>9, <1>10 DEF BeforeLists, NoDeletes
  <1>11. ASSUME BeforeLists(q), Lists(at) = {} PROVE BeforeLists(u)
    <2> SUFFICES ASSUME NEW l \in DOMAIN u, NEW k \in DOMAIN u, l < k, u[l].cmd = "list", u[k].cmd = "delete"
                 PROVE  FALSE
      BY DEF BeforeLists
    <2>1. ~(l \in DOMAIN at /\ at[l].cmd = "list")
      BY <1>11 DEF Lists
    <2> QED
      BY <2>1, <1>9, <1>11 DEF BeforeLists
  <1>12. Lists(q) = {} => BeforeLists(q)
    BY DEF Lists, BeforeLists
  <1>13. NoDeletes(q) => Doomed(u, busy) = Doomed(at, busy)
    BY <1>5, <1>7
  <1> QED
    BY <1>1, <1>5, <1>6, <1>8, <1>10, <1>11, <1>12, <1>13 DEF u

LEMMA QueueDone ==
  ASSUME NEW at \in Seq(Commands), at # <<>>
  PROVE  LET t == Tail(at) IN
         /\ t \in Seq(Commands)
         /\ OneEach(at, TRUE) => OneEach(t, FALSE)
         /\ BeforeLists(at) => BeforeLists(t)
         /\ BeforeLists(at) /\ Head(at).cmd = "list" => NoDeletes(t) /\ Doomed(at, TRUE) = {}
  <1> DEFINE t == Tail(at)
  <1>1. /\ t \in Seq(Commands) /\ Head(at) = at[1]
        /\ DOMAIN t = 1..(Len(at) - 1) /\ Len(at) \in Nat \ {0} /\ DOMAIN at = 1..Len(at)
        /\ \A i \in DOMAIN t : t[i] = at[i + 1]
    BY TailSet
  <1> HIDE DEF t
  <1>2. /\ \A i \in DOMAIN t : i + 1 \in DOMAIN at /\ t[i] = at[i + 1] /\ i \in Nat \ {0}
        /\ 1 \in DOMAIN at
    BY <1>1
  <1>3. \A i \in Deletes(t, FALSE) : i + 1 \in Deletes(at, TRUE) /\ t[i] = at[i + 1] /\ i \in Nat
    BY <1>2 DEF Deletes
  <1>4. ASSUME OneEach(at, TRUE) PROVE OneEach(t, FALSE)
    <2> SUFFICES ASSUME NEW i \in Deletes(t, FALSE), NEW j \in Deletes(t, FALSE), t[i].place = t[j].place
                 PROVE  i = j
      BY DEF OneEach
    <2>1. /\ i + 1 \in Deletes(at, TRUE) /\ j + 1 \in Deletes(at, TRUE)
          /\ at[i + 1].place = at[j + 1].place /\ i \in Nat /\ j \in Nat
      BY <1>3
    <2>2. i + 1 = j + 1
      BY <2>1, <1>4 DEF OneEach
    <2> QED
      BY <2>1, <2>2
  <1>5. ASSUME BeforeLists(at) PROVE BeforeLists(t)
    <2> SUFFICES ASSUME NEW l \in DOMAIN t, NEW k \in DOMAIN t, l < k, t[l].cmd = "list"
                 PROVE  t[k].cmd # "delete"
      BY DEF BeforeLists
    <2>1. l + 1 \in DOMAIN at /\ k + 1 \in DOMAIN at /\ l + 1 < k + 1 /\ at[l + 1].cmd = "list" /\ t[k] = at[k + 1]
      BY <1>2
    <2> QED
      BY <2>1, <1>5 DEF BeforeLists
  <1>6. ASSUME BeforeLists(at), at[1].cmd = "list" PROVE NoDeletes(t) /\ Doomed(at, TRUE) = {}
    <2>1. ASSUME NEW k \in DOMAIN at, k # 1 PROVE at[k].cmd # "delete"
      <3>1. 1 < k /\ 1 \in DOMAIN at
        BY <2>1, <1>1
      <3> QED
        BY <3>1, <1>6 DEF BeforeLists
    <2>2. NoDeletes(t)
      <3> SUFFICES ASSUME NEW i \in DOMAIN t PROVE t[i].cmd # "delete"
        BY DEF NoDeletes
      <3>1. i + 1 \in DOMAIN at /\ t[i] = at[i + 1] /\ i + 1 # 1
        BY <1>2
      <3> QED
        BY <3>1, <2>1
    <2>3. Deletes(at, TRUE) = {}
      BY <2>1 DEF Deletes
    <2> QED
      BY <2>2, <2>3, DoomedPlaces
  <1> QED
    BY <1>1, <1>4, <1>5, <1>6 DEF t

\* The modem begins to execute the command at the head.
LEMMA QueueBusy ==
  ASSUME NEW at \in Seq(Commands), at # <<>>
  PROVE  /\ Doomed(at, TRUE) \subseteq Doomed(at, FALSE)
         /\ OneEach(at, FALSE) => OneEach(at, TRUE)
         /\ Head(at).cmd = "delete" => Head(at).place \in Doomed(at, FALSE)
         /\ Head(at).cmd = "delete" /\ OneEach(at, FALSE) => Head(at).place \notin Doomed(at, TRUE)
  <1>1. 1 \in DOMAIN at /\ Head(at) = at[1]
    BY QueueTail
  <1>2. Deletes(at, TRUE) \subseteq Deletes(at, FALSE) /\ 1 \notin Deletes(at, TRUE)
    BY DEF Deletes
  <1>3. at[1].cmd = "delete" => 1 \in Deletes(at, FALSE)
    BY <1>1 DEF Deletes
  <1>4. Doomed(at, TRUE) \subseteq Doomed(at, FALSE)
    BY <1>2, DoomedPlaces
  <1>5. OneEach(at, FALSE) => OneEach(at, TRUE)
    BY <1>2 DEF OneEach
  <1>6. at[1].cmd = "delete" => at[1].place \in Doomed(at, FALSE)
    BY <1>3, DoomedPlaces
  <1>7. ASSUME at[1].cmd = "delete", OneEach(at, FALSE), at[1].place \in Doomed(at, TRUE) PROVE FALSE
    <2>1. PICK k \in Deletes(at, TRUE) : at[k].place = at[1].place
      BY <1>7, DoomedPlaces
    <2>2. k = 1
      BY <2>1, <1>2, <1>3, <1>7 DEF OneEach
    <2> QED
      BY <2>2, <1>2
  <1> QED
    BY <1>1, <1>4, <1>5, <1>6, <1>7

\* The deletions that deleteMessage() queues
LEMMA DeletionsOnce ==
  ASSUME NEW ids \in Seq(Ids)
  PROVE  /\ Deletions(ids) \in Seq(Commands) /\ Lists(Deletions(ids)) = {}
         /\ Doomed(Deletions(ids), FALSE) = {id.place : id \in {x \in ToSet(ids) : x.place # 0}}
         /\ Distinct(ids) /\ (\A x, y \in ToSet(ids) : x.place = y.place /\ x.place # 0 => x.msg = y.msg)
               => OneEach(Deletions(ids), FALSE)
         /\ Stored(ids) = <<>> => NoDeletes(Deletions(ids)) /\ Deletions(ids) = <<>>
  <1> DEFINE d == Deletions(ids)
             s == Stored(ids)
  <1>1. /\ d \in Seq(Commands) /\ DOMAIN d = DOMAIN s
        /\ \A i \in DOMAIN d : d[i].cmd = "delete" /\ d[i].place = s[i].place
    BY DeletionsProperties
  <1>2. /\ s \in Seq(StoredIds)
        /\ ToSet(s) = {id \in ToSet(ids) : id.place # 0}
        /\ Distinct(ids) => Distinct(s)
    BY StoredProperties
  <1>3. Lists(d) = {}
    BY DeletionsNoList
  <1>9. s = <<>> => d = <<>>
    <2>1. SUFFICES ASSUME s = <<>> PROVE d = <<>>
      OBVIOUS
    <2>2. Deletions(ids) = [i \in DOMAIN s |-> [cmd |-> "delete", place |-> s[i].place]]
      BY Zenon DEF Deletions
    <2>3. DOMAIN d = {}
      BY <2>1, <1>1
    <2> HIDE DEF d
    <2> QED
      BY <2>3, <1>1
  <1> HIDE DEF d, s
  <1>4. Deletes(d, FALSE) = DOMAIN s
    BY <1>1 DEF Deletes
  <1>5. Doomed(d, FALSE) = {id.place : id \in ToSet(s)}
    <2>1. Doomed(d, FALSE) = {d[i].place : i \in DOMAIN s}
      BY <1>4, DoomedPlaces
    <2>2. \A i \in DOMAIN s : d[i].place = s[i].place
      BY <1>1
    <2>3. ToSet(s) = {s[i] : i \in DOMAIN s}
      BY DEF ToSet
    <2> QED
      BY <2>1, <2>2, <2>3
  <1>6. ASSUME Distinct(ids), \A x, y \in ToSet(ids) : x.place = y.place /\ x.place # 0 => x.msg = y.msg
        PROVE  OneEach(d, FALSE)
    <2> SUFFICES ASSUME NEW i \in DOMAIN s, NEW j \in DOMAIN s, s[i].place = s[j].place
                 PROVE  i = j
      BY <1>1, <1>4 DEF OneEach
    <2>1. s[i] \in ToSet(s) /\ s[j] \in ToSet(s)
      BY DEF ToSet
    <2>2. s[i].msg = s[j].msg
      BY <2>1, <1>2, <1>6
    <2> QED
      BY <2>2, <1>2, <1>6 DEF Distinct
  <1>7. s = <<>> => NoDeletes(d)
    BY <1>1, <1>9 DEF NoDeletes
  <1> QED
    BY <1>1, <1>2, <1>3, <1>5, <1>6, <1>7, <1>9 DEF d, s

-----------------------------------------------------------------------------
\* The invariant

Active == ToSet(client.activeIds)
Got    == client.received \cup ToSet(client.retrievedMessages)

\* The message stays, and nobody has asked to delete it either.
Alive(id) == Stays(id) /\ \A x \in WantedIds(requests) : x.place # id.place

\* The user has deleted it while its list was being read.
Removed(id) == /\ id \notin client.mailbox
               /\ id \notin ToSet(client.retrievedMessages)
               /\ id \in client.retrievedIds

\* One side has the turn: the client waits for the answer to one call, or has
\* none to wait for.
Token ==
  /\ OneTurn(requests) /\ OneAnswered(reader.out)
  /\ reader.pendingFirstMessage => Turns(requests) = {} /\ Turning(reader.out) = {}
  /\ Turns(requests) # {} => Turning(reader.out) = {}
  /\ client.smsFetching <=> \/ Turns(requests) # {} \/ Turning(reader.out) # {}
                            \/ reader.pendingFirstMessage

\* What the client deals with it has received, or will have at the end of the
\* list.
Received ==
  /\ client.retrievedIds \subseteq Got
  /\ client.mailbox \subseteq client.received
  /\ Active \subseteq Got
  /\ client.smsFetching => Active \subseteq client.retrievedIds

\* Deletions come before the next list; each is of another place, whose message
\* is there and has been read.
DoomedOnce ==
  /\ BeforeLists(reader.at) /\ OneEach(reader.at, Outstanding)
  /\ \A p \in Doomed(reader.at, Outstanding) :
        p \in Places /\ modem.sim[p] # 0 /\ InFlight(modem.sim[p])

\* The same of those that have been asked for.
AskedOnce ==
  /\ \A id \in WantedIds(requests) : Stays(id) /\ InFlight(id.msg)
  /\ OneWanted(requests)

\* What the client knows to be on the SIM is there, or it has been told to read
\* the list again.
KnownOk == \A id \in Active : id.place # 0 => Alive(id) \/ (Removed(id) /\ client.sawNewMessage)

FetchedOk(id, informed) ==
  id.place # 0 => /\ Alive(id) \/ (Removed(id) /\ informed)
                  /\ id \in Active => informed
FetchesOk == \A i \in Turning(reader.out) : reader.out[i].sig = "fetched" =>
  FetchedOk(reader.out[i].id, Informed(client.sawNewMessage, reader.out, i))

\* The list of the reader, and what of it has not been read
CacheStays == \A id \in ToSet(reader.pending) : id.place # 0 => Stays(id)
Coming(r)  == {r.pending[k] : k \in {l \in DOMAIN r.pending :
                                        l > r.pendingPosn /\ r.pending[l].place # 0}}

Handled == Active \cup FetchedIds(reader.out) \cup WantedIds(requests)
NoneTwice ==
  Has(requests, "next") \/ FetchedIds(reader.out) # {} =>
     \/ InformedAll(client.sawNewMessage, reader.out)
     \/ Coming(reader) \cap Handled = {}

\* When the list is begun nothing is left of the last.
Begins ==
  /\ reader.pendingFirstMessage => client.activeIds = <<>> /\ WantedIds(requests) = {}
  /\ Has(requests, "first") => client.activeIds = <<>>
  /\ FirstAfter(requests)
  /\ Has(requests, "next") \/ Turning(reader.out) # {} => \A id \in WantedIds(requests) : Removed(id)

AllKept == \A m \in 1..arrived : UnreadKept(m)

Unread == /\ DoomedOnce /\ AskedOnce /\ KnownOk /\ FetchesOk /\ CacheStays /\ NoneTwice
          /\ Begins /\ AllKept
ReadInv == Token /\ Received /\ (reader.overtaken \/ Unread)

LEMMA SameId ==
  ASSUME NEW x \in Ids, NEW y \in Ids, Stays(x), Stays(y), x.place = y.place
  PROVE  x = y
  BY DEF Stays, Ids

LEMMA InFlightIs ==
  ASSUME ClientInv, reader \in Readers
  PROVE  \A m : InFlight(m) <=> m \in ToSet(reader.dispatched) \/ \E id \in Got : id.msg = m
  <1>1. client.retrievedMessages \in Seq(Ids) /\ reader.dispatched \in Seq(Msgs)
    BY ClientFields, ReaderFields
  <1>2. /\ ToSet(client.retrievedMessages) = {client.retrievedMessages[i] : i \in DOMAIN client.retrievedMessages}
        /\ ToSet(reader.dispatched) = {reader.dispatched[i] : i \in DOMAIN reader.dispatched}
    BY <1>1 DEF ToSet
  <1> QED
    BY <1>2 DEF InFlight, Delivered, Got

LEMMA InFlightKept ==
  ASSUME InboxInv, InboxInv',
         ToSet(reader.dispatched) \subseteq ToSet(reader'.dispatched), Got \subseteq Got'
  PROVE  \A m : InFlight(m) => InFlight(m)'
  <1>1. ClientInv /\ reader \in Readers
    BY Typed DEF InboxInv, ReaderInv
  <1>2. ClientInv' /\ reader' \in Readers
    BY DEF InboxInv, ReaderInv, ReaderType
  <1>3. ASSUME NEW m PROVE InFlight(m) <=> m \in ToSet(reader.dispatched) \/ \E id \in Got : id.msg = m
    BY <1>1, InFlightIs
  <1>4. (\A m : InFlight(m) <=> m \in ToSet(reader.dispatched) \/ \E id \in Got : id.msg = m)'
    <2>1. (ClientInv /\ reader \in Readers)'
      BY <1>2
    <2> QED
      BY <2>1, InFlightIs, PTL
  <1> QED
    BY <1>3, <1>4

LEMMA InFlightMsg ==
  ASSUME ClientInv, reader \in Readers, NEW id \in Got
  PROVE  InFlight(id.msg)
  BY InFlightIs

LEMMA KeptSame ==
  ASSUME \A m : InFlight(m) => InFlight(m)', modem'.sim = modem.sim, arrived' = arrived, AllKept
  PROVE  AllKept'
  BY DEF AllKept, UnreadKept

LEMMA ReadTyped ==
  ASSUME InboxInv
  PROVE  /\ reader \in Readers /\ client \in Clients /\ requests \in Seq(Requests)
         /\ client.activeIds \in Seq(Ids) /\ client.retrievedMessages \in Seq(Ids)
         /\ reader.pending \in Seq(Ids) /\ reader.out \in Seq(Signals) /\ reader.at \in Seq(Commands)
         /\ Active \subseteq Ids /\ WantedIds(requests) \subseteq Ids
         /\ FetchedIds(reader.out) \subseteq Ids /\ ToSet(reader.pending) \subseteq Ids
         /\ (Active = {} <=> client.activeIds = <<>>)
         /\ client.sawNewMessage \in BOOLEAN /\ client.smsFetching \in BOOLEAN
         /\ modem.sim \in [Places -> 0..MaxMessages]
  <1>1. /\ reader \in Readers /\ client \in Clients /\ requests \in Seq(Requests)
        /\ client.activeIds \in Seq(Ids) /\ client.retrievedMessages \in Seq(Ids)
        /\ modem.sim \in [Places -> 0..MaxMessages]
    BY ClientFields, Typed DEF InboxInv, ReaderInv
  <1>2. reader.pending \in Seq(Ids) /\ reader.out \in Seq(Signals) /\ reader.at \in Seq(Commands)
    BY <1>1, ReaderFields
  <1>3. Active \subseteq Ids /\ ToSet(reader.pending) \subseteq Ids /\ (Active = {} <=> client.activeIds = <<>>)
    BY <1>1, <1>2, SetOfSeq DEF Active
  <1>4. WantedIds(requests) \subseteq Ids
    <2>1. \A i \in DOMAIN requests : requests[i] \in Requests
      BY <1>1
    <2>2. \A i \in Wanted(requests) : requests[i].id \in Ids
      BY <2>1 DEF Wanted, Requests
    <2> QED
      BY <2>2 DEF WantedIds
  <1>5. FetchedIds(reader.out) \subseteq Ids
    <2>1. \A i \in DOMAIN reader.out : reader.out[i] \in Signals
      BY <1>2
    <2>2. \A i \in DOMAIN reader.out : reader.out[i].sig = "fetched" => reader.out[i].id \in Ids
      BY <2>1 DEF Signals
    <2> QED
      BY <2>2 DEF FetchedIds
  <1>6. client.sawNewMessage \in BOOLEAN /\ client.smsFetching \in BOOLEAN
    BY <1>1 DEF Clients
  <1> QED
    BY <1>1, <1>2, <1>3, <1>4, <1>5, <1>6

-----------------------------------------------------------------------------
\* Steps that give nobody the turn

SameClient ==
  /\ client'.activeIds = client.activeIds /\ client'.retrievedIds = client.retrievedIds
  /\ client'.retrievedMessages = client.retrievedMessages
  /\ client'.mailbox = client.mailbox /\ client'.received = client.received

LEMMA SameGot ==
  ASSUME SameClient
  PROVE  Active' = Active /\ Got' = Got /\ \A id : Removed(id)' <=> Removed(id)
  BY DEF SameClient, Active, Got, Removed

LEMMA QuietStep ==
  ASSUME InboxInv, ReadInv, SameClient, client'.smsFetching = client.smsFetching,
         client.sawNewMessage => client'.sawNewMessage,
         SameCalls(requests, requests'),
         SameTurns(client.sawNewMessage, reader.out, client'.sawNewMessage, reader'.out),
         reader'.pendingFirstMessage = reader.pendingFirstMessage,
         reader.overtaken => reader'.overtaken,
         ~reader'.overtaken /\ Unread =>
            /\ \A id \in Ids : id.place # 0 /\ Stays(id) => Stays(id)'
            /\ \A m : InFlight(m) => InFlight(m)'
            /\ DoomedOnce' /\ CacheStays' /\ AllKept'
            /\ \/ InformedAll(client'.sawNewMessage, reader'.out)
               \/ Coming(reader') \subseteq Coming(reader)
               \/ reader.pendingFirstMessage
  PROVE  ReadInv'
  <1>1. Token /\ Received /\ (reader.overtaken \/ Unread)
    BY DEF ReadInv
  <1>2. /\ WantedIds(requests') = WantedIds(requests)
        /\ Has(requests', "first") <=> Has(requests, "first")
        /\ Has(requests', "next") <=> Has(requests, "next")
        /\ Turns(requests') = {} <=> Turns(requests) = {}
        /\ OneTurn(requests) => OneTurn(requests')
        /\ OneWanted(requests) => OneWanted(requests')
        /\ FirstAfter(requests) => FirstAfter(requests')
    BY DEF SameCalls
  <1>3. /\ Turning(reader'.out) = {} <=> Turning(reader.out) = {}
        /\ OneAnswered(reader.out) => OneAnswered(reader'.out)
        /\ InformedAll(client.sawNewMessage, reader.out) => InformedAll(client'.sawNewMessage, reader'.out)
        /\ FetchedIds(reader'.out) \subseteq FetchedIds(reader.out)
    <2>1. FetchedIds(reader'.out) \subseteq FetchedIds(reader.out)
      BY FetchedSame
    <2> QED
      BY <2>1 DEF SameTurns
  <1>4. Active' = Active /\ Got' = Got /\ \A id : Removed(id)' <=> Removed(id)
    BY SameGot
  <1>5. Token'
    BY <1>1, <1>2, <1>3 DEF Token
  <1>6. Received'
    BY <1>1, <1>4 DEF Received, SameClient
  <1>7. SUFFICES ASSUME ~reader'.overtaken PROVE Unread'
    BY <1>5, <1>6 DEF ReadInv
  <1>8. /\ Unread
        /\ \A id \in Ids : id.place # 0 /\ Stays(id) => Stays(id)'
        /\ \A m : InFlight(m) => InFlight(m)'
        /\ DoomedOnce' /\ CacheStays' /\ AllKept'
        /\ \/ InformedAll(client'.sawNewMessage, reader'.out)
           \/ Coming(reader') \subseteq Coming(reader)
           \/ reader.pendingFirstMessage
    BY <1>1, <1>7
  <1>9. Active \subseteq Ids /\ WantedIds(requests) \subseteq Ids /\ FetchedIds(reader.out) \subseteq Ids
    BY ReadTyped
  <1>10. \A id \in Ids : id.place # 0 /\ Alive(id) => Alive(id)'
    BY <1>2, <1>8 DEF Alive
  <1>11. AskedOnce'
    <2>1. \A id \in WantedIds(requests) : id.place # 0
      BY DEF WantedIds, Wanted
    <2>2. AskedOnce
      BY <1>8 DEF Unread
    <2> QED
      BY <1>2, <1>8, <1>9, <2>1, <2>2 DEF AskedOnce
  <1>12. KnownOk'
    <2>1. KnownOk
      BY <1>8 DEF Unread
    <2> QED
      BY <2>1, <1>4, <1>9, <1>10 DEF KnownOk
  <1>13. ASSUME NEW id \in Ids, NEW p, NEW n, FetchedOk(id, p), p => n
         PROVE  FetchedOk(id, n)'
    BY <1>13, <1>4, <1>10 DEF FetchedOk
  <1>14. FetchesOk'
    <2>1. FetchesOk
      BY <1>8 DEF Unread
    <2>2. SUFFICES ASSUME NEW i \in Turning(reader'.out), reader'.out[i].sig = "fetched"
                   PROVE  FetchedOk(reader.out[i].id, Informed(client.sawNewMessage, reader.out, i))'
      BY DEF FetchesOk
    <2>3. PICK j \in Turning(reader.out) :
             /\ reader'.out[i] = reader.out[j]
             /\ Informed(client.sawNewMessage, reader.out, j) => Informed(client'.sawNewMessage, reader'.out, i)
      BY <2>2 DEF SameTurns
    <2>4. /\ FetchedOk(reader.out[j].id, Informed(client.sawNewMessage, reader.out, j))
          /\ reader.out[j].id \in FetchedIds(reader.out)
      BY <2>1, <2>2, <2>3, FetchedTurning DEF FetchesOk
    <2>5. PICK id \in Ids : id = reader.out[j].id
      BY <2>4, <1>9
    <2>6. PICK p : p = Informed(client.sawNewMessage, reader.out, j)
      OBVIOUS
    <2>7. PICK n : n = Informed(client'.sawNewMessage, reader'.out, i)
      OBVIOUS
    <2>8. FetchedOk(id, p) /\ (p => n)
      BY <2>3, <2>4, <2>5, <2>6, <2>7
    <2>9. FetchedOk(id, n)'
      BY <2>8, <1>13
    <2> QED
      BY <2>9, <2>3, <2>5, <2>7 DEF FetchedOk
  <1>15. NoneTwice'
    <2>1. NoneTwice
      BY <1>8 DEF Unread
    <2>2. Handled' \subseteq Handled
      BY <1>2, <1>3, <1>4 DEF Handled
    <2>3. CASE reader.pendingFirstMessage
      <3>1. Turns(requests) = {} /\ Turning(reader.out) = {}
        BY <2>3, <1>1 DEF Token
      <3>2. ~Has(requests, "next") /\ FetchedIds(reader.out) = {}
        BY <3>1, FetchedTurning DEF Turns, Has
      <3> QED
        BY <3>2, <1>2, <1>3 DEF NoneTwice
    <2> QED
      BY <2>1, <2>2, <2>3, <1>2, <1>3, <1>8 DEF NoneTwice
  <1>16. Begins'
    <2>1. Begins
      BY <1>8 DEF Unread
    <2> QED
      BY <2>1, <1>2, <1>3, <1>4 DEF Begins, SameClient
  <1> QED
    BY <1>8, <1>11, <1>12, <1>14, <1>15, <1>16 DEF Unread

-----------------------------------------------------------------------------
\* Steps of the reader that leave what is stored alone

LEMMA SameStore ==
  ASSUME InboxInv, InboxInv', modem'.sim = modem.sim, arrived' = arrived, Got \subseteq Got',
         ToSet(reader.dispatched) \subseteq ToSet(reader'.dispatched),
         Doomed(reader.at, Outstanding)' = Doomed(reader.at, Outstanding),
         BeforeLists(reader.at) => BeforeLists(reader'.at),
         OneEach(reader.at, Outstanding) => OneEach(reader.at, Outstanding)'
  PROVE  /\ \A id : Stays(id)' <=> Stays(id)
         /\ \A m : InFlight(m) => InFlight(m)'
         /\ DoomedOnce => DoomedOnce'
         /\ AllKept => AllKept'
  <1>1. \A id : Stays(id)' <=> Stays(id)
    BY DEF Stays
  <1>2. \A m : InFlight(m) => InFlight(m)'
    BY InFlightKept
  <1>3. DoomedOnce => DoomedOnce'
    BY <1>2 DEF DoomedOnce
  <1>4. AllKept => AllKept'
    BY <1>2, KeptSame
  <1> QED
    BY <1>1, <1>2, <1>3, <1>4

LEMMA Busy ==
  ASSUME InboxInv
  PROVE  Outstanding \in BOOLEAN /\ (Outstanding => reader.at # <<>>) /\ reader.at \in Seq(Commands)
  BY ReadTyped DEF InboxInv, ReaderInv, OneAnswer, Outstanding

\* s has no deletion more in its queue than r, and no more of the list to read.
Quietly(r, s) ==
  /\ s.overtaken = r.overtaken /\ s.dispatched = r.dispatched
  /\ \E q \in Seq(Commands) : NoDeletes(q) /\ s.at = r.at \o q
  /\ \/ s.pending = r.pending /\ s.pendingPosn = r.pendingPosn
     \/ \A id \in ToSet(s.pending) : id.place = 0
  /\ \A saw : SameTurns(saw, r.out, saw, s.out)

LEMMA SameComing ==
  ASSUME NEW r, NEW s, NEW A, s.pending \in Seq(A),
         \/ s.pending = r.pending /\ s.pendingPosn = r.pendingPosn
         \/ \A id \in ToSet(s.pending) : id.place = 0
  PROVE  Coming(s) \subseteq Coming(r)
  <1>1. CASE s.pending = r.pending /\ s.pendingPosn = r.pendingPosn
    BY <1>1 DEF Coming
  <1>2. CASE \A id \in ToSet(s.pending) : id.place = 0
    <2>1. \A l \in DOMAIN s.pending : s.pending[l].place = 0
      BY <1>2, SetOfSeq
    <2> QED
      BY <2>1 DEF Coming
  <1> QED
    BY <1>1, <1>2

LEMMA QuietlySame ==
  ASSUME NEW r \in Readers, NEW s, s.overtaken = r.overtaken, s.dispatched = r.dispatched,
         s.at = r.at, s.pending = r.pending, s.pendingPosn = r.pendingPosn, s.out = r.out
  PROVE  Quietly(r, s)
  <1>1. r.at \in Seq(Commands) /\ r.out \in Seq(Signals)
    BY ReaderFields
  <1>2. <<>> \in Seq(Commands) /\ NoDeletes(<<>>) /\ s.at = r.at \o <<>>
    BY <1>1, EmptyConcat DEF NoDeletes
  <1>3. \A saw : SameTurns(saw, r.out, saw, s.out)
    BY <1>1, TurnsKept
  <1> QED
    BY <1>2, <1>3 DEF Quietly

LEMMA QuietlyCount ==
  ASSUME NEW r \in Readers
  PROVE  Quietly(r, Count(r))
  <1>1. Count(r) = [r EXCEPT !.out = Append(r.out, CountSignal(r))] /\ CountSignal(r) \in Signals
    BY CountEffect
  <1>2. r.at \in Seq(Commands) /\ r.out \in Seq(Signals)
    BY ReaderFields
  <1>3. Quiet(CountSignal(r))
    BY DEF Quiet, CountSignal
  <1> DEFINE s == Count(r)
  <1>4. /\ s.overtaken = r.overtaken /\ s.dispatched = r.dispatched /\ s.at = r.at
        /\ s.pending = r.pending /\ s.pendingPosn = r.pendingPosn
        /\ s.out = Append(r.out, CountSignal(r))
    BY <1>1 DEF Readers
  <1> HIDE DEF s
  <1>5. <<>> \in Seq(Commands) /\ NoDeletes(<<>>) /\ s.at = r.at \o <<>>
    BY <1>2, <1>4, EmptyConcat DEF NoDeletes
  <1>6. \A saw : SameTurns(saw, r.out, saw, s.out)
    BY <1>1, <1>2, <1>3, <1>4, TurnsQuiet
  <1>7. Quietly(r, s)
    BY <1>4, <1>5, <1>6 DEF Quietly
  <1> QED
    BY <1>7 DEF s

LEMMA QuietlyFetch ==
  ASSUME NEW r \in Readers, Sorted(r)
  PROVE  Quietly(r, FetchMessages(r))
  <1>1. /\ FetchMessages(r) = [r EXCEPT !.fetching = TRUE, !.pending = r.pseudoInbox,
                                        !.at = r.at \o ListCmds]
        /\ ListCmds \in Seq(Commands) /\ Len(ListCmds) = 2
        /\ ListCmds[1] = Command("usage") /\ ListCmds[2] = Command("list")
    BY FetchEffect
  <1> DEFINE s == FetchMessages(r)
  <1>2. /\ s.overtaken = r.overtaken /\ s.dispatched = r.dispatched /\ s.at = r.at \o ListCmds
        /\ s.pending = r.pseudoInbox /\ s.out = r.out
    BY <1>1 DEF Readers
  <1> HIDE DEF s
  <1>3. NoDeletes(ListCmds)
    <2>1. \A i \in DOMAIN ListCmds : i = 1 \/ i = 2
      BY <1>1
    <2> QED
      BY <2>1, <1>1, CommandType DEF NoDeletes
  <1>4. \A saw : SameTurns(saw, r.out, saw, s.out)
    BY <1>2, ReaderFields, TurnsKept
  <1>5. \A id \in ToSet(s.pending) : id.place = 0
    BY <1>2 DEF Sorted
  <1>6. Quietly(r, s)
    BY <1>1, <1>2, <1>3, <1>4, <1>5 DEF Quietly
  <1> QED
    BY <1>6 DEF s

\* u differs from r in what Quietly does not look at.
LEMMA QuietlyFrom ==
  ASSUME NEW r, NEW u, NEW s, Quietly(u, s), u.overtaken = r.overtaken, u.dispatched = r.dispatched,
         u.at = r.at, u.pending = r.pending, u.pendingPosn = r.pendingPosn, u.out = r.out
  PROVE  Quietly(r, s)
  BY DEF Quietly

LEMMA QuietlyCheck ==
  ASSUME NEW r \in Readers, Sorted(r), NEW force \in BOOLEAN
  PROVE  Quietly(r, Check(r, force)) /\ Check(r, force).pendingFirstMessage = r.pendingFirstMessage
  <1> DEFINE u == [r EXCEPT !.pendingCheck = TRUE]
  <1>1. /\ u.overtaken = r.overtaken /\ u.dispatched = r.dispatched /\ u.at = r.at
        /\ u.pending = r.pending /\ u.pendingPosn = r.pendingPosn /\ u.out = r.out
        /\ u.pseudoInbox = r.pseudoInbox /\ u.pendingFirstMessage = r.pendingFirstMessage
        /\ u.fetching = r.fetching
    BY DEF Readers
  <1> HIDE DEF u
  <1>2. CASE Check(r, force) = Count(r)
    <2>1. Count(r) = [r EXCEPT !.out = Append(r.out, CountSignal(r))]
      BY CountEffect
    <2>2. Count(r).pendingFirstMessage = r.pendingFirstMessage
      BY <2>1 DEF Readers
    <2> QED
      BY <1>2, <2>2, QuietlyCount
  <1>3. CASE Check(r, force) = u
    BY <1>1, <1>3, QuietlySame
  <1>4. CASE Check(r, force) = FetchMessages(u) /\ u \in Readers /\ ~r.fetching
    <2>1. Sorted(u)
      BY <1>1, <1>4 DEF Sorted
    <2>2. Quietly(u, FetchMessages(u))
      BY <1>4, <2>1, QuietlyFetch
    <2>3. FetchMessages(u) = [u EXCEPT !.fetching = TRUE, !.pending = u.pseudoInbox,
                                       !.at = u.at \o ListCmds]
      BY <1>4, FetchEffect
    <2>4. FetchMessages(u).pendingFirstMessage = r.pendingFirstMessage
      BY <1>1, <1>4, <2>3 DEF Readers
    <2> QED
      BY <1>1, <1>4, <2>2, <2>4, QuietlyFrom
  <1> QED
    BY <1>2, <1>3, <1>4, CheckEffect DEF u

LEMMA QuietlyNews ==
  ASSUME NEW r \in Readers, Sorted(r)
  PROVE  LET s == NewMessageArrived(r) IN
         Quietly(r, s) /\ s.pendingFirstMessage = r.pendingFirstMessage
  <1>1. CASE r.fetching
    <2> DEFINE s == [r EXCEPT !.needRefetch = TRUE]
    <2>1. NewMessageArrived(r) = s
      BY <1>1 DEF NewMessageArrived
    <2>2. /\ s.overtaken = r.overtaken /\ s.dispatched = r.dispatched /\ s.at = r.at
          /\ s.pending = r.pending /\ s.pendingPosn = r.pendingPosn /\ s.out = r.out
          /\ s.pendingFirstMessage = r.pendingFirstMessage
      BY DEF Readers
    <2> HIDE DEF s
    <2> QED
      BY <2>1, <2>2, QuietlySame
  <1>2. CASE ~r.fetching
    <2> DEFINE u == [r EXCEPT !.haveCached = FALSE]
    <2>1. NewMessageArrived(r) = Check(u, FALSE)
      BY <1>2 DEF NewMessageArrived
    <2>2. /\ u.overtaken = r.overtaken /\ u.dispatched = r.dispatched /\ u.at = r.at
          /\ u.pending = r.pending /\ u.pendingPosn = r.pendingPosn /\ u.out = r.out
          /\ u.pseudoInbox = r.pseudoInbox /\ u.pendingFirstMessage = r.pendingFirstMessage
          /\ u.fetching = r.fetching /\ u \in Readers
      BY DEF Readers
    <2> HIDE DEF u
    <2>3. Sorted(u)
      BY <2>2, <1>2 DEF Sorted
    <2>4. Quietly(u, Check(u, FALSE)) /\ Check(u, FALSE).pendingFirstMessage = u.pendingFirstMessage
      BY <2>2, <2>3, QuietlyCheck
    <2> QED
      BY <2>1, <2>2, <2>4, QuietlyFrom
  <1> QED
    BY <1>1, <1>2

\* What such a step of the reader leaves as it was
LEMMA QuietlyStored ==
  ASSUME InboxInv, InboxInv', Quietly(reader, reader'), modem'.sim = modem.sim, arrived' = arrived,
         Outstanding' <=> Outstanding, Got \subseteq Got'
  PROVE  /\ \A id : Stays(id)' <=> Stays(id)
         /\ \A m : InFlight(m) => InFlight(m)'
         /\ DoomedOnce => DoomedOnce'
         /\ AllKept => AllKept'
         /\ CacheStays => CacheStays'
         /\ Coming(reader') \subseteq Coming(reader)
  <1>1. PICK q \in Seq(Commands) : NoDeletes(q) /\ reader'.at = reader.at \o q
    BY DEF Quietly
  <1>2. PICK busy \in BOOLEAN : busy = Outstanding
    BY Busy
  <1>3. busy = Outstanding' /\ (busy => reader.at # <<>>) /\ reader.at \in Seq(Commands)
    BY <1>2, Busy DEF Outstanding
  <1>4. PICK at \in Seq(Commands) : at = reader.at
    BY <1>3
  <1>5. /\ Doomed(at \o q, busy) = Doomed(at, busy)
        /\ OneEach(at, busy) => OneEach(at \o q, busy)
        /\ BeforeLists(at) => BeforeLists(at \o q)
    <2>1. busy => at # <<>>
      BY <1>3, <1>4
    <2> DEFINE u == at \o q
    <2>2. /\ NoDeletes(q) /\ OneEach(at, busy) => OneEach(u, busy)
          /\ BeforeLists(at) /\ NoDeletes(q) => BeforeLists(u)
          /\ NoDeletes(q) => Doomed(u, busy) = Doomed(at, busy)
      BY <2>1, QueueMore, Zenon
    <2> HIDE DEF u
    <2> QED
      BY <1>1, <2>2 DEF u
  <1>6. /\ Doomed(reader.at, Outstanding)' = Doomed(reader.at, Outstanding)
        /\ BeforeLists(reader.at) => BeforeLists(reader'.at)
        /\ OneEach(reader.at, Outstanding) => OneEach(reader.at, Outstanding)'
    BY <1>1, <1>2, <1>3, <1>4, <1>5
  <1>7. /\ \A id : Stays(id)' <=> Stays(id)
        /\ \A m : InFlight(m) => InFlight(m)'
        /\ DoomedOnce => DoomedOnce'
        /\ AllKept => AllKept'
    BY <1>6, SameStore DEF Quietly
  <1>8. \/ reader'.pending = reader.pending /\ reader'.pendingPosn = reader.pendingPosn
        \/ \A id \in ToSet(reader'.pending) : id.place = 0
    BY DEF Quietly
  <1>9. CacheStays => CacheStays'
    BY <1>7, <1>8 DEF CacheStays
  <1>10. reader'.pending \in Seq(Ids)
    <2>1. reader' \in Readers
      BY DEF InboxInv, ReaderInv, ReaderType
    <2> QED
      BY <2>1, ReaderFields
  <1>11. Coming(reader') \subseteq Coming(reader)
    BY <1>8, <1>10, SameComing
  <1> QED
    BY <1>7, <1>9, <1>11

LEMMA QuietlyRead ==
  ASSUME InboxInv, InboxInv', ReadInv, Quietly(reader, reader'),
         reader'.pendingFirstMessage = reader.pendingFirstMessage,
         modem'.sim = modem.sim, arrived' = arrived, Outstanding' <=> Outstanding,
         client' = client, SameCalls(requests, requests')
  PROVE  ReadInv'
  <1>1. SameClient
    BY DEF SameClient
  <1>2. Got \subseteq Got'
    BY DEF Got
  <1>3. /\ \A id : Stays(id)' <=> Stays(id)
        /\ \A m : InFlight(m) => InFlight(m)'
        /\ DoomedOnce => DoomedOnce'
        /\ AllKept => AllKept'
        /\ CacheStays => CacheStays'
        /\ Coming(reader') \subseteq Coming(reader)
    BY <1>2, QuietlyStored
  <1>4. /\ reader'.overtaken = reader.overtaken
        /\ SameTurns(client.sawNewMessage, reader.out, client'.sawNewMessage, reader'.out)
    BY DEF Quietly
  <1> QED
    BY <1>1, <1>3, <1>4, QuietStep DEF Unread

-----------------------------------------------------------------------------
\* The reader answers firstMessage().

LEMMA NoTurns ==
  ASSUME NEW q, Turns(q) = {}
  PROVE  ~Has(q, "first") /\ ~Has(q, "next") /\ OneTurn(q) /\ FirstAfter(q)
  BY DEF Turns, Has, OneTurn, FirstAfter

LEMMA NoneWanted ==
  ASSUME NEW q, WantedIds(q) = {}
  PROVE  OneWanted(q) /\ Wanted(q) = {}
  BY DEF WantedIds, OneWanted

LEMMA SignalsTyped ==
  ASSUME NEW r \in Readers
  PROVE  FirstSignal(r) \in Signals /\ Turn(FirstSignal(r)) /\ NextSignal(r) \in Signals /\ Turn(NextSignal(r))
  <1>1. NextSignal(r) \in Signals
    BY NextEffect
  <1>2. FirstSignal(r) \in Signals
    <2>1. r.pending \in Seq(Ids) /\ Len(r.pending) \in Nat
      BY ReaderFields
    <2>2. 0 < Len(r.pending) => r.pending[1] \in Ids
      BY <2>1
    <2> QED
      BY <2>2 DEF FirstSignal, Signals
  <1> QED
    BY <1>1, <1>2 DEF Turn, FirstSignal, NextSignal

LEMMA TurnGiven ==
  ASSUME InboxInv, InboxInv', ReadInv, client' = client, client.smsFetching,
         NEW u \in Seq(Signals), Turning(u) = {}, reader'.out = Append(u, FirstSignal(reader')),
         reader'.pendingPosn = (IF 0 < Len(reader'.pending) THEN 1 ELSE 0),
         reader'.pendingFirstMessage = FALSE, Turns(requests') = {},
         reader.overtaken => reader'.overtaken,
         ~reader'.overtaken => /\ client.activeIds = <<>> /\ WantedIds(requests') = {}
                               /\ DoomedOnce' /\ CacheStays' /\ AllKept'
  PROVE  ReadInv'
  <1>1. reader' \in Readers /\ Distinct(reader'.pending) /\ reader'.pending \in Seq(Ids)
    <2>1. reader' \in Readers /\ Distinct(reader'.pending)
      BY DEF InboxInv, ReaderInv, Local, Sorted
    <2> QED
      BY <2>1, ReaderFields
  <1>0. PICK x : x = FirstSignal(reader')
    OBVIOUS
  <1>2. x \in Signals /\ Turn(x)
    BY <1>0, <1>1, SignalsTyped
  <1> DEFINE out == Append(u, x)
  <1>3. /\ Turning(out) = {Len(out)} /\ OneAnswered(out)
        /\ FetchedIds(out) = IF x.sig = "fetched" THEN {x.id} ELSE {}
        /\ out[Len(out)] = x
    BY <1>2, TurnAdded, Zenon
  <1>4. reader'.out = out
    BY <1>0
  <1> HIDE DEF out
  <1>5. ~Has(requests', "first") /\ ~Has(requests', "next") /\ OneTurn(requests') /\ FirstAfter(requests')
    BY NoTurns
  <1>6. Token'
    BY <1>3, <1>4, <1>5 DEF Token
  <1>7. Received'
    BY DEF ReadInv, Received, Active, Got
  <1>8. SUFFICES ASSUME ~reader'.overtaken PROVE Unread'
    BY <1>6, <1>7 DEF ReadInv
  <1>9. /\ client'.activeIds = <<>> /\ WantedIds(requests') = {}
        /\ DoomedOnce' /\ CacheStays' /\ AllKept'
    BY <1>8
  <1>10. Active' = {}
    BY <1>9 DEF Active, ToSet
  <1>11. AskedOnce' /\ KnownOk' /\ Begins'
    BY <1>5, <1>9, <1>10, NoneWanted DEF AskedOnce, KnownOk, Begins
  <1>12. x.sig = "fetched" => /\ 0 < Len(reader'.pending) /\ x.id = reader'.pending[1]
                              /\ x.id \in ToSet(reader'.pending)
    <2>1. x.sig = "fetched" => 0 < Len(reader'.pending) /\ x.id = reader'.pending[1]
      BY <1>0 DEF FirstSignal
    <2>2. 0 < Len(reader'.pending) => 1 \in DOMAIN reader'.pending
      BY <1>1
    <2>3. \A i \in DOMAIN reader'.pending : reader'.pending[i] \in ToSet(reader'.pending)
      BY <1>1, SetOfSeq
    <2> QED
      BY <2>1, <2>2, <2>3
  <1>13. FetchesOk'
    <2>1. CASE x.sig = "fetched"
      <3>1. PICK id : id = x.id
        OBVIOUS
      <3>2. id.place # 0 => Stays(id)'
        BY <2>1, <3>1, <1>9, <1>12 DEF CacheStays
      <3>3. \A n : FetchedOk(id, n)'
        BY <3>2, <1>9, <1>10 DEF FetchedOk, Alive
      <3> QED
        BY <3>1, <3>3, <1>3, <1>4 DEF FetchesOk, FetchedOk
    <2>2. CASE x.sig # "fetched"
      BY <2>2, <1>3, <1>4 DEF FetchesOk
    <2> QED
      BY <2>1, <2>2
  <1>14. NoneTwice'
    <2>1. CASE x.sig = "fetched"
      <3>1. Handled' = {x.id}
        BY <2>1, <1>3, <1>4, <1>9, <1>10 DEF Handled
      <3>2. x.id \notin Coming(reader')
        <4>1. reader'.pendingPosn = 1 /\ 1 \in DOMAIN reader'.pending
          BY <2>1, <1>1, <1>12
        <4>2. ASSUME NEW k \in DOMAIN reader'.pending, k > 1, reader'.pending[k] = x.id
              PROVE  FALSE
          BY <4>1, <4>2, <2>1, <1>12, <1>1 DEF Distinct
        <4> QED
          BY <4>1, <4>2 DEF Coming
      <3> QED
        BY <3>1, <3>2 DEF NoneTwice
    <2>2. CASE x.sig # "fetched"
      BY <2>2, <1>3, <1>4, <1>5 DEF NoneTwice
    <2> QED
      BY <2>1, <2>2
  <1> QED
    BY <1>9, <1>11, <1>13, <1>14 DEF Unread

LEMMA ServeFirst ==
  ASSUME InboxInv, InboxInv', ReadInv, requests # <<>>, Head(requests).req = "first",
         reader' = FirstMessage(reader), requests' = Tail(requests),
         UNCHANGED <<modem, rx, arrived, failures, client>>
  PROVE  ReadInv'
  <1>1. /\ reader \in Readers /\ requests \in Seq(Requests) /\ reader.out \in Seq(Signals)
        /\ Sorted(reader)
    BY ReadTyped DEF InboxInv, ReaderInv, Local
  <1>2. Token /\ Received /\ (reader.overtaken \/ Unread)
    BY DEF ReadInv
  <1> DEFINE t == Tail(requests)
             c == Head(requests)
  <1>3. /\ WantedIds(t) \subseteq WantedIds(requests)
        /\ OneTurn(requests) /\ c.req \in {"first", "next"} => Turns(t) = {}
        /\ c.req \in {"first", "next"} => Turns(requests) # {}
        /\ FirstAfter(requests) /\ c.req = "first" => Wanted(requests) = {}
        /\ Has(requests, c.req)
    BY <1>1, CallsTail, Zenon
  <1> HIDE DEF t
  <1>4. /\ Turns(t) = {} /\ Turns(requests) # {} /\ Has(requests, "first")
        /\ Turning(reader.out) = {} /\ ~reader.pendingFirstMessage /\ client.smsFetching
    BY <1>2, <1>3 DEF Token
  <1>5. ~reader.overtaken => client.activeIds = <<>> /\ WantedIds(t) = {}
    <2>1. SUFFICES ASSUME Begins PROVE client.activeIds = <<>> /\ WantedIds(t) = {}
      BY <1>2 DEF Unread
    <2> QED
      BY <2>1, <1>3, <1>4 DEF Begins, WantedIds
  <1>6. t = requests'
    BY DEF t
  <1>7. CASE reader.haveCached
    <2> DEFINE r == [reader EXCEPT !.pendingPosn = 0]
    <2>1. /\ r \in Readers /\ r.out = reader.out /\ r.pending = reader.pending /\ r.pendingPosn = 0
          /\ r.overtaken = reader.overtaken /\ r.at = reader.at /\ r.dispatched = reader.dispatched
          /\ r.pendingFirstMessage = reader.pendingFirstMessage
      BY <1>1 DEF Readers
    <2>2. reader' = NextMessage(r)
      BY <1>7 DEF FirstMessage
    <2> HIDE DEF r
    <2>3. reader' = [r EXCEPT !.out = Append(r.out, NextSignal(r)),
                !.pendingPosn = IF r.pendingPosn < Len(r.pending) THEN r.pendingPosn + 1 ELSE 0]
      BY <2>1, <2>2, NextEffect
    <2>4. /\ reader'.pending = reader.pending /\ reader'.at = reader.at
          /\ reader'.overtaken = reader.overtaken /\ reader'.dispatched = reader.dispatched
          /\ reader'.pendingFirstMessage = reader.pendingFirstMessage
          /\ reader'.out = Append(reader.out, NextSignal(r))
          /\ reader'.pendingPosn = IF 0 < Len(reader.pending) THEN 0 + 1 ELSE 0
      BY <2>1, <2>3 DEF Readers
    <2>5. reader'.out = Append(reader.out, FirstSignal(reader'))
      <3>1. NextSignal(r) = FirstSignal(reader')
        BY <2>1, <2>4 DEF NextSignal, FirstSignal
      <3> QED
        BY <3>1, <2>4
    <2>6. Outstanding' = Outstanding /\ Got \subseteq Got'
      BY DEF Outstanding, Got
    <2>7. /\ \A id : Stays(id)' <=> Stays(id)
          /\ DoomedOnce => DoomedOnce'
          /\ AllKept => AllKept'
      BY <2>4, <2>6, SameStore
    <2>8. CacheStays => CacheStays'
      BY <2>4, <2>7 DEF CacheStays
    <2>9. reader'.pendingPosn = (IF 0 < Len(reader'.pending) THEN 1 ELSE 0) /\ reader'.pendingFirstMessage = FALSE
      BY <2>4, <1>1, <1>4 DEF Readers
    <2> QED
      BY <1>1, <1>2, <1>4, <1>5, <1>6, <2>4, <2>5, <2>7, <2>8, <2>9, TurnGiven DEF Unread
  <1>8. CASE ~reader.haveCached
    <2> DEFINE r == [reader EXCEPT !.pendingFirstMessage = TRUE]
    <2>1. /\ r \in Readers /\ r.out = reader.out /\ r.pending = reader.pending
          /\ r.pendingPosn = reader.pendingPosn /\ r.pseudoInbox = reader.pseudoInbox
          /\ r.overtaken = reader.overtaken /\ r.at = reader.at /\ r.dispatched = reader.dispatched
          /\ r.pendingFirstMessage = TRUE /\ r.fetching = reader.fetching
      BY <1>1 DEF Readers
    <2>2. reader' = IF reader.fetching THEN r ELSE FetchMessages(r)
      BY <1>8 DEF FirstMessage
    <2> HIDE DEF r
    <2>3. Quietly(reader, reader') /\ reader'.pendingFirstMessage = TRUE
      <3>1. CASE reader.fetching
        BY <3>1, <2>1, <2>2, <1>1, QuietlySame
      <3>2. CASE ~reader.fetching
        <4>1. Sorted(r)
          BY <3>2, <2>1, <1>1 DEF Sorted
        <4>2. Quietly(r, reader')
          BY <3>2, <4>1, <2>1, <2>2, QuietlyFetch
        <4>3. reader' = [r EXCEPT !.fetching = TRUE, !.pending = r.pseudoInbox,
                                  !.at = r.at \o ListCmds]
          BY <3>2, <2>1, <2>2, FetchEffect
        <4>4. reader'.pendingFirstMessage = TRUE
          BY <4>3, <2>1 DEF Readers
        <4> QED
          BY <4>2, <4>4, <2>1, QuietlyFrom
      <3> QED
        BY <3>1, <3>2
    <2>4. Outstanding' = Outstanding /\ Got \subseteq Got'
      BY DEF Outstanding, Got
    <2>5. /\ \A id : Stays(id)' <=> Stays(id)
          /\ DoomedOnce => DoomedOnce'
          /\ AllKept => AllKept'
          /\ CacheStays => CacheStays'
      BY <2>3, <2>4, QuietlyStored
    <2>6. Turning(reader'.out) = {} /\ OneAnswered(reader'.out)
      <3>1. SameTurns(FALSE, reader.out, FALSE, reader'.out)
        BY <2>3 DEF Quietly
      <3> QED
        BY <3>1, <1>2, <1>4 DEF SameTurns, Token
    <2>7. FetchedIds(reader'.out) = {}
      BY <2>6, FetchedTurning
    <2>8. ~Has(t, "first") /\ ~Has(t, "next") /\ OneTurn(t) /\ FirstAfter(t)
      BY <1>4, NoTurns
    <2>9. Token'
      BY <1>4, <1>6, <2>3, <2>6, <2>8 DEF Token
    <2>10. Received'
      BY <1>2 DEF Received, Active, Got
    <2>11. SUFFICES ASSUME ~reader'.overtaken PROVE Unread'
      BY <2>9, <2>10 DEF ReadInv
    <2>12. ~reader.overtaken /\ Unread
      BY <2>3, <2>11, <1>2 DEF Quietly
    <2>13. client'.activeIds = <<>> /\ WantedIds(requests') = {}
      BY <1>5, <1>6, <2>12
    <2>14. Active' = {}
      BY <2>13 DEF Active, ToSet
    <2>15. AskedOnce' /\ KnownOk' /\ Begins'
      BY <1>6, <2>6, <2>8, <2>13, <2>14, NoneWanted DEF AskedOnce, KnownOk, Begins
    <2>16. FetchesOk' /\ NoneTwice'
      BY <1>6, <2>6, <2>7, <2>8 DEF FetchesOk, NoneTwice
    <2> QED
      BY <2>5, <2>12, <2>15, <2>16 DEF Unread
  <1> QED
    BY <1>7, <1>8

-----------------------------------------------------------------------------
\* The other calls of the client

LEMMA ServeNext ==
  ASSUME InboxInv, InboxInv', ReadInv, requests # <<>>, Head(requests).req = "next",
         reader' = NextMessage(reader), requests' = Tail(requests),
         UNCHANGED <<modem, rx, arrived, failures, client>>
  PROVE  ReadInv'
  <1>1. /\ reader \in Readers /\ requests \in Seq(Requests) /\ reader.out \in Seq(Signals)
        /\ reader.pending \in Seq(Ids) /\ Len(reader.pending) \in Nat /\ reader.pendingPosn \in Nat
        /\ Distinct(reader.pending)
    <2>1. /\ reader \in Readers /\ requests \in Seq(Requests) /\ reader.out \in Seq(Signals)
          /\ reader.pending \in Seq(Ids)
      BY ReadTyped
    <2>2. Distinct(reader.pending)
      BY DEF InboxInv, ReaderInv, Local, Sorted
    <2> QED
      BY <2>1, <2>2, ReaderFields
  <1>2. Token /\ Received /\ (reader.overtaken \/ Unread)
    BY DEF ReadInv
  <1> DEFINE t == Tail(requests)
             c == Head(requests)
  <1>3. /\ ~(c.req = "delete" /\ c.id.place # 0) => WantedIds(t) = WantedIds(requests)
        /\ OneWanted(requests) => OneWanted(t)
        /\ OneTurn(requests) /\ c.req \in {"first", "next"} => Turns(t) = {}
        /\ c.req \in {"first", "next"} => Turns(requests) # {}
        /\ Has(requests, c.req)
    BY <1>1, CallsTail, Zenon
  <1> HIDE DEF t
  <1>4. /\ Turns(t) = {} /\ Turns(requests) # {} /\ Has(requests, "next")
        /\ WantedIds(t) = WantedIds(requests) /\ (OneWanted(requests) => OneWanted(t))
        /\ Turning(reader.out) = {} /\ ~reader.pendingFirstMessage /\ client.smsFetching
    BY <1>2, <1>3 DEF Token
  <1>5. t = requests'
    BY DEF t
  <1>6. reader' = [reader EXCEPT !.out = Append(reader.out, NextSignal(reader)),
                !.pendingPosn = IF reader.pendingPosn < Len(reader.pending) THEN reader.pendingPosn + 1 ELSE 0]
    BY <1>1, NextEffect
  <1>7. PICK x : x = NextSignal(reader)
    OBVIOUS
  <1>8. x \in Signals /\ Turn(x)
    BY <1>1, <1>7, SignalsTyped
  <1>9. /\ reader'.pending = reader.pending /\ reader'.at = reader.at
        /\ reader'.overtaken = reader.overtaken /\ reader'.dispatched = reader.dispatched
        /\ reader'.pendingFirstMessage = reader.pendingFirstMessage
        /\ reader'.out = Append(reader.out, x)
        /\ reader'.pendingPosn = IF reader.pendingPosn < Len(reader.pending) THEN reader.pendingPosn + 1 ELSE 0
    BY <1>1, <1>6, <1>7 DEF Readers
  <1> DEFINE out == Append(reader.out, x)
  <1>10. /\ Turning(out) = {Len(out)} /\ OneAnswered(out)
         /\ FetchedIds(out) = IF x.sig = "fetched" THEN {x.id} ELSE {}
         /\ out[Len(out)] = x
         /\ Told(reader.out, Len(reader.out)) => Told(out, Len(out))
    BY <1>1, <1>4, <1>8, TurnAdded, Zenon
  <1>11. reader'.out = out
    BY <1>9
  <1> HIDE DEF out
  <1>12. ~Has(t, "first") /\ ~Has(t, "next") /\ OneTurn(t) /\ FirstAfter(t)
    BY <1>4, NoTurns
  <1>13. Token'
    BY <1>4, <1>5, <1>9, <1>10, <1>11, <1>12 DEF Token
  <1>14. Received' /\ Active' = Active /\ Got' = Got /\ \A id : Removed(id)' <=> Removed(id)
    BY <1>2 DEF Received, Active, Got, Removed
  <1>15. SUFFICES ASSUME ~reader'.overtaken PROVE Unread'
    BY <1>13, <1>14 DEF ReadInv
  <1>16. DoomedOnce /\ AskedOnce /\ KnownOk /\ CacheStays /\ NoneTwice /\ Begins /\ AllKept
    BY <1>2, <1>9, <1>15 DEF Unread
  <1>17. Outstanding' = Outstanding /\ Got \subseteq Got'
    BY DEF Outstanding, Got
  <1>18. /\ \A id : Stays(id)' <=> Stays(id)
         /\ \A m : InFlight(m) => InFlight(m)'
         /\ DoomedOnce => DoomedOnce'
         /\ AllKept => AllKept'
    BY <1>9, <1>17, SameStore
  <1>19. CacheStays'
    BY <1>9, <1>16, <1>18 DEF CacheStays
  <1>20. AskedOnce'
    BY <1>4, <1>5, <1>16, <1>18 DEF AskedOnce
  <1>21. \A id : Alive(id)' <=> Alive(id)
    BY <1>4, <1>5, <1>18 DEF Alive
  <1>22. KnownOk'
    BY <1>14, <1>16, <1>21 DEF KnownOk
  <1>23. Begins'
    BY <1>4, <1>5, <1>9, <1>12, <1>14, <1>16 DEF Begins
  <1>24. InformedAll(client.sawNewMessage, reader.out) => Informed(client'.sawNewMessage, out, Len(out))
    BY <1>10 DEF InformedAll, Informed
  <1>25. CASE x.sig # "fetched"
    <2>1. FetchesOk'
      BY <1>25, <1>10, <1>11 DEF FetchesOk
    <2>2. NoneTwice'
      BY <1>25, <1>5, <1>10, <1>11, <1>12 DEF NoneTwice
    <2> QED
      BY <2>1, <2>2, <1>16, <1>18, <1>19, <1>20, <1>22, <1>23 DEF Unread
  <1>26. CASE x.sig = "fetched"
    <2>1. /\ reader.pendingPosn < Len(reader.pending)
          /\ x.id = reader.pending[reader.pendingPosn + 1]
      BY <1>26, <1>7 DEF NextSignal
    <2>2. PICK k \in DOMAIN reader.pending : k = reader.pendingPosn + 1
      BY <1>1, <2>1
    <2>3. k > reader.pendingPosn /\ reader'.pendingPosn = k
      BY <1>1, <1>9, <2>1, <2>2
    <2>4. PICK id : id = x.id
      OBVIOUS
    <2>5. id = reader.pending[k] /\ id \in ToSet(reader.pending) /\ id \in Ids
      <3>1. id = reader.pending[k]
        BY <2>1, <2>2, <2>4
      <3> QED
        BY <3>1, <1>1, SetOfSeq
    <2>6. id.place # 0 => Stays(id) /\ id \in Coming(reader)
      BY <1>16, <2>2, <2>3, <2>5 DEF CacheStays, Coming
    <2>7. Active \subseteq Ids /\ WantedIds(requests) \subseteq Ids
      BY ReadTyped
    <2>8. id.place # 0 /\ id \in Handled => InformedAll(client.sawNewMessage, reader.out)
      BY <1>4, <1>16, <2>6 DEF NoneTwice
    <2>9. id.place # 0 => Alive(id) \/ (Removed(id) /\ InformedAll(client.sawNewMessage, reader.out))
      <3>1. ASSUME id.place # 0, NEW y \in WantedIds(requests), y.place = id.place
            PROVE  Removed(id) /\ InformedAll(client.sawNewMessage, reader.out)
        <4>1. Stays(y) /\ Stays(id) /\ y \in Ids
          BY <3>1, <1>16, <2>6, <2>7 DEF AskedOnce
        <4>2. y = id
          BY <4>1, <3>1, <2>5, SameId
        <4>3. Removed(id)
          BY <4>2, <3>1, <1>4, <1>16 DEF Begins
        <4>4. id \in Handled
          BY <4>2, <3>1 DEF Handled
        <4> QED
          BY <4>3, <4>4, <3>1, <2>8
      <3> QED
        BY <3>1, <2>6 DEF Alive
    <2>10. id.place # 0 /\ id \in Active => InformedAll(client.sawNewMessage, reader.out)
      BY <2>8 DEF Handled
    <2>11. FetchesOk'
      <3>1. \A n : (InformedAll(client.sawNewMessage, reader.out) => n) => FetchedOk(id, n)'
        BY <2>9, <2>10, <1>14, <1>21 DEF FetchedOk
      <3> QED
        BY <3>1, <2>4, <1>10, <1>11, <1>24 DEF FetchesOk, FetchedOk
    <2>12. NoneTwice'
      <3>1. CASE InformedAll(client.sawNewMessage, reader.out)
        BY <3>1, <1>11, <1>24 DEF NoneTwice, InformedAll, Informed
      <3>2. CASE Coming(reader) \cap Handled = {}
        <4>1. Handled' \subseteq Handled \cup {id}
          BY <1>4, <1>5, <1>10, <1>11, <1>14, <1>26, <2>4 DEF Handled
        <4>2. Coming(reader') \subseteq Coming(reader)
          <5>1. \A l \in DOMAIN reader.pending : l > k => l > reader.pendingPosn
            BY <2>2, <2>3, <1>1
          <5> QED
            BY <5>1, <1>9, <2>3 DEF Coming
        <4>3. id \notin Coming(reader')
          <5>1. ASSUME NEW l \in DOMAIN reader.pending, l > k, reader.pending[l] = id
                PROVE  FALSE
            <6>1. reader.pending[l].msg = reader.pending[k].msg /\ k \in DOMAIN reader.pending
              BY <5>1, <2>2, <2>5
            <6>2. l = k
              BY <6>1, <1>1, Zenon DEF Distinct
            <6> QED
              BY <6>2, <5>1, <2>2, <1>1
          <5> QED
            BY <5>1, <1>9, <2>3 DEF Coming
        <4> QED
          BY <4>1, <4>2, <4>3, <3>2 DEF NoneTwice
      <3> QED
        BY <3>1, <3>2, <1>4, <1>16 DEF NoneTwice
    <2> QED
      BY <2>11, <2>12, <1>16, <1>18, <1>19, <1>20, <1>22, <1>23 DEF Unread
  <1> QED
    BY <1>25, <1>26

\* An identifier of the pseudo inbox is not on the SIM.
LEMMA NotWanted ==
  ASSUME NEW q \in Seq(Requests), q # <<>>, Head(q).req = "delete", Head(q).id.place = 0
  PROVE  SameCalls(q, Tail(q))
  <1> DEFINE t == Tail(q)
             c == Head(q)
  <1>1. /\ ~(c.req = "delete" /\ c.id.place # 0) => WantedIds(t) = WantedIds(q)
        /\ OneWanted(q) => OneWanted(t)
        /\ \A name : c.req # name => (Has(t, name) <=> Has(q, name))
        /\ OneTurn(q) => OneTurn(t)
        /\ c.req \notin {"first", "next"} => (Turns(t) = {} <=> Turns(q) = {})
        /\ FirstAfter(q) => FirstAfter(t)
    BY CallsTail, Zenon
  <1>2. c.req = "delete" /\ c.id.place = 0
    OBVIOUS
  <1> HIDE DEF t, c
  <1>3. SameCalls(q, t)
    BY <1>1, <1>2 DEF SameCalls
  <1> QED
    BY <1>3 DEF t

LEMMA WithoutComing ==
  ASSUME NEW r, NEW s, r.pending \in Seq(Ids), r.pendingPosn \in Nat, NEW S,
         s.pending = Without(r.pending, S), s.pendingPosn = r.pendingPosn
  PROVE  Coming(s) \subseteq Coming(r)
  <1>1. s.pending \in Seq(Ids)
    BY Withouts
  <1>2. ASSUME NEW k \in DOMAIN s.pending, k > s.pendingPosn, s.pending[k].place # 0
        PROVE  s.pending[k] \in Coming(r)
    <2>1. PICK j \in DOMAIN r.pending : k <= j /\ r.pending[j] = s.pending[k]
      BY WithoutOrder
    <2>2. j > r.pendingPosn
      <3>1. j \in Nat /\ k \in Nat
        BY <1>1, <2>1
      <3> QED
        BY <3>1, <1>2, <2>1
    <2> QED
      BY <2>1, <2>2, <1>2 DEF Coming
  <1> QED
    BY <1>2 DEF Coming

LEMMA OneStored ==
  ASSUME NEW id \in Ids
  PROVE  LET q == Deletions(<<id>>) IN
         /\ q \in Seq(Commands) /\ Lists(q) = {} /\ BeforeLists(q)
         /\ Doomed(q, FALSE) = IF id.place = 0 THEN {} ELSE {id.place}
         /\ OneEach(q, FALSE)
         /\ id.place = 0 => q = <<>> /\ Stored(<<id>>) = <<>>
         /\ id.place # 0 => Stored(<<id>>) # <<>>
         /\ ToSet(<<id>>) = {id}
  <1> DEFINE ids == <<id>>
             q   == Deletions(ids)
  <1>1. ids \in Seq(Ids) /\ ToSet(ids) = {id} /\ Distinct(ids)
    <2>1. ids \in Seq(Ids) /\ DOMAIN ids = {1} /\ ids[1] = id
      OBVIOUS
    <2> QED
      BY <2>1 DEF ToSet, Distinct
  <1> HIDE DEF ids
  <1>2. /\ q \in Seq(Commands) /\ Lists(q) = {}
        /\ Doomed(q, FALSE) = {x.place : x \in {y \in ToSet(ids) : y.place # 0}}
        /\ Distinct(ids) /\ (\A x, y \in ToSet(ids) : x.place = y.place /\ x.place # 0 => x.msg = y.msg)
               => OneEach(q, FALSE)
        /\ Stored(ids) = <<>> => NoDeletes(q) /\ q = <<>>
    BY <1>1, DeletionsOnce, Zenon
  <1>3. Stored(ids) \in Seq(StoredIds) /\ ToSet(Stored(ids)) = {x \in ToSet(ids) : x.place # 0}
    BY <1>1, StoredProperties
  <1>4. (Stored(ids) = <<>>) <=> (ToSet(Stored(ids)) = {})
    BY <1>3, SetOfSeq
  <1> HIDE DEF q
  <1>5. BeforeLists(q)
    BY <1>2 DEF BeforeLists, Lists
  <1>6. Doomed(q, FALSE) = IF id.place = 0 THEN {} ELSE {id.place}
    BY <1>1, <1>2
  <1>7. (id.place = 0 => q = <<>> /\ Stored(ids) = <<>>) /\ (id.place # 0 => Stored(ids) # <<>>)
    BY <1>1, <1>2, <1>3, <1>4
  <1>8. OneEach(q, FALSE)
    BY <1>1, <1>2
  <1> QED
    BY <1>1, <1>2, <1>5, <1>6, <1>7, <1>8 DEF q, ids

LEMMA ServeDelete ==
  ASSUME InboxInv, InboxInv', ReadInv, requests # <<>>, Head(requests).req = "delete",
         reader' = DeleteMessages(reader, <<Head(requests).id>>), requests' = Tail(requests),
         UNCHANGED <<modem, rx, arrived, failures, client>>
  PROVE  ReadInv'
  <1>1. /\ reader \in Readers /\ requests \in Seq(Requests) /\ reader.out \in Seq(Signals)
        /\ reader.pending \in Seq(Ids) /\ reader.pendingPosn \in Nat /\ reader.at \in Seq(Commands)
        /\ reader.overtaken \in BOOLEAN
    BY ReadTyped, ReaderFields
  <1>2. Token /\ Received /\ (reader.overtaken \/ Unread)
    BY DEF ReadInv
  <1>3. PICK id \in Ids : id = Head(requests).id
    <2>1. Head(requests) \in Requests
      BY <1>1
    <2> QED
      BY <2>1 DEF Requests
  <1>4. PICK q : q = Deletions(<<id>>)
    OBVIOUS
  <1>5. /\ q \in Seq(Commands) /\ Lists(q) = {} /\ BeforeLists(q)
        /\ Doomed(q, FALSE) = (IF id.place = 0 THEN {} ELSE {id.place})
        /\ OneEach(q, FALSE)
        /\ id.place = 0 => q = <<>> /\ Stored(<<id>>) = <<>>
        /\ id.place # 0 => Stored(<<id>>) # <<>>
        /\ ToSet(<<id>>) = {id}
    BY <1>4, OneStored
  <1>6. /\ reader'.pending = Without(reader.pending, {id}) /\ reader'.at = reader.at \o q
        /\ reader'.overtaken = (reader.overtaken \/ (Stored(<<id>>) # <<>> /\ Listing(reader)))
        /\ reader'.dispatched = reader.dispatched /\ reader'.out = reader.out
        /\ reader'.pendingPosn = reader.pendingPosn
        /\ reader'.pendingFirstMessage = reader.pendingFirstMessage
    <2>1. <<id>> \in Seq(Ids) /\ reader' = DeleteMessages(reader, <<id>>)
      BY <1>3
    <2>2. reader' = [reader EXCEPT !.pending = Without(reader.pending, ToSet(<<id>>)),
                         !.pseudoInbox = Without(reader.pseudoInbox, ToSet(<<id>>)),
                         !.overtaken = reader.overtaken \/ (Stored(<<id>>) # <<>> /\ Listing(reader)),
                         !.used = UsedWithout(reader.used, Len(Stored(<<id>>))),
                         !.at = reader.at \o Deletions(<<id>>)]
      BY <1>1, <2>1, DeleteEffect
    <2> QED
      BY <2>2, <1>1, <1>4, <1>5 DEF Readers
  <1>7. Coming(reader') \subseteq Coming(reader)
    BY <1>1, <1>6, WithoutComing
  <1>8. ToSet(reader'.pending) = ToSet(reader.pending) \ {id}
    BY <1>1, <1>6, Withouts
  <1>9. Outstanding' = Outstanding /\ Got' = Got /\ Got \subseteq Got' /\ SameClient
    BY DEF Outstanding, Got, SameClient
  <1>10. SameTurns(client.sawNewMessage, reader.out, client'.sawNewMessage, reader'.out)
    BY <1>1, <1>6, TurnsKept
  <1>11. CASE id.place = 0
    <2>1. reader'.at = reader.at /\ reader'.overtaken = reader.overtaken
      BY <1>1, <1>5, <1>6, <1>11, EmptyConcat
    <2>2. SameCalls(requests, requests')
      BY <1>1, <1>3, <1>11, NotWanted
    <2>3. /\ \A x : Stays(x)' <=> Stays(x)
          /\ \A m : InFlight(m) => InFlight(m)'
          /\ DoomedOnce => DoomedOnce'
          /\ AllKept => AllKept'
      BY <1>6, <1>9, <2>1, SameStore
    <2>4. CacheStays => CacheStays'
      BY <1>8, <2>3 DEF CacheStays
    <2> QED
      BY <1>6, <1>7, <1>9, <1>10, <2>1, <2>2, <2>3, <2>4, QuietStep DEF Unread
  <1>12. CASE id.place # 0
    <2> DEFINE t == Tail(requests)
               c == Head(requests)
    <2>1. /\ WantedIds(t) \subseteq WantedIds(requests)
          /\ c.req = "delete" /\ c.id.place # 0 => c.id \in WantedIds(requests)
          /\ OneWanted(requests) => OneWanted(t)
          /\ OneWanted(requests) /\ c.req = "delete" /\ c.id.place # 0 =>
                \A x \in WantedIds(t) : x.place # c.id.place
          /\ \A name : c.req # name => (Has(t, name) <=> Has(requests, name))
          /\ OneTurn(requests) => OneTurn(t)
          /\ c.req \notin {"first", "next"} => (Turns(t) = {} <=> Turns(requests) = {})
          /\ FirstAfter(requests) => FirstAfter(t)
      BY <1>1, CallsTail, Zenon
    <2>2. c.req = "delete" /\ c.id = id /\ t = requests'
      BY <1>3
    <2> HIDE DEF t, c
    <2>3. /\ WantedIds(requests') \subseteq WantedIds(requests)
          /\ id \in WantedIds(requests)
          /\ OneWanted(requests) => OneWanted(requests') /\ \A x \in WantedIds(requests') : x.place # id.place
          /\ Has(requests', "first") <=> Has(requests, "first")
          /\ Has(requests', "next") <=> Has(requests, "next")
          /\ OneTurn(requests) => OneTurn(requests')
          /\ Turns(requests') = {} <=> Turns(requests) = {}
          /\ FirstAfter(requests) => FirstAfter(requests')
      BY <2>1, <2>2, <1>12
    <2>4. Token'
      BY <1>2, <1>6, <2>3 DEF Token
    <2>5. Received' /\ Active' = Active /\ \A x : Removed(x)' <=> Removed(x)
      BY <1>2 DEF Received, Active, Got, Removed
    <2>6. SUFFICES ASSUME ~reader'.overtaken PROVE Unread'
      BY <2>4, <2>5 DEF ReadInv
    <2>7. ~reader.overtaken /\ ~Listing(reader)
      BY <2>6, <1>5, <1>6, <1>12
    <2>8. /\ DoomedOnce /\ AskedOnce /\ KnownOk /\ FetchesOk /\ CacheStays /\ NoneTwice
          /\ Begins /\ AllKept
      BY <1>2, <2>7 DEF Unread
    <2>9. Stays(id) /\ InFlight(id.msg)
      BY <2>3, <2>8 DEF AskedOnce
    <2>10. PICK busy \in BOOLEAN : busy = Outstanding
      BY Busy
    <2>11. PICK at \in Seq(Commands) : at = reader.at
      BY <1>1
    <2>12. busy = Outstanding' /\ (busy => at # <<>>) /\ Lists(at) = {}
      <3>1. Lists(at) = {}
        BY <2>7, <2>11 DEF Lists, Listing
      <3> QED
        BY <3>1, <1>9, <2>10, <2>11, Busy
    <2>27. q \in Seq(Commands) /\ (busy => at # <<>>)
      BY <1>5, <2>12
    <2> DEFINE u == at \o q
    <2>13. /\ u \in Seq(Commands)
           /\ Doomed(u, busy) = Doomed(at, busy) \cup Doomed(q, FALSE)
           /\ /\ OneEach(at, busy) /\ OneEach(q, FALSE)
              /\ Doomed(at, busy) \cap Doomed(q, FALSE) = {}
              => OneEach(u, busy)
           /\ NoDeletes(q) /\ OneEach(at, busy) => OneEach(u, busy)
           /\ BeforeLists(at) /\ NoDeletes(q) => BeforeLists(u)
           /\ Lists(at) = {} /\ Lists(q) = {} => BeforeLists(u)
           /\ BeforeLists(at) /\ BeforeLists(q) /\ Lists(at) = {} => BeforeLists(u)
           /\ NoDeletes(q) => Doomed(u, busy) = Doomed(at, busy)
      BY <2>27, QueueMore
    <2>14. u = reader'.at
      BY <1>6, <2>11
    <2> HIDE DEF u
    <2>15. Doomed(reader.at, Outstanding)' = Doomed(reader.at, Outstanding) \cup {id.place}
      BY <2>10, <2>11, <2>12, <2>13, <2>14, <1>5, <1>12
    <2>16. \A x : x.place # id.place => (Stays(x)' <=> Stays(x))
      BY <2>15 DEF Stays
    <2>17. \A m : InFlight(m) => InFlight(m)'
      BY <1>6, <1>9, InFlightKept
    <2>18. AllKept'
      BY <2>8, <2>17, KeptSame
    <2>19. DoomedOnce'
      <3>1. OneEach(reader.at, Outstanding)' /\ BeforeLists(reader.at)'
        <4>1. OneEach(at, busy) /\ id.place \notin Doomed(at, busy)
          BY <2>8, <2>9, <2>10, <2>11 DEF DoomedOnce, Stays
        <4> QED
          BY <4>1, <2>12, <2>13, <2>14, <1>5, <1>12
      <3>2. id.place \in Places /\ modem.sim[id.place] # 0 /\ InFlight(modem.sim[id.place])
        <4>1. modem.sim[id.place] = id.msg
          BY <2>9 DEF Stays
        <4>2. id.place \in Places /\ id.msg # 0
          BY <1>12, MessagesAssumption, SlotsAssumption DEF Ids, Places, Msgs
        <4> QED
          BY <4>1, <4>2, <2>9
      <3> QED
        BY <3>1, <3>2, <2>8, <2>15, <2>17 DEF DoomedOnce
    <2>20. AskedOnce'
      <3>1. OneWanted(requests') /\ \A x \in WantedIds(requests') : x.place # id.place
        BY <2>3, <2>8 DEF AskedOnce
      <3> QED
        BY <3>1, <2>3, <2>8, <2>16, <2>17 DEF AskedOnce
    <2>21. \A x : Alive(x) => Alive(x)'
      BY <2>3, <2>16 DEF Alive
    <2>22. KnownOk'
      BY <2>5, <2>8, <2>21 DEF KnownOk
    <2>23. FetchesOk'
      <3>1. ASSUME NEW x, NEW n, FetchedOk(x, n) PROVE FetchedOk(x, n)'
        BY <3>1, <2>5, <2>21 DEF FetchedOk
      <3> QED
        BY <3>1, <2>8, <1>6 DEF FetchesOk, FetchedOk
    <2>24. CacheStays'
      <3>1. SUFFICES ASSUME NEW x \in ToSet(reader.pending), x # id, x.place # 0
                     PROVE  Stays(x)'
        BY <1>8 DEF CacheStays
      <3>2. Stays(x) /\ x \in Ids
        BY <3>1, <2>8, ReadTyped DEF CacheStays
      <3>3. x.place # id.place
        BY <3>1, <3>2, <2>9, SameId
      <3> QED
        BY <3>2, <3>3, <2>16
    <2>25. NoneTwice'
      <3>1. Handled' \subseteq Handled
        BY <1>6, <2>3, <2>5 DEF Handled
      <3> QED
        BY <3>1, <2>3, <2>8, <1>6, <1>7 DEF NoneTwice
    <2>26. Begins'
      BY <2>3, <2>5, <2>8, <1>6 DEF Begins
    <2> QED
      BY <2>18, <2>19, <2>20, <2>22, <2>23, <2>24, <2>25, <2>26 DEF Unread
  <1> QED
    BY <1>11, <1>12

LEMMA ServeReads ==
  ASSUME InboxInv, InboxInv', ReadInv, ServeRequest
  PROVE  ReadInv'
  <1>1. /\ requests # <<>> /\ requests' = Tail(requests)
        /\ UNCHANGED <<modem, rx, arrived, failures, client>>
        /\ Head(requests).req = "check" => reader' = Check(reader, FALSE)
        /\ Head(requests).req = "first" => reader' = FirstMessage(reader)
        /\ Head(requests).req = "next" => reader' = NextMessage(reader)
        /\ Head(requests).req = "delete" => reader' = DeleteMessages(reader, <<Head(requests).id>>)
    BY DEF ServeRequest
  <1>2. requests \in Seq(Requests) /\ reader \in Readers /\ Sorted(reader)
    BY ReadTyped DEF InboxInv, ReaderInv, Local
  <1>3. Head(requests).req \in {"check", "first", "next", "delete"}
    <2>1. Head(requests) \in Requests
      BY <1>1, <1>2
    <2> QED
      BY <2>1 DEF Requests
  <1>4. CASE Head(requests).req = "check"
    <2>1. Quietly(reader, reader') /\ reader'.pendingFirstMessage = reader.pendingFirstMessage
      BY <1>1, <1>2, <1>4, QuietlyCheck
    <2>2. SameCalls(requests, requests')
      BY <1>1, <1>2, <1>4, CallsSame
    <2>3. Outstanding' = Outstanding
      BY <1>1 DEF Outstanding
    <2> QED
      BY <1>1, <2>1, <2>2, <2>3, QuietlyRead
  <1> QED
    BY <1>1, <1>3, <1>4, ServeFirst, ServeNext, ServeDelete

-----------------------------------------------------------------------------
\* A signal of the reader arrives.

LEMMA Taken ==
  ASSUME InboxInv, InboxInv', reader.out # <<>>, reader' = [reader EXCEPT !.out = Tail(@)],
         UNCHANGED <<modem, rx, arrived, failures>>, Got \subseteq Got'
  PROVE  /\ reader'.out = Tail(reader.out) /\ reader.out \in Seq(Signals)
         /\ Head(reader.out) \in Signals
         /\ reader'.overtaken = reader.overtaken
         /\ reader'.pendingFirstMessage = reader.pendingFirstMessage
         /\ Coming(reader') = Coming(reader)
         /\ \A id : Stays(id)' <=> Stays(id)
         /\ \A m : InFlight(m) => InFlight(m)'
         /\ DoomedOnce => DoomedOnce'
         /\ AllKept => AllKept'
         /\ CacheStays => CacheStays'
  <1>1. reader \in Readers /\ reader.out \in Seq(Signals)
    BY ReadTyped
  <1>2. /\ reader'.out = Tail(reader.out) /\ reader'.overtaken = reader.overtaken
        /\ reader'.pendingFirstMessage = reader.pendingFirstMessage
        /\ reader'.pending = reader.pending /\ reader'.pendingPosn = reader.pendingPosn
        /\ reader'.at = reader.at /\ reader'.dispatched = reader.dispatched
    BY <1>1 DEF Readers
  <1>3. Outstanding' = Outstanding
    BY DEF Outstanding
  <1>4. /\ \A id : Stays(id)' <=> Stays(id)
        /\ \A m : InFlight(m) => InFlight(m)'
        /\ DoomedOnce => DoomedOnce'
        /\ AllKept => AllKept'
    BY <1>2, <1>3, SameStore
  <1>5. CacheStays => CacheStays'
    BY <1>2, <1>4 DEF CacheStays
  <1>6. Coming(reader') = Coming(reader)
    BY <1>2 DEF Coming
  <1>7. Head(reader.out) \in Signals
    BY <1>1, TailSet
  <1> QED
    BY <1>1, <1>2, <1>4, <1>5, <1>6, <1>7

\* readyChanged(), a count of 0 or a count while the list is being read
LEMMA QuietTaken ==
  ASSUME InboxInv, InboxInv', ReadInv, reader.out # <<>>, reader' = [reader EXCEPT !.out = Tail(@)],
         UNCHANGED <<modem, rx, arrived, failures>>, Quiet(Head(reader.out)),
         SameClient, client'.smsFetching = client.smsFetching,
         client.sawNewMessage => client'.sawNewMessage,
         Head(reader.out).sig = "count" /\ Head(reader.out).n # 0 => client'.sawNewMessage,
         SameCalls(requests, requests')
  PROVE  ReadInv'
  <1>1. Got \subseteq Got'
    BY SameGot
  <1>2. /\ reader'.out = Tail(reader.out) /\ reader.out \in Seq(Signals)
        /\ reader'.overtaken = reader.overtaken
        /\ reader'.pendingFirstMessage = reader.pendingFirstMessage
        /\ Coming(reader') = Coming(reader)
        /\ \A id : Stays(id)' <=> Stays(id)
        /\ \A m : InFlight(m) => InFlight(m)'
        /\ DoomedOnce => DoomedOnce'
        /\ AllKept => AllKept'
        /\ CacheStays => CacheStays'
    BY <1>1, Taken
  <1>3. PICK out \in Seq(Signals) : out = reader.out
    BY <1>2
  <1>4. PICK more : more = client'.sawNewMessage
    OBVIOUS
  <1>5. PICK saw : saw = client.sawNewMessage
    OBVIOUS
  <1>6. out # <<>> /\ (saw => more) /\ (Head(out).sig = "count" /\ Head(out).n # 0 => more) /\ Quiet(Head(out))
    BY <1>3, <1>4, <1>5
  <1>7. SameTurns(saw, out, more, Tail(out))
    <2> DEFINE t == Tail(out)
    <2>1. /\ Quiet(Head(out)) => SameTurns(saw, out, more, t)
          /\ OneAnswered(out) /\ Turn(Head(out)) => Turning(t) = {} /\ Turning(out) = {1} /\ ~Told(out, 1)
          /\ InformedAll(saw, out) => InformedAll(more, t)
          /\ Head(out) = out[1] /\ 1 \in DOMAIN out
      BY <1>6, OutTail, Zenon
    <2> HIDE DEF t
    <2> QED
      BY <2>1, <1>6 DEF t
  <1>8. SameTurns(client.sawNewMessage, reader.out, client'.sawNewMessage, reader'.out)
    BY <1>2, <1>3, <1>4, <1>5, <1>7
  <1> QED
    BY <1>2, <1>8, QuietStep DEF Unread

LEMMA OneCall ==
  \A name \in {"check", "first", "next"} :
     /\ Call(name) \in Seq(Requests)
     /\ WantedIds(Call(name)) = {} /\ Wanted(Call(name)) = {}
     /\ OneTurn(Call(name)) /\ OneWanted(Call(name)) /\ FirstAfter(Call(name))
     /\ \A other : Has(Call(name), other) <=> other = name
     /\ Turns(Call(name)) = {} <=> name = "check"
  <1>1. SUFFICES ASSUME NEW name \in {"check", "first", "next"}
                 PROVE  /\ Call(name) \in Seq(Requests)
                        /\ WantedIds(Call(name)) = {} /\ Wanted(Call(name)) = {}
                        /\ OneTurn(Call(name)) /\ OneWanted(Call(name)) /\ FirstAfter(Call(name))
                        /\ \A other : Has(Call(name), other) <=> other = name
                        /\ Turns(Call(name)) = {} <=> name = "check"
    OBVIOUS
  <1> DEFINE q == Call(name)
  <1>2. q \in Seq(Requests) /\ DOMAIN q = {1} /\ q[1].req = name
    BY Calls DEF Call
  <1> HIDE DEF q
  <1>3. Wanted(q) = {} /\ WantedIds(q) = {}
    BY <1>2 DEF Wanted, WantedIds
  <1>4. OneTurn(q) /\ OneWanted(q) /\ FirstAfter(q)
    BY <1>2, <1>3 DEF OneTurn, OneWanted, FirstAfter, Turns
  <1>5. (\A other : Has(q, other) <=> other = name) /\ (Turns(q) = {} <=> name = "check")
    BY <1>2 DEF Has, Turns
  <1> QED
    BY <1>2, <1>3, <1>4, <1>5 DEF q

\* The calls after one more
LEMMA CallAdded ==
  ASSUME requests \in Seq(Requests), NEW name \in {"check", "first", "next"}, Ask(Call(name))
  PROVE  /\ WantedIds(requests') = WantedIds(requests)
         /\ \A other : Has(requests', other) <=> Has(requests, other) \/ other = name
         /\ Turns(requests') = {} <=> Turns(requests) = {} /\ name = "check"
         /\ OneTurn(requests) /\ (Turns(requests) = {} \/ name = "check") => OneTurn(requests')
         /\ OneWanted(requests) => OneWanted(requests')
         /\ FirstAfter(requests) => FirstAfter(requests')
  <1>1. PICK q \in Seq(Requests) : q = requests
    OBVIOUS
  <1>2. PICK s : s = Call(name)
    OBVIOUS
  <1>3. /\ s \in Seq(Requests) /\ WantedIds(s) = {} /\ Wanted(s) = {}
        /\ OneTurn(s) /\ OneWanted(s) /\ FirstAfter(s)
        /\ \A other : Has(s, other) <=> other = name
        /\ Turns(s) = {} <=> name = "check"
    BY <1>2, OneCall
  <1> DEFINE u == q \o s
  <1>4. s \in Seq(Requests)
    BY <1>3
  <1>5. /\ WantedIds(u) = WantedIds(q) \cup WantedIds(s)
        /\ \A other : Has(u, other) <=> Has(q, other) \/ Has(s, other)
        /\ Turns(u) = {} <=> Turns(q) = {} /\ Turns(s) = {}
        /\ OneTurn(q) /\ OneTurn(s) /\ (Turns(q) = {} \/ Turns(s) = {}) => OneTurn(u)
        /\ /\ OneWanted(q) /\ OneWanted(s)
           /\ \A x \in WantedIds(q), y \in WantedIds(s) : x.place # y.place
           => OneWanted(u)
        /\ /\ FirstAfter(q) /\ FirstAfter(s)
           /\ Wanted(s) = {} \/ ~Has(q, "first")
           => FirstAfter(u)
    BY <1>4, CallsMore, Zenon
  <1>6. u = requests'
    BY <1>1, <1>2 DEF Ask
  <1> HIDE DEF u
  <1> QED
    BY <1>1, <1>3, <1>5, <1>6

\* messageCount(): the list is begun.
LEMMA BeginTaken ==
  ASSUME InboxInv, InboxInv', ReadInv, reader.out # <<>>, reader' = [reader EXCEPT !.out = Tail(@)],
         UNCHANGED <<modem, rx, arrived, failures>>, Quiet(Head(reader.out)), ~client.smsFetching,
         client' = [client EXCEPT !.smsFetching = TRUE, !.sawNewMessage = FALSE, !.activeIds = <<>>],
         Ask(Call("first"))
  PROVE  ReadInv'
  <1>1. client \in Clients /\ requests \in Seq(Requests) /\ <<>> \in Seq(Ids)
    BY ReadTyped
  <1>2. /\ client'.smsFetching /\ client'.activeIds = <<>>
        /\ client'.retrievedIds = client.retrievedIds
        /\ client'.retrievedMessages = client.retrievedMessages
        /\ client'.mailbox = client.mailbox /\ client'.received = client.received
    BY <1>1 DEF Clients
  <1>3. Got' = Got /\ Got \subseteq Got' /\ Active' = {}
    BY <1>2 DEF Got, Active, ToSet
  <1>4. /\ reader'.out = Tail(reader.out) /\ reader.out \in Seq(Signals)
        /\ reader'.overtaken = reader.overtaken
        /\ reader'.pendingFirstMessage = reader.pendingFirstMessage
        /\ \A id : Stays(id)' <=> Stays(id)
        /\ \A m : InFlight(m) => InFlight(m)'
        /\ DoomedOnce => DoomedOnce'
        /\ AllKept => AllKept'
        /\ CacheStays => CacheStays'
    BY <1>3, Taken
  <1>5. Token /\ Received /\ (reader.overtaken \/ Unread)
    BY DEF ReadInv
  <1>6. /\ Turns(requests) = {} /\ Turning(reader.out) = {} /\ ~reader.pendingFirstMessage
        /\ OneAnswered(reader.out) /\ OneTurn(requests)
    BY <1>5 DEF Token
  <1>7. Turning(reader'.out) = {} /\ OneAnswered(reader'.out) /\ FetchedIds(reader'.out) = {}
    <2>1. PICK out \in Seq(Signals) : out = reader.out
      BY <1>4
    <2> DEFINE t == Tail(out)
    <2>2. out # <<>>
      BY <2>1
    <2>3. /\ Quiet(Head(out)) => SameTurns(FALSE, out, TRUE, t)
          /\ OneAnswered(out) /\ Turn(Head(out)) => Turning(t) = {} /\ Turning(out) = {1} /\ ~Told(out, 1)
          /\ InformedAll(FALSE, out) => InformedAll(TRUE, t)
          /\ Head(out) = out[1] /\ 1 \in DOMAIN out
      BY <2>2, OutTail, Zenon
    <2>4. t = reader'.out
      BY <2>1, <1>4
    <2> HIDE DEF t
    <2>5. SameTurns(FALSE, out, TRUE, t)
      BY <2>1, <2>3
    <2>6. Turning(t) = {} /\ OneAnswered(t)
      BY <2>1, <2>5, <1>6 DEF SameTurns
    <2> QED
      BY <2>4, <2>6, FetchedTurning
  <1>8. /\ WantedIds(requests') = WantedIds(requests)
        /\ Has(requests', "next") <=> Has(requests, "next")
        /\ Turns(requests') # {} /\ OneTurn(requests')
        /\ OneWanted(requests) => OneWanted(requests')
        /\ FirstAfter(requests) => FirstAfter(requests')
    BY <1>1, <1>6, CallAdded
  <1>9. ~Has(requests', "next")
    BY <1>6, <1>8, NoTurns
  <1>10. Token'
    BY <1>2, <1>4, <1>6, <1>7, <1>8 DEF Token
  <1>11. Received'
    BY <1>2, <1>3, <1>5 DEF Received
  <1>12. SUFFICES ASSUME ~reader'.overtaken PROVE Unread'
    BY <1>10, <1>11 DEF ReadInv
  <1>13. DoomedOnce /\ AskedOnce /\ CacheStays /\ Begins /\ AllKept
    BY <1>4, <1>5, <1>12 DEF Unread
  <1>14. AskedOnce'
    BY <1>4, <1>8, <1>13 DEF AskedOnce
  <1>15. KnownOk' /\ FetchesOk' /\ NoneTwice'
    BY <1>3, <1>7, <1>9 DEF KnownOk, FetchesOk, NoneTwice
  <1>16. Begins'
    BY <1>2, <1>4, <1>6, <1>7, <1>8, <1>9, <1>13 DEF Begins
  <1> QED
    BY <1>4, <1>13, <1>14, <1>15, <1>16 DEF Unread

\* The answer that arrives is the only one.
LEMMA TurnTaken ==
  ASSUME InboxInv, ReadInv, reader.out # <<>>, Turn(Head(reader.out)), reader'.out = Tail(reader.out)
  PROVE  /\ Turning(reader.out) = {1} /\ ~Told(reader.out, 1) /\ Head(reader.out) = reader.out[1]
         /\ Turning(reader'.out) = {} /\ OneAnswered(reader'.out) /\ FetchedIds(reader'.out) = {}
         /\ Turns(requests) = {} /\ ~reader.pendingFirstMessage /\ client.smsFetching
         /\ OneTurn(requests) /\ ~Has(requests, "first") /\ ~Has(requests, "next")
         /\ \A saw : InformedAll(saw, reader.out) => InformedAll(saw, reader'.out) \/ Told(reader.out, 1)
  <1>1. PICK out \in Seq(Signals) : out = reader.out
    BY ReadTyped
  <1> DEFINE t == Tail(out)
  <1>2. out # <<>> /\ Turn(Head(out)) /\ Head(out).sig # "count"
    BY <1>1 DEF Turn
  <1>3. ASSUME NEW saw
        PROVE  /\ Quiet(Head(out)) => SameTurns(saw, out, saw, t)
               /\ OneAnswered(out) /\ Turn(Head(out)) => Turning(t) = {} /\ Turning(out) = {1} /\ ~Told(out, 1)
               /\ InformedAll(saw, out) => InformedAll(saw, t)
               /\ Head(out) = out[1] /\ 1 \in DOMAIN out
    BY <1>2, OutTail
  <1>4. t = reader'.out
    BY <1>1
  <1> HIDE DEF t
  <1>5. OneAnswered(out)
    BY <1>1 DEF ReadInv, Token
  <1>6. Turning(out) = {1} /\ Turning(t) = {} /\ ~Told(out, 1) /\ Head(out) = out[1]
    BY <1>2, <1>3, <1>5
  <1>7. OneAnswered(t) /\ FetchedIds(t) = {}
    BY <1>6, FetchedTurning DEF OneAnswered
  <1>8. Turns(requests) = {} /\ ~reader.pendingFirstMessage /\ client.smsFetching
    BY <1>1, <1>6 DEF ReadInv, Token
  <1> QED
    BY <1>1, <1>3, <1>4, <1>6, <1>7, <1>8, NoTurns

\* fetched(), with a message
LEMMA FetchedTaken ==
  ASSUME InboxInv, InboxInv', ReadInv, reader.out # <<>>, reader' = [reader EXCEPT !.out = Tail(@)],
         UNCHANGED <<modem, rx, arrived, failures>>, Head(reader.out).sig = "fetched",
         Fetched(Head(reader.out).id)
  PROVE  ReadInv'
  <1>1. PICK id : id = Head(reader.out).id
    OBVIOUS
  <1>2. /\ client \in Clients /\ requests \in Seq(Requests) /\ client.activeIds \in Seq(Ids)
        /\ client.retrievedMessages \in Seq(Ids) /\ Head(reader.out) \in Signals
        /\ reader \in Readers /\ client.retrievedIds \in SUBSET Ids /\ client.mailbox \in SUBSET Ids
    <2>1. /\ client \in Clients /\ requests \in Seq(Requests) /\ client.activeIds \in Seq(Ids)
          /\ client.retrievedMessages \in Seq(Ids) /\ reader.out \in Seq(Signals) /\ reader \in Readers
      BY ReadTyped
    <2> QED
      BY <2>1, TailSet DEF Clients
  <1>3. id \in Ids
    BY <1>1, <1>2 DEF Signals
  <1>4. Token /\ Received /\ (reader.overtaken \/ Unread)
    BY DEF ReadInv
  <1> DEFINE known == RetrievedIds(client)
             new   == client.retrievedMessages
             more  == IF id \in known THEN new ELSE Append(new, id)
             all   == known \cup {id}
  <1>5. /\ client' = LET c == [client EXCEPT !.activeIds = Append(client.activeIds, id),
                                             !.retrievedIds = known]
                     IN IF id \in c.retrievedIds THEN c
                        ELSE [c EXCEPT !.retrievedIds = c.retrievedIds \cup {id},
                                       !.retrievedMessages = Append(c.retrievedMessages, id)]
        /\ Ask(Call("next"))
    BY <1>1 DEF Fetched
  <1>6. /\ client'.activeIds = Append(client.activeIds, id)
        /\ client'.retrievedIds = all
        /\ client'.retrievedMessages = more
        /\ client'.mailbox = client.mailbox /\ client'.received = client.received
        /\ client'.smsFetching = client.smsFetching /\ client'.sawNewMessage = client.sawNewMessage
    <2>1. CASE id \in known
      <3>1. client' = [client EXCEPT !.activeIds = Append(client.activeIds, id), !.retrievedIds = known]
        BY <2>1, <1>5, <1>2 DEF Clients
      <3>2. known = all /\ more = new
        BY <2>1
      <3> HIDE DEF known, all, more
      <3> QED
        BY <3>1, <3>2, <1>2 DEF Clients
    <2>2. CASE id \notin known
      <3>1. client' = [client EXCEPT !.activeIds = Append(client.activeIds, id), !.retrievedIds = all,
                                     !.retrievedMessages = Append(new, id)]
        BY <2>2, <1>5, <1>2 DEF Clients
      <3>2. more = Append(new, id)
        BY <2>2
      <3> HIDE DEF known, all, more
      <3> QED
        BY <3>1, <3>2, <1>2 DEF Clients
    <2> QED
      BY <2>1, <2>2
  <1>7. Active' = Active \cup {id}
    BY <1>2, <1>3, <1>6, AppendSet DEF Active
  <1>8. ToSet(more) = ToSet(new) \cup (IF id \in known THEN {} ELSE {id})
    BY <1>2, <1>3, AppendSet
  <1>9. Got' = Got \cup (IF id \in known THEN {} ELSE {id})
    BY <1>6, <1>8 DEF Got
  <1>10. known = IF client.retrievedIds = {} THEN client.mailbox ELSE client.retrievedIds
    BY DEF RetrievedIds
  <1> HIDE DEF known, more, all
  <1>11. /\ reader'.out = Tail(reader.out) /\ reader'.overtaken = reader.overtaken
         /\ reader'.pendingFirstMessage = reader.pendingFirstMessage
         /\ Coming(reader') = Coming(reader)
         /\ \A x : Stays(x)' <=> Stays(x)
         /\ \A m : InFlight(m) => InFlight(m)'
         /\ DoomedOnce => DoomedOnce'
         /\ AllKept => AllKept'
         /\ CacheStays => CacheStays'
    BY <1>9, Taken
  <1>12. /\ Turning(reader.out) = {1} /\ ~Told(reader.out, 1) /\ Head(reader.out) = reader.out[1]
         /\ Turning(reader'.out) = {} /\ OneAnswered(reader'.out) /\ FetchedIds(reader'.out) = {}
         /\ Turns(requests) = {} /\ ~reader.pendingFirstMessage /\ client.smsFetching
         /\ OneTurn(requests) /\ ~Has(requests, "first") /\ ~Has(requests, "next")
         /\ \A saw : InformedAll(saw, reader.out) => InformedAll(saw, reader'.out) \/ Told(reader.out, 1)
    BY <1>11, TurnTaken DEF Turn
  <1>13. /\ WantedIds(requests') = WantedIds(requests)
         /\ ~Has(requests', "first")
         /\ Turns(requests') # {} /\ OneTurn(requests')
         /\ OneWanted(requests) => OneWanted(requests')
         /\ FirstAfter(requests) => FirstAfter(requests')
    BY <1>2, <1>5, <1>12, CallAdded
  <1>14. Token'
    BY <1>6, <1>11, <1>12, <1>13 DEF Token
  <1>15. Received'
    <2>1. known \subseteq Got
      BY <1>4, <1>10 DEF Received, Got
    <2>2. all \subseteq Got' /\ Active' \subseteq Got'
      BY <1>4, <1>7, <1>9, <2>1 DEF Received, all
    <2>3. Active' \subseteq all
      <3>1. Active \subseteq client.retrievedIds
        BY <1>4, <1>12 DEF Received
      <3>2. Active \subseteq known
        BY <3>1, <1>10
      <3> QED
        BY <3>2, <1>7 DEF all
    <2> QED
      BY <2>2, <2>3, <1>4, <1>6 DEF Received
  <1>16. SUFFICES ASSUME ~reader'.overtaken PROVE Unread'
    BY <1>14, <1>15 DEF ReadInv
  <1>17. /\ DoomedOnce /\ AskedOnce /\ KnownOk /\ FetchesOk /\ CacheStays /\ NoneTwice
         /\ Begins /\ AllKept
    BY <1>4, <1>11, <1>16 DEF Unread
  <1>18. \A x : Removed(x) => Removed(x)'
    <2>1. SUFFICES ASSUME NEW x, Removed(x) PROVE Removed(x)'
      OBVIOUS
    <2>2. x \in client.retrievedIds /\ x \notin ToSet(new) /\ x \notin client.mailbox
      BY <2>1 DEF Removed
    <2>3. known = client.retrievedIds
      BY <2>2, <1>10
    <2>4. x \notin ToSet(more) /\ x \in all
      BY <2>2, <2>3, <1>8 DEF all
    <2> QED
      BY <2>2, <2>4, <1>6 DEF Removed
  <1>19. \A x : Alive(x) => Alive(x)'
    BY <1>11, <1>13 DEF Alive
  <1>20. id \in FetchedIds(reader.out) /\ FetchedOk(id, client.sawNewMessage)
    <2>1. reader.out[1].sig = "fetched" /\ reader.out[1].id = id /\ 1 \in Turning(reader.out)
      BY <1>1, <1>12
    <2>2. FetchedOk(id, Informed(client.sawNewMessage, reader.out, 1)) /\ id \in FetchedIds(reader.out)
      BY <2>1, <1>17, FetchedTurning DEF FetchesOk
    <2> QED
      BY <2>2, <1>12 DEF FetchedOk, Informed
  <1>21. AskedOnce'
    BY <1>11, <1>13, <1>17 DEF AskedOnce
  <1>22. KnownOk'
    BY <1>6, <1>7, <1>17, <1>18, <1>19, <1>20 DEF KnownOk, FetchedOk
  <1>23. FetchesOk'
    BY <1>12 DEF FetchesOk
  <1>24. NoneTwice'
    <2>1. Handled' \subseteq Handled
      BY <1>7, <1>12, <1>13, <1>20 DEF Handled
    <2>2. InformedAll(client.sawNewMessage, reader.out) \/ Coming(reader) \cap Handled = {}
      BY <1>17, <1>20 DEF NoneTwice
    <2> QED
      BY <2>1, <2>2, <1>6, <1>11, <1>12 DEF NoneTwice
  <1>25. Begins'
    <2>1. \A x \in WantedIds(requests') : Removed(x)'
      BY <1>12, <1>13, <1>17, <1>18 DEF Begins
    <2> QED
      BY <2>1, <1>11, <1>12, <1>13, <1>17 DEF Begins
  <1> QED
    BY <1>11, <1>17, <1>21, <1>22, <1>23, <1>24, <1>25 DEF Unread

\* fetched(), at the end of a list that has to be read again
LEMMA AgainTaken ==
  ASSUME InboxInv, InboxInv', ReadInv, reader.out # <<>>, reader' = [reader EXCEPT !.out = Tail(@)],
         UNCHANGED <<modem, rx, arrived, failures>>, Head(reader.out).sig = "end",
         client' = [client EXCEPT !.smsFetching = FALSE], Ask(Call("check"))
  PROVE  ReadInv'
  <1>1. client \in Clients /\ requests \in Seq(Requests)
    BY ReadTyped
  <1>2. SameClient /\ ~client'.smsFetching /\ client'.sawNewMessage = client.sawNewMessage
    BY <1>1 DEF Clients, SameClient
  <1>3. Active' = Active /\ Got' = Got /\ Got \subseteq Got' /\ \A id : Removed(id)' <=> Removed(id)
    BY <1>2, SameGot
  <1>4. Token /\ Received /\ (reader.overtaken \/ Unread)
    BY DEF ReadInv
  <1>5. /\ reader'.out = Tail(reader.out) /\ reader'.overtaken = reader.overtaken
        /\ reader'.pendingFirstMessage = reader.pendingFirstMessage
        /\ \A x : Stays(x)' <=> Stays(x)
        /\ \A m : InFlight(m) => InFlight(m)'
        /\ DoomedOnce => DoomedOnce'
        /\ AllKept => AllKept'
        /\ CacheStays => CacheStays'
    BY <1>3, Taken
  <1>6. /\ Turning(reader'.out) = {} /\ OneAnswered(reader'.out) /\ FetchedIds(reader'.out) = {}
        /\ Turns(requests) = {} /\ ~reader.pendingFirstMessage
        /\ OneTurn(requests) /\ ~Has(requests, "first") /\ ~Has(requests, "next")
    BY <1>5, TurnTaken DEF Turn
  <1>7. /\ WantedIds(requests') = WantedIds(requests)
        /\ ~Has(requests', "first") /\ ~Has(requests', "next")
        /\ Turns(requests') = {} /\ OneTurn(requests')
        /\ OneWanted(requests) => OneWanted(requests')
        /\ FirstAfter(requests) => FirstAfter(requests')
    BY <1>1, <1>6, CallAdded
  <1>8. Token'
    BY <1>2, <1>5, <1>6, <1>7 DEF Token
  <1>9. Received'
    BY <1>2, <1>3, <1>4 DEF Received, SameClient
  <1>10. SUFFICES ASSUME ~reader'.overtaken PROVE Unread'
    BY <1>8, <1>9 DEF ReadInv
  <1>11. DoomedOnce /\ AskedOnce /\ KnownOk /\ CacheStays /\ Begins /\ AllKept
    BY <1>4, <1>5, <1>10 DEF Unread
  <1>12. AskedOnce'
    BY <1>5, <1>7, <1>11 DEF AskedOnce
  <1>13. KnownOk'
    BY <1>2, <1>3, <1>5, <1>7, <1>11 DEF KnownOk, Alive
  <1>14. FetchesOk' /\ NoneTwice'
    BY <1>6, <1>7 DEF FetchesOk, NoneTwice
  <1>15. Begins'
    BY <1>5, <1>6, <1>7, <1>11 DEF Begins
  <1> QED
    BY <1>5, <1>11, <1>12, <1>13, <1>14, <1>15 DEF Unread

\* fetched(), at the end of the list: places are freed.
LEMMA EndTaken ==
  ASSUME InboxInv, InboxInv', ReadInv, reader.out # <<>>, reader' = [reader EXCEPT !.out = Tail(@)],
         UNCHANGED <<modem, rx, arrived, failures>>, Head(reader.out).sig = "end",
         ~client.sawNewMessage, FetchedEnd
  PROVE  ReadInv'
  <1>1. /\ client \in Clients /\ requests \in Seq(Requests) /\ client.activeIds \in Seq(Ids)
        /\ Active \subseteq Ids
    BY ReadTyped
  <1>2. ToBeDeleted \in Nat
    <2>1. reader.used \in Nat /\ reader.total \in Nat
      BY ReadTyped, SlotsAssumption DEF Readers
    <2> QED
      BY <2>1, ClientAssumption DEF ToBeDeleted
  <1>3. PICK freed : freed = Freed(client.activeIds, ToBeDeleted)
    OBVIOUS
  <1>4. Freeing(freed, client.activeIds)
    BY <1>1, <1>2, <1>3, FreedProperties
  <1>5. PICK s \in Seq(Requests) : s = freed.calls
    BY <1>4 DEF Freeing, Accs
  <1>6. /\ ToSet(freed.ids) \subseteq Active
        /\ \A i \in DOMAIN s : s[i].req = "delete" /\ s[i].id \in Active \ ToSet(freed.ids)
        /\ \A i, j \in DOMAIN s : s[i].id = s[j].id => i = j
    BY <1>4, <1>5 DEF Freeing, Active
  <1>7. /\ client' = [client EXCEPT
                  !.smsFetching = FALSE,
                  !.mailbox = @ \cup ToSet(client.retrievedMessages),
                  !.received = @ \cup ToSet(client.retrievedMessages),
                  !.retrievedMessages = <<>>, !.retrievedIds = {},
                  !.activeIds = freed.ids]
        /\ requests' = requests \o s
    BY <1>3, <1>5 DEF FetchedEnd, Ask
  <1>8. /\ ~client'.smsFetching /\ client'.sawNewMessage = client.sawNewMessage
        /\ client'.mailbox = client.mailbox \cup ToSet(client.retrievedMessages)
        /\ client'.received = Got
        /\ client'.retrievedMessages = <<>> /\ client'.retrievedIds = {}
        /\ client'.activeIds = freed.ids
    BY <1>1, <1>7 DEF Clients, Got
  <1>9. Active' = ToSet(freed.ids) /\ Active' \subseteq Active
    BY <1>6, <1>8 DEF Active
  <1>10. Got' = Got /\ Got \subseteq Got'
    <2>1. ToSet(<<>>) = {}
      BY DEF ToSet
    <2> QED
      BY <2>1, <1>8 DEF Got
  <1>11. Token /\ Received /\ (reader.overtaken \/ Unread)
    BY DEF ReadInv
  <1>12. /\ reader'.out = Tail(reader.out) /\ reader'.overtaken = reader.overtaken
         /\ reader'.pendingFirstMessage = reader.pendingFirstMessage
         /\ \A x : Stays(x)' <=> Stays(x)
         /\ \A m : InFlight(m) => InFlight(m)'
         /\ DoomedOnce => DoomedOnce'
         /\ AllKept => AllKept'
         /\ CacheStays => CacheStays'
    BY <1>10, Taken
  <1>13. /\ Turning(reader'.out) = {} /\ OneAnswered(reader'.out) /\ FetchedIds(reader'.out) = {}
         /\ Turns(requests) = {} /\ ~reader.pendingFirstMessage
         /\ OneTurn(requests) /\ ~Has(requests, "first") /\ ~Has(requests, "next")
    BY <1>12, TurnTaken DEF Turn
  <1>14. Turns(s) = {} /\ OneTurn(s) /\ FirstAfter(s) /\ ~Has(s, "first") /\ ~Has(s, "next")
    <2>1. Turns(s) = {}
      BY <1>6 DEF Turns
    <2> QED
      BY <2>1, NoTurns
  <1>15. WantedIds(s) \subseteq {id \in Active \ Active' : id.place # 0}
    BY <1>6, <1>9 DEF WantedIds, Wanted
  <1>16. PICK q \in Seq(Requests) : q = requests
    BY <1>1
  <1> DEFINE u == q \o s
  <1>17. /\ WantedIds(u) = WantedIds(q) \cup WantedIds(s)
         /\ \A name : Has(u, name) <=> Has(q, name) \/ Has(s, name)
         /\ Turns(u) = {} <=> Turns(q) = {} /\ Turns(s) = {}
         /\ OneTurn(q) /\ OneTurn(s) /\ (Turns(q) = {} \/ Turns(s) = {}) => OneTurn(u)
         /\ /\ OneWanted(q) /\ OneWanted(s)
            /\ \A x \in WantedIds(q), y \in WantedIds(s) : x.place # y.place
            => OneWanted(u)
         /\ /\ FirstAfter(q) /\ FirstAfter(s)
            /\ Wanted(s) = {} \/ ~Has(q, "first")
            => FirstAfter(u)
    BY CallsMore, Zenon
  <1>18. u = requests'
    BY <1>7, <1>16
  <1> HIDE DEF u
  <1>19. /\ WantedIds(requests') = WantedIds(requests) \cup WantedIds(s)
         /\ ~Has(requests', "first") /\ ~Has(requests', "next")
         /\ Turns(requests') = {} /\ OneTurn(requests')
         /\ /\ OneWanted(requests) /\ OneWanted(s)
            /\ \A x \in WantedIds(requests), y \in WantedIds(s) : x.place # y.place
            => OneWanted(requests')
         /\ FirstAfter(requests) => FirstAfter(requests')
    BY <1>13, <1>14, <1>16, <1>17, <1>18
  <1>20. Token'
    BY <1>8, <1>12, <1>13, <1>19 DEF Token
  <1>21. Received'
    BY <1>8, <1>9, <1>10, <1>11 DEF Received, Got
  <1>22. SUFFICES ASSUME ~reader'.overtaken PROVE Unread'
    BY <1>20, <1>21 DEF ReadInv
  <1>23. DoomedOnce /\ AskedOnce /\ KnownOk /\ CacheStays /\ Begins /\ AllKept
    BY <1>11, <1>12, <1>22 DEF Unread
  <1>24. \A id \in Active : id.place # 0 => Alive(id) /\ Stays(id)
    BY <1>23 DEF KnownOk, Alive
  <1>25. AskedOnce'
    <2>1. \A id \in WantedIds(s) : Stays(id) /\ id \in Got
      BY <1>11, <1>15, <1>24 DEF Received
    <2>2. \A id \in Got : InFlight(id.msg)
      <3>1. ClientInv /\ reader \in Readers
        BY ReadTyped DEF InboxInv
      <3> QED
        BY <3>1, InFlightMsg
    <2>3. OneWanted(s)
      <3>1. SUFFICES ASSUME NEW i \in Wanted(s), NEW j \in Wanted(s), s[i].id.place = s[j].id.place
                     PROVE  i = j
        BY DEF OneWanted
      <3>2. i \in DOMAIN s /\ j \in DOMAIN s /\ s[i].id \in WantedIds(s) /\ s[j].id \in WantedIds(s)
        BY DEF Wanted, WantedIds
      <3>3. s[i].id \in Ids /\ s[j].id \in Ids
        BY <3>2, <1>1, <1>15
      <3>4. s[i].id = s[j].id
        BY <3>1, <3>2, <3>3, <2>1, SameId
      <3> QED
        BY <3>2, <3>4, <1>6
    <2>4. \A x \in WantedIds(requests), y \in WantedIds(s) : x.place # y.place
      BY <1>15, <1>24 DEF Alive
    <2> QED
      BY <2>1, <2>2, <2>3, <2>4, <1>12, <1>19, <1>23 DEF AskedOnce
  <1>26. KnownOk'
    <2>1. SUFFICES ASSUME NEW id \in Active', id.place # 0 PROVE Alive(id)'
      BY DEF KnownOk
    <2>2. Alive(id) /\ Stays(id) /\ id \in Ids
      BY <2>1, <1>1, <1>9, <1>24
    <2>3. ASSUME NEW y \in WantedIds(s), y.place = id.place PROVE FALSE
      <3>1. Stays(y) /\ y \in Ids /\ y \notin Active'
        BY <2>3, <1>1, <1>15, <1>24
      <3> QED
        BY <3>1, <2>1, <2>2, <2>3, SameId
    <2> QED
      BY <2>2, <2>3, <1>12, <1>19 DEF Alive
  <1>27. FetchesOk' /\ NoneTwice'
    BY <1>13, <1>19 DEF FetchesOk, NoneTwice
  <1>28. Begins'
    BY <1>12, <1>13, <1>19, <1>23 DEF Begins
  <1> QED
    BY <1>12, <1>23, <1>25, <1>26, <1>27, <1>28 DEF Unread

LEMMA SignalReads ==
  ASSUME InboxInv, InboxInv', ReadInv, ReceiveSignal
  PROVE  ReadInv'
  <1>1. /\ reader.out # <<>> /\ reader' = [reader EXCEPT !.out = Tail(@)]
        /\ UNCHANGED <<modem, rx, arrived, failures>>
    BY DEF ReceiveSignal
  <1>2. /\ Head(reader.out) \in Signals /\ client \in Clients /\ requests \in Seq(Requests)
    <2>1. client \in Clients /\ requests \in Seq(Requests) /\ reader.out \in Seq(Signals)
      BY ReadTyped
    <2> QED
      BY <2>1, <1>1, TailSet
  <1>3. CASE Head(reader.out).sig = "ready"
    <2>1. SimReadyChanged
      BY <1>3 DEF ReceiveSignal
    <2>2. Quiet(Head(reader.out)) /\ Head(reader.out).sig # "count"
      BY <1>3 DEF Quiet
    <2>3. CASE UNCHANGED <<client, requests>>
      <3>1. SameCalls(requests, requests') /\ SameClient
        BY <2>3, <1>2, CallsSame DEF SameClient
      <3> QED
        BY <3>1, <2>2, <2>3, <1>1, QuietTaken
    <2>4. CASE client' = [client EXCEPT !.smsCheckRequired = FALSE] /\ Ask(Call("check"))
      <3>1. /\ SameClient /\ client'.smsFetching = client.smsFetching
            /\ client'.sawNewMessage = client.sawNewMessage
        BY <2>4, <1>2 DEF Clients, SameClient
      <3>2. Call("check") \in Seq(Requests) /\ Checks(Call("check"))
        BY Calls DEF Call, Checks
      <3>3. SameCalls(requests, requests')
        BY <3>2, <2>4, <1>2, CallsSame DEF Ask
      <3> QED
        BY <3>1, <3>3, <2>2, <1>1, QuietTaken
    <2> QED
      BY <2>1, <2>3, <2>4 DEF SimReadyChanged
  <1>4. CASE Head(reader.out).sig = "count"
    <2>1. PICK n \in Nat : n = Head(reader.out).n
      BY <1>2, <1>4 DEF Signals
    <2>2. MessageCount(n)
      BY <1>4, <2>1 DEF ReceiveSignal
    <2>3. Quiet(Head(reader.out))
      BY <1>4 DEF Quiet
    <2>4. CASE n = 0
      <3>1. UNCHANGED <<client, requests>>
        BY <2>2, <2>4 DEF MessageCount
      <3>2. SameCalls(requests, requests') /\ SameClient
        BY <3>1, <1>2, CallsSame DEF SameClient
      <3> QED
        BY <3>1, <3>2, <2>1, <2>3, <2>4, <1>1, QuietTaken
    <2>5. CASE n # 0 /\ client.smsFetching
      <3>1. client' = [client EXCEPT !.sawNewMessage = TRUE] /\ requests' = requests
        BY <2>2, <2>5 DEF MessageCount
      <3>2. /\ SameClient /\ client'.smsFetching = client.smsFetching
            /\ client'.sawNewMessage
        BY <3>1, <1>2 DEF Clients, SameClient
      <3>3. SameCalls(requests, requests')
        BY <3>1, <1>2, CallsSame
      <3> QED
        BY <3>2, <3>3, <2>3, <1>1, QuietTaken
    <2>6. CASE n # 0 /\ ~client.smsFetching
      BY <2>2, <2>3, <2>6, <1>1, BeginTaken DEF MessageCount
    <2> QED
      BY <2>4, <2>5, <2>6
  <1>5. CASE Head(reader.out).sig = "fetched"
    BY <1>1, <1>5, FetchedTaken DEF ReceiveSignal
  <1>6. CASE Head(reader.out).sig = "end"
    <2>1. FetchedEnd
      BY <1>6 DEF ReceiveSignal
    <2>2. CASE client.sawNewMessage
      BY <2>1, <2>2, <1>1, <1>6, AgainTaken DEF FetchedEnd
    <2>3. CASE ~client.sawNewMessage
      BY <2>1, <2>3, <1>1, <1>6, EndTaken
    <2> QED
      BY <2>2, <2>3
  <1>7. Head(reader.out).sig \in {"ready", "count", "fetched", "end"}
    BY <1>2 DEF Signals
  <1> QED
    BY <1>3, <1>4, <1>5, <1>6, <1>7

-----------------------------------------------------------------------------
\* The client begins to check for new messages, and the user deletes one.

\* What a step of the client alone leaves as it was
LEMMA ReaderRests ==
  ASSUME InboxInv, InboxInv', UNCHANGED <<reader, modem, rx, arrived, failures>>, Got \subseteq Got'
  PROVE  /\ \A id : Stays(id)' <=> Stays(id)
         /\ \A m : InFlight(m) => InFlight(m)'
         /\ DoomedOnce => DoomedOnce'
         /\ AllKept => AllKept'
         /\ CacheStays => CacheStays'
  <1>1. Outstanding' = Outstanding
    BY DEF Outstanding
  <1>2. /\ \A id : Stays(id)' <=> Stays(id)
        /\ \A m : InFlight(m) => InFlight(m)'
        /\ DoomedOnce => DoomedOnce'
        /\ AllKept => AllKept'
    BY <1>1, SameStore
  <1>3. CacheStays => CacheStays'
    BY <1>2 DEF CacheStays
  <1> QED
    BY <1>2, <1>3

\* Steps of the client that change nothing but checks and smsCheckRequired
LEMMA ChecksRead ==
  ASSUME InboxInv, InboxInv', ReadInv, UNCHANGED <<reader, modem, rx, arrived, failures>>,
         SameClient, client'.smsFetching = client.smsFetching,
         client'.sawNewMessage = client.sawNewMessage, SameCalls(requests, requests')
  PROVE  ReadInv'
  <1>1. Got \subseteq Got'
    BY SameGot
  <1>2. SameTurns(client.sawNewMessage, reader.out, client'.sawNewMessage, reader'.out)
    <2>1. reader.out \in Seq(Signals)
      BY ReadTyped
    <2> QED
      BY <2>1, TurnsKept
  <1>3. Coming(reader') \subseteq Coming(reader)
    OBVIOUS
  <1> QED
    BY <1>1, <1>2, <1>3, ReaderRests, QuietStep DEF Unread

LEMMA CheckReads ==
  ASSUME InboxInv, InboxInv', ReadInv, CheckForNewMessages
  PROVE  ReadInv'
  <1>1. client \in Clients /\ requests \in Seq(Requests)
    BY ReadTyped
  <1>2. UNCHANGED <<reader, modem, rx, arrived, failures>>
    BY DEF CheckForNewMessages, readerVars
  <1>3. client' = [client EXCEPT !.checks = @ - 1, !.smsCheckRequired = ~reader.ready]
    BY DEF CheckForNewMessages
  <1>4. /\ SameClient /\ client'.smsFetching = client.smsFetching
        /\ client'.sawNewMessage = client.sawNewMessage
    BY <1>1, <1>3 DEF Clients, SameClient
  <1>5. PICK s : requests' = requests \o s /\ s \in Seq(Requests) /\ Checks(s)
    <2>1. /\ <<>> \in Seq(Requests) /\ Checks(<<>>)
          /\ Call("check") \in Seq(Requests) /\ Checks(Call("check"))
          /\ Call("check") \o Call("check") \in Seq(Requests) /\ Checks(Call("check") \o Call("check"))
      BY Calls DEF Call, Checks
    <2> QED
      BY <2>1 DEF CheckForNewMessages, Ask
  <1>6. SameCalls(requests, requests')
    BY <1>1, <1>5, CallsSame
  <1> QED
    BY <1>2, <1>4, <1>6, ChecksRead

LEMMA UserDeleteReads ==
  ASSUME InboxInv, InboxInv', ReadInv, DeleteImmediately
  PROVE  ReadInv'
  <1>1. /\ client \in Clients /\ requests \in Seq(Requests) /\ client.activeIds \in Seq(Ids)
        /\ client.mailbox \in SUBSET Ids /\ Active \subseteq Ids
        /\ (Active = {} <=> client.activeIds = <<>>)
        /\ client.retrievedMessages \in Seq(Ids)
    BY ReadTyped DEF Clients
  <1>2. UNCHANGED <<reader, modem, rx, arrived, failures>>
    BY DEF DeleteImmediately, readerVars
  <1>3. PICK id \in client.mailbox :
          /\ client' = [Forget(client, id) EXCEPT !.mailbox = @ \ {id}]
          /\ Ask(Deletion(client, id))
    BY DEF DeleteImmediately
  <1>4. id \in Ids
    BY <1>1
  <1> DEFINE ids == Without(client.activeIds, {id})
             mail == client.mailbox \ {id}
  <1>5. ids \in Seq(Ids) /\ ToSet(ids) = Active \ {id}
    BY <1>1, Withouts DEF Active
  <1>6. client' = [client EXCEPT !.activeIds = ids, !.mailbox = mail]
    BY <1>1, <1>3 DEF Forget, Clients
  <1> HIDE DEF ids
  <1>7. /\ client'.activeIds = ids /\ client'.mailbox = client.mailbox \ {id}
        /\ client'.retrievedIds = client.retrievedIds
        /\ client'.retrievedMessages = client.retrievedMessages
        /\ client'.received = client.received /\ client'.smsFetching = client.smsFetching
        /\ client'.sawNewMessage = client.sawNewMessage
    BY <1>1, <1>6 DEF Clients
  <1>8. Active' = Active \ {id} /\ Got' = Got /\ Got \subseteq Got'
    BY <1>5, <1>7 DEF Active, Got
  <1>9. \A x : Removed(x) => Removed(x)'
    BY <1>7 DEF Removed
  <1>10. /\ \A x : Stays(x)' <=> Stays(x)
         /\ \A m : InFlight(m) => InFlight(m)'
         /\ DoomedOnce => DoomedOnce'
         /\ AllKept => AllKept'
         /\ CacheStays => CacheStays'
    BY <1>2, <1>8, ReaderRests
  <1>11. Token /\ Received /\ (reader.overtaken \/ Unread)
    BY DEF ReadInv
  <1>12. PICK s \in Seq(Requests) : s = Deletion(client, id)
    <2>1. [req |-> "delete", id |-> id] \in Requests
      BY <1>4 DEF Requests
    <2>2. Deletion(client, id) \in Seq(Requests)
      BY <2>1 DEF Deletion
    <2> QED
      BY <2>2
  <1>13. /\ id \notin Active => s = <<>>
         /\ id \in Active => s = <<[req |-> "delete", id |-> id]>>
    BY <1>12 DEF Deletion, Known, Active
  <1>14. /\ Turns(s) = {} /\ OneTurn(s) /\ FirstAfter(s) /\ ~Has(s, "first") /\ ~Has(s, "next")
         /\ OneWanted(s)
         /\ WantedIds(s) = IF id \in Active /\ id.place # 0 THEN {id} ELSE {}
    <2>1. \A i \in DOMAIN s : i = 1 /\ s[i] = [req |-> "delete", id |-> id]
      BY <1>13
    <2>2. Turns(s) = {} /\ OneWanted(s)
      BY <2>1 DEF Turns, OneWanted, Wanted
    <2>3. WantedIds(s) = IF id \in Active /\ id.place # 0 THEN {id} ELSE {}
      <3>1. CASE id \in Active
        <4>1. DOMAIN s = {1} /\ s[1].req = "delete" /\ s[1].id = id
          BY <3>1, <1>13
        <4> QED
          BY <3>1, <4>1 DEF WantedIds, Wanted
      <3>2. CASE id \notin Active
        BY <3>2, <1>13 DEF WantedIds, Wanted
      <3> QED
        BY <3>1, <3>2
    <2> QED
      BY <2>2, <2>3, NoTurns
  <1>15. PICK q \in Seq(Requests) : q = requests
    BY <1>1
  <1> DEFINE u == q \o s
  <1>16. /\ WantedIds(u) = WantedIds(q) \cup WantedIds(s)
         /\ \A name : Has(u, name) <=> Has(q, name) \/ Has(s, name)
         /\ Turns(u) = {} <=> Turns(q) = {} /\ Turns(s) = {}
         /\ OneTurn(q) /\ OneTurn(s) /\ (Turns(q) = {} \/ Turns(s) = {}) => OneTurn(u)
         /\ /\ OneWanted(q) /\ OneWanted(s)
            /\ \A x \in WantedIds(q), y \in WantedIds(s) : x.place # y.place
            => OneWanted(u)
         /\ /\ FirstAfter(q) /\ FirstAfter(s)
            /\ Wanted(s) = {} \/ ~Has(q, "first")
            => FirstAfter(u)
    BY CallsMore, Zenon
  <1>17. u = requests'
    BY <1>3, <1>12, <1>15 DEF Ask
  <1> HIDE DEF u
  <1>18. /\ WantedIds(requests') = WantedIds(requests) \cup WantedIds(s)
         /\ Has(requests', "first") <=> Has(requests, "first")
         /\ Has(requests', "next") <=> Has(requests, "next")
         /\ Turns(requests') = {} <=> Turns(requests) = {}
         /\ OneTurn(requests) => OneTurn(requests')
         /\ OneWanted(requests) /\ (\A x \in WantedIds(requests), y \in WantedIds(s) : x.place # y.place)
            => OneWanted(requests')
         /\ FirstAfter(requests) /\ (Wanted(s) = {} \/ ~Has(requests, "first")) => FirstAfter(requests')
    BY <1>14, <1>15, <1>16, <1>17
  <1>19. Token'
    BY <1>2, <1>7, <1>11, <1>18 DEF Token
  <1>20. Received'
    BY <1>7, <1>8, <1>11 DEF Received
  <1>21. SUFFICES ASSUME ~reader'.overtaken PROVE Unread'
    BY <1>19, <1>20 DEF ReadInv
  <1>22. /\ DoomedOnce /\ AskedOnce /\ KnownOk /\ FetchesOk /\ CacheStays /\ NoneTwice
         /\ Begins /\ AllKept
    BY <1>2, <1>11, <1>21 DEF Unread
  <1>23. Active' = {} <=> client'.activeIds = <<>>
    BY <1>5, <1>7, <1>8, SetOfSeq
  <1>24. CASE ~(id \in Active /\ id.place # 0)
    <2>1. WantedIds(s) = {} /\ Wanted(s) = {}
      BY <1>14, <1>24, NoneWanted
    <2>2. /\ WantedIds(requests') = WantedIds(requests)
          /\ OneWanted(requests) => OneWanted(requests')
          /\ FirstAfter(requests) => FirstAfter(requests')
      BY <2>1, <1>18
    <2>3. \A x : Alive(x) => Alive(x)'
      BY <2>2, <1>10 DEF Alive
    <2>4. AskedOnce'
      BY <2>2, <1>10, <1>22 DEF AskedOnce
    <2>5. KnownOk'
      BY <2>3, <1>7, <1>8, <1>9, <1>22 DEF KnownOk
    <2>6. FetchesOk'
      <3>1. ASSUME NEW x, NEW n, FetchedOk(x, n) PROVE FetchedOk(x, n)'
        BY <3>1, <2>3, <1>8, <1>9 DEF FetchedOk
      <3> QED
        BY <3>1, <1>2, <1>7, <1>22 DEF FetchesOk, FetchedOk
    <2>7. NoneTwice'
      <3>1. Handled' \subseteq Handled
        BY <2>2, <1>2, <1>8 DEF Handled
      <3> QED
        BY <3>1, <1>2, <1>7, <1>18, <1>22 DEF NoneTwice
    <2>8. Begins'
      <3>1. client.activeIds = <<>> => client'.activeIds = <<>>
        BY <1>1, <1>8, <1>23
      <3> QED
        BY <3>1, <2>2, <1>2, <1>9, <1>18, <1>22 DEF Begins
    <2> QED
      BY <2>4, <2>5, <2>6, <2>7, <2>8, <1>10, <1>22 DEF Unread
  <1>25. CASE id \in Active /\ id.place # 0
    <2>1. WantedIds(s) = {id} /\ WantedIds(requests') = WantedIds(requests) \cup {id}
      BY <1>14, <1>18, <1>25
    <2>2. Alive(id) /\ Stays(id)
      BY <1>3, <1>22, <1>25 DEF KnownOk, Removed, Alive
    <2>3. ~reader.pendingFirstMessage /\ ~Has(requests, "first") /\ client.activeIds # <<>>
      BY <1>1, <1>22, <1>25 DEF Begins
    <2>4. client.smsFetching => Removed(id)'
      <3>1. client.smsFetching => id \in client.retrievedIds
        BY <1>11, <1>25 DEF Received
      <3>2. id \notin ToSet(client.retrievedMessages)
        <4>1. \A i \in DOMAIN client.retrievedMessages : client.retrievedMessages[i] # id
          BY <1>3 DEF InboxInv, ClientInv, Retrieved, RetrievedOnce
        <4> QED
          BY <4>1 DEF ToSet
      <3> QED
        BY <3>1, <3>2, <1>7 DEF Removed
    <2>5. AskedOnce'
      <3>1. InFlight(id.msg)
        <4>1. id \in Got
          BY <1>11, <1>25 DEF Received
        <4>2. ClientInv /\ reader \in Readers
          BY ReadTyped DEF InboxInv
        <4> QED
          BY <4>1, <4>2, InFlightMsg
      <3>2. OneWanted(requests')
        BY <2>1, <2>2, <1>18, <1>22 DEF AskedOnce, Alive
      <3> QED
        BY <3>1, <3>2, <2>1, <2>2, <1>10, <1>22 DEF AskedOnce
    <2>6. \A x : Alive(x) /\ x.place # id.place => Alive(x)'
      BY <2>1, <1>10 DEF Alive
    <2>7. \A x \in Ids : Alive(x) /\ x # id => Alive(x)'
      <3>1. SUFFICES ASSUME NEW x \in Ids, Alive(x), x # id PROVE x.place # id.place
        BY <2>6
      <3> QED
        BY <3>1, <2>2, <1>4, SameId DEF Alive
    <2>8. KnownOk'
      BY <2>7, <1>1, <1>7, <1>8, <1>9, <1>22 DEF KnownOk
    <2>9. FetchesOk'
      <3>1. ASSUME NEW x \in Ids, NEW n, FetchedOk(x, n), client.smsFetching PROVE FetchedOk(x, n)'
        <4>1. CASE x = id
          BY <4>1, <3>1, <2>4, <1>8, <1>25 DEF FetchedOk
        <4>2. CASE x # id
          BY <4>2, <3>1, <2>7, <1>8, <1>9 DEF FetchedOk
        <4> QED
          BY <4>1, <4>2
      <3>2. Turning(reader.out) # {} => client.smsFetching
        BY <1>11 DEF Token
      <3>3. \A i \in Turning(reader.out) : reader.out[i].sig = "fetched" => reader.out[i].id \in Ids
        BY ReadTyped, FetchedTurning
      <3> QED
        BY <3>1, <3>2, <3>3, <1>2, <1>7, <1>22 DEF FetchesOk, FetchedOk
    <2>10. NoneTwice'
      <3>1. Handled' \subseteq Handled
        BY <2>1, <1>2, <1>8, <1>25 DEF Handled
      <3> QED
        BY <3>1, <1>2, <1>7, <1>18, <1>22 DEF NoneTwice
    <2>11. Begins'
      <3>1. Has(requests, "next") \/ Turning(reader.out) # {} => client.smsFetching
        <4>1. Has(requests, "next") => Turns(requests) # {}
          BY DEF Has, Turns
        <4> QED
          BY <4>1, <1>11 DEF Token
      <3>2. Has(requests', "next") \/ Turning(reader'.out) # {} => \A x \in WantedIds(requests') : Removed(x)'
        BY <3>1, <2>1, <2>4, <1>2, <1>9, <1>18, <1>22 DEF Begins
      <3> QED
        BY <3>2, <2>3, <1>2, <1>18, <1>22 DEF Begins
    <2> QED
      BY <2>5, <2>8, <2>9, <2>10, <2>11, <1>10, <1>22 DEF Unread
  <1> QED
    BY <1>24, <1>25

-----------------------------------------------------------------------------
\* The steps of the reader

\* What the client sees of them: nothing.
Alone == UNCHANGED <<client, requests>>

LEMMA AloneSame ==
  ASSUME InboxInv, Alone
  PROVE  SameCalls(requests, requests') /\ SameClient /\ client' = client /\ Got' = Got
  <1>1. requests \in Seq(Requests)
    BY ReadTyped
  <1>2. requests' = requests /\ client' = client
    BY DEF Alone
  <1>3. SameCalls(requests, requests')
    BY <1>1, <1>2, CallsSame
  <1> QED
    BY <1>2, <1>3 DEF SameClient, Got

LEMMA QuietlyTwice ==
  ASSUME NEW r \in Readers, NEW s, NEW w, Quietly(r, s), Quietly(s, w)
  PROVE  Quietly(r, w)
  <1>1. r.at \in Seq(Commands)
    BY ReaderFields
  <1>2. PICK q \in Seq(Commands) : NoDeletes(q) /\ s.at = r.at \o q
    BY DEF Quietly
  <1>3. PICK p \in Seq(Commands) : NoDeletes(p) /\ w.at = s.at \o p
    BY DEF Quietly
  <1>4. w.at = r.at \o (q \o p)
    <2>1. w.at = (r.at \o q) \o p
      BY <1>2, <1>3
    <2>2. (r.at \o q) \o p = r.at \o (q \o p)
      BY <1>1, CommandsAssociative, Zenon
    <2> QED
      BY <2>1, <2>2, Zenon
  <1> DEFINE u == q \o p
  <1>5. /\ u \in Seq(Commands) /\ Len(q) \in Nat /\ Len(p) \in Nat
        /\ DOMAIN q = 1..Len(q) /\ DOMAIN p = 1..Len(p)
        /\ DOMAIN u = 1..(Len(q) + Len(p))
        /\ \A i \in 1..Len(q) : u[i] = q[i]
        /\ \A i \in 1..Len(p) : u[Len(q) + i] = p[i]
    BY Concats
  <1> HIDE DEF u
  <1>6. NoDeletes(u)
    <2> SUFFICES ASSUME NEW i \in DOMAIN u PROVE u[i].cmd # "delete"
      BY DEF NoDeletes
    <2>1. CASE i \in 1..Len(q)
      BY <2>1, <1>2, <1>5 DEF NoDeletes
    <2>2. CASE i \notin 1..Len(q)
      <3>1. i - Len(q) \in 1..Len(p) /\ Len(q) + (i - Len(q)) = i
        BY <2>2, <1>5
      <3>2. u[Len(q) + (i - Len(q))] = p[i - Len(q)]
        BY <3>1, <1>5
      <3> QED
        BY <3>1, <3>2, <1>3, <1>5 DEF NoDeletes
    <2> QED
      BY <2>1, <2>2
  <1>7. \A saw : SameTurns(saw, r.out, saw, w.out)
    BY TurnsAgain DEF Quietly
  <1>8. \/ w.pending = r.pending /\ w.pendingPosn = r.pendingPosn
        \/ \A id \in ToSet(w.pending) : id.place = 0
    BY DEF Quietly
  <1>9. w.overtaken = r.overtaken /\ w.dispatched = r.dispatched
    BY DEF Quietly
  <1> QED
    BY <1>4, <1>5, <1>6, <1>7, <1>8, <1>9 DEF Quietly, u

LEMMA ReadyReads ==
  ASSUME InboxInv, InboxInv', ReadInv, SmsReady, Alone
  PROVE  ReadInv'
  <1> DEFINE u == [reader EXCEPT !.initializing = FALSE]
             q == <<Command("options")>>
             s == Queue(u, q)
  <1>1. reader \in Readers /\ Sorted(reader) /\ reader.at \in Seq(Commands)
    BY ReadTyped DEF InboxInv, ReaderInv, Local
  <1>2. q \in Seq(Commands) /\ NoDeletes(q)
    BY CommandType DEF NoDeletes
  <1>3. /\ u \in Readers /\ u.at = reader.at
        /\ u.pending = reader.pending /\ u.pseudoInbox = reader.pseudoInbox
        /\ u.fetching = reader.fetching /\ u.pendingPosn = reader.pendingPosn
        /\ u.pendingFirstMessage = reader.pendingFirstMessage /\ u.out = reader.out
        /\ u.dispatched = reader.dispatched /\ u.overtaken = reader.overtaken
    BY <1>1 DEF Readers
  <1> HIDE DEF u, q
  <1>4. s \in Readers /\ s = [u EXCEPT !.at = reader.at \o q]
    <2>1. s \in Readers /\ s = [u EXCEPT !.at = u.at \o q]
      BY <1>2, <1>3, QueueEffect, Zenon
    <2> QED
      BY <2>1, <1>3, Zenon
  <1> HIDE DEF s
  <1>5. /\ s \in Readers /\ s.at = reader.at \o q
        /\ s.pending = reader.pending /\ s.pseudoInbox = reader.pseudoInbox
        /\ s.fetching = reader.fetching /\ s.pendingPosn = reader.pendingPosn
        /\ s.pendingFirstMessage = reader.pendingFirstMessage /\ s.out = reader.out
        /\ s.dispatched = reader.dispatched /\ s.overtaken = reader.overtaken
    BY <1>3, <1>4 DEF Readers
  <1>6. Quietly(reader, s)
    <2>1. \A saw : SameTurns(saw, reader.out, saw, s.out)
      BY <1>1, <1>5, ReaderFields, TurnsKept
    <2> QED
      BY <2>1, <1>2, <1>5 DEF Quietly
  <1>7. Sorted(s)
    BY <1>1, <1>5 DEF Sorted
  <1>8. reader' = Check(s, TRUE) /\ UNCHANGED <<modem, rx, arrived, failures>>
    BY DEF SmsReady, s, u, q
  <1>9. Quietly(s, reader') /\ reader'.pendingFirstMessage = s.pendingFirstMessage
    BY <1>5, <1>7, <1>8, QuietlyCheck
  <1>10. Quietly(reader, reader')
    BY <1>1, <1>6, <1>9, QuietlyTwice
  <1>11. Outstanding' <=> Outstanding
    BY <1>8 DEF Outstanding
  <1> QED
    BY <1>5, <1>8, <1>9, <1>10, <1>11, AloneSame, QuietlyRead

LEMMA NewsOutstanding ==
  ASSUME ReaderType, rx # <<>>, rx' = Tail(rx), Head(rx).what # "answer", modem' = modem
  PROVE  Outstanding' <=> Outstanding
  <1>1. /\ Head(rx) = rx[1]
        /\ \A i \in DOMAIN rx' : i + 1 \in DOMAIN rx /\ rx'[i] = rx[i + 1] /\ i \in Nat \ {0}
        /\ \A i \in DOMAIN rx : i = 1 \/ (i - 1 \in DOMAIN rx' /\ rx'[i - 1] = rx[i])
    BY TailLines
  <1>2. (\E i \in DOMAIN rx' : rx'[i].what = "answer") <=> (\E i \in DOMAIN rx : rx[i].what = "answer")
    BY <1>1
  <1> QED
    BY <1>2 DEF Outstanding

LEMMA NewsReads ==
  ASSUME InboxInv, InboxInv', ReadInv, ReadLine, Head(rx).what # "answer", Alone
  PROVE  ReadInv'
  <1> DEFINE line == Head(rx)
             id   == [place |-> 0, msg |-> line.msg]
             box  == Append(reader.pseudoInbox, id)
             r    == [reader EXCEPT !.pseudoInbox = box]
  <1>1. /\ ReaderType /\ reader \in Readers /\ Sorted(reader) /\ DirectOnce
        /\ reader.pseudoInbox \in Seq(Ids)
    <2>1. ReaderType /\ Sorted(reader) /\ DirectOnce
      BY DEF InboxInv, ReaderInv, Local
    <2> QED
      BY <2>1, Typed
  <1>2. /\ rx # <<>> /\ rx' = Tail(rx) /\ UNCHANGED <<modem, arrived, failures>>
        /\ reader' =
             CASE line.what = "answer" -> CommandDone(reader, line)
               [] line.what = "note"   -> NewMessageArrived(reader)
               [] line.what = "direct" -> NewMessageArrived([reader EXCEPT
                     !.pseudoInbox = Append(@, [place |-> 0, msg |-> line.msg])])
    BY DEF ReadLine
  <1>3. line = rx[1] /\ 1 \in DOMAIN rx /\ line \in Lines
    BY <1>1, <1>2, TailLines
  <1>4. line.what \in {"note", "direct"}
    BY <1>3 DEF Lines
  <1>5. Outstanding' <=> Outstanding
    BY <1>1, <1>2, NewsOutstanding
  <1>6. SUFFICES Quietly(reader, reader') /\ reader'.pendingFirstMessage = reader.pendingFirstMessage
    BY <1>2, <1>5, AloneSame, QuietlyRead
  <1>7. CASE line.what = "note"
    <2>1. reader' = NewMessageArrived(reader)
      BY <1>2, <1>7
    <2> QED
      BY <2>1, <1>1, QuietlyNews
  <1>8. CASE line.what = "direct"
    <2>1. reader' = NewMessageArrived(r)
      BY <1>2, <1>8
    <2>2. line.msg \in Direct /\ \A x \in ToSet(reader.pseudoInbox) : x.msg # line.msg
      BY <1>1, <1>3, <1>8 DEF DirectOnce
    <2>3. id \in Ids /\ id.place = 0 /\ id.msg = line.msg
      BY <2>2, KindsAssumption, SlotsAssumption DEF Ids, Msgs
    <2> HIDE DEF id
    <2>4. box \in Seq(Ids) /\ ToSet(box) = ToSet(reader.pseudoInbox) \cup {id}
      BY <1>1, <2>3, AppendSet
    <2>5. Distinct(box)
      <3>1. Distinct(reader.pseudoInbox)
        BY <1>1 DEF Sorted
      <3>2. \A i \in DOMAIN reader.pseudoInbox : reader.pseudoInbox[i].msg # id.msg
        BY <2>2, <2>3 DEF ToSet
      <3> QED
        BY <1>1, <2>3, <3>1, <3>2, AppendDistinct
    <2> HIDE DEF box
    <2>6. /\ r \in Readers /\ r.pseudoInbox = box /\ r.at = reader.at /\ r.pending = reader.pending
          /\ r.fetching = reader.fetching /\ r.pendingPosn = reader.pendingPosn
          /\ r.pendingFirstMessage = reader.pendingFirstMessage /\ r.out = reader.out
          /\ r.dispatched = reader.dispatched /\ r.overtaken = reader.overtaken
      BY <1>1, <2>4 DEF Readers
    <2> HIDE DEF r
    <2>7. Sorted(r)
      BY <1>1, <2>2, <2>3, <2>4, <2>5, <2>6 DEF Sorted
    <2>8. Quietly(r, reader') /\ reader'.pendingFirstMessage = r.pendingFirstMessage
      BY <2>1, <2>6, <2>7, QuietlyNews
    <2>9. Quietly(reader, reader')
      <3> DEFINE s == reader'
      <3>1. Quietly(r, s)
        BY <2>8
      <3> HIDE DEF s
      <3>2. Quietly(reader, s)
        BY <2>6, <3>1, QuietlyFrom
      <3> QED
        BY <3>2 DEF s
    <2> QED
      BY <2>6, <2>8, <2>9
  <1> QED
    BY <1>4, <1>7, <1>8

\* The answer to a command that lists nothing
LEMMA AnswerReads ==
  ASSUME InboxInv, InboxInv', ReadInv, Alone, rx # <<>>, rx' = Tail(rx), Head(rx).what = "answer",
         UNCHANGED <<modem, arrived, failures>>,
         NEW q \in Seq(Commands), NoDeletes(q), reader'.at = Tail(reader.at) \o q,
         reader'.pending = reader.pending, reader'.pendingPosn = reader.pendingPosn,
         reader'.out = reader.out, reader'.pendingFirstMessage = reader.pendingFirstMessage,
         reader'.overtaken = reader.overtaken, reader'.dispatched = reader.dispatched
  PROVE  ReadInv'
  <1>1. reader \in Readers /\ reader.at \in Seq(Commands) /\ reader.out \in Seq(Signals)
    BY ReadTyped
  <1>2. reader.at # <<>> /\ Outstanding /\ ~Outstanding'
    <2>1. modem' = modem
      OBVIOUS
    <2> QED
      BY <2>1, AnswerRead DEF InboxInv
  <1>3. Outstanding = TRUE /\ Outstanding' = FALSE
    BY <1>2, Busy DEF Outstanding
  <1>4. PICK at \in Seq(Commands) : at = reader.at
    BY <1>1
  <1>5. PICK t \in Seq(Commands) : t = Tail(at)
    BY <1>2, <1>4, QueueTail
  <1>6. Doomed(at, TRUE) = Doomed(t, FALSE)
    BY <1>2, <1>4, <1>5, QueueTail
  <1>7. /\ OneEach(at, TRUE) => OneEach(t, FALSE)
        /\ BeforeLists(at) => BeforeLists(t)
    <2> DEFINE v == Tail(at)
    <2>1. /\ v \in Seq(Commands)
          /\ OneEach(at, TRUE) => OneEach(v, FALSE)
          /\ BeforeLists(at) => BeforeLists(v)
          /\ BeforeLists(at) /\ Head(at).cmd = "list" => NoDeletes(v) /\ Doomed(at, TRUE) = {}
      BY <1>2, <1>4, QueueDone
    <2> HIDE DEF v
    <2> QED
      BY <2>1, <1>5 DEF v
  <1>0. PICK busy \in BOOLEAN : busy = FALSE
    OBVIOUS
  <1> DEFINE u == t \o q
  <1>8. /\ u \in Seq(Commands)
        /\ Doomed(u, busy) = Doomed(t, busy) \cup Doomed(q, FALSE)
        /\ /\ OneEach(t, busy) /\ OneEach(q, FALSE)
           /\ Doomed(t, busy) \cap Doomed(q, FALSE) = {}
           => OneEach(u, busy)
        /\ NoDeletes(q) /\ OneEach(t, busy) => OneEach(u, busy)
        /\ BeforeLists(t) /\ NoDeletes(q) => BeforeLists(u)
        /\ Lists(t) = {} /\ Lists(q) = {} => BeforeLists(u)
        /\ BeforeLists(t) /\ BeforeLists(q) /\ Lists(t) = {} => BeforeLists(u)
        /\ NoDeletes(q) => Doomed(u, busy) = Doomed(t, busy)
    <2>1. q \in Seq(Commands) /\ (busy => t # <<>>)
      BY <1>0
    <2> QED
      BY <2>1, QueueMore
  <1>9. reader'.at = u
    BY <1>4, <1>5
  <1> HIDE DEF u
  <1>10. /\ Doomed(reader'.at, FALSE) = Doomed(reader.at, TRUE)
         /\ BeforeLists(reader.at) => BeforeLists(reader'.at)
         /\ OneEach(reader.at, TRUE) => OneEach(reader'.at, FALSE)
    BY <1>0, <1>4, <1>6, <1>7, <1>8, <1>9
  <1>11. /\ Doomed(reader.at, Outstanding)' = Doomed(reader.at, Outstanding)
         /\ OneEach(reader.at, Outstanding) => OneEach(reader.at, Outstanding)'
    BY <1>3, <1>10
  <1>12. modem'.sim = modem.sim /\ arrived' = arrived /\ Got' = Got
    BY AloneSame
  <1>13. /\ \A id : Stays(id)' <=> Stays(id)
         /\ \A m : InFlight(m) => InFlight(m)'
         /\ DoomedOnce => DoomedOnce'
         /\ AllKept => AllKept'
    BY <1>10, <1>11, <1>12, SameStore
  <1>14. CacheStays => CacheStays'
    BY <1>13 DEF CacheStays
  <1>15. SameTurns(client.sawNewMessage, reader.out, client'.sawNewMessage, reader'.out)
    <2>1. SameTurns(client.sawNewMessage, reader.out, client.sawNewMessage, reader.out)
      BY <1>1, TurnsKept
    <2> QED
      BY <2>1, AloneSame
  <1>16. Coming(reader') = Coming(reader)
    BY DEF Coming
  <1> QED
    BY <1>13, <1>14, <1>15, <1>16, AloneSame, QuietStep DEF Unread

LEMMA OtherAnswerReads ==
  ASSUME InboxInv, InboxInv', ReadInv, ReadLine, Head(rx).what = "answer",
         Head(reader.at).cmd # "list", Alone
  PROVE  ReadInv'
  <1> DEFINE line == Head(rx)
             cmd  == Head(reader.at).cmd
             t    == Tail(reader.at)
             s    == [reader EXCEPT !.at = Tail(@)]
  <1>1. /\ rx # <<>> /\ rx' = Tail(rx) /\ UNCHANGED <<modem, arrived, failures>>
        /\ reader' =
             CASE line.what = "answer" -> CommandDone(reader, line)
               [] line.what = "note"   -> NewMessageArrived(reader)
               [] line.what = "direct" -> NewMessageArrived([reader EXCEPT
                     !.pseudoInbox = Append(@, [place |-> 0, msg |-> line.msg])])
    BY DEF ReadLine
  <1>2. reader.at # <<>> /\ reader.at \in Seq(Commands) /\ reader \in Readers
    <2>1. modem' = modem
      BY <1>1
    <2> QED
      BY <2>1, <1>1, AnswerRead, ReadTyped DEF InboxInv
  <1>3. t \in Seq(Commands)
    BY <1>2, TailSet
  <1>4. reader' = CASE cmd = "list"    -> StoreListDone(s, line.ok, line.ids)
                    [] cmd = "usage"   -> CpmsDone(s, line.used)
                    [] cmd = "options" -> NmiStatusReceived(s)
                    [] OTHER           -> s
    BY <1>1 DEF CommandDone
  <1>5. line.used \in 0..Slots
    <2>1. line \in Lines
      BY <1>1, TailLines DEF InboxInv, ReaderInv
    <2> QED
      BY <2>1 DEF Lines
  <1> HIDE DEF t
  <1> DEFINE Same(r) == /\ r \in Readers
        /\ r.pending = reader.pending /\ r.pendingPosn = reader.pendingPosn
        /\ r.out = reader.out /\ r.pendingFirstMessage = reader.pendingFirstMessage
        /\ r.overtaken = reader.overtaken /\ r.dispatched = reader.dispatched
  <1>6. Same(s) /\ s.at = t
    <2>1. s = [reader EXCEPT !.at = t]
      BY DEF t
    <2> HIDE DEF s
    <2> QED
      BY <2>1, <1>2, <1>3 DEF Readers
  <1> HIDE DEF s
  <1>7. \E q \in Seq(Commands) : NoDeletes(q) /\ reader'.at = t \o q /\ Same(reader')
    <2>1. t = t \o <<>> /\ <<>> \in Seq(Commands) /\ NoDeletes(<<>>)
      BY <1>3, EmptyConcat DEF NoDeletes
    <2>2. CASE cmd \in {"notify", "delete"}
      <3>1. Same(reader') /\ reader'.at = t \o <<>>
        BY <1>4, <1>6, <2>1, <2>2
      <3> QED
        BY <3>1, <2>1
    <2>3. CASE cmd = "usage"
      <3>1. reader' = [s EXCEPT !.used = line.used, !.total = Slots]
        BY <1>4, <2>3 DEF CpmsDone
      <3> DEFINE n == line.used
                 w == reader'
      <3> HIDE DEF n, w
      <3>2. w = [s EXCEPT !.used = n, !.total = Slots] /\ n \in 0..Slots
        BY <3>1, <1>5 DEF n, w
      <3>3. Same(w) /\ w.at = t
        BY <3>2, <1>6 DEF Readers
      <3>4. Same(reader') /\ reader'.at = t \o <<>>
        BY <3>3, <2>1 DEF w
      <3> QED
        BY <3>4, <2>1
    <2>4. CASE cmd = "options"
      <3> DEFINE u == [s EXCEPT !.initializing = FALSE]
                 q == <<Command("notify")>>
      <3>1. Same(u) /\ u.at = t
        BY <1>6 DEF Readers
      <3>2. q \in Seq(Commands) /\ NoDeletes(q)
        BY CommandType DEF NoDeletes
      <3>3. reader' = Queue(u, q)
        BY <1>4, <2>4 DEF NmiStatusReceived
      <3> HIDE DEF u, q
      <3>4. Queue(u, q) \in Readers /\ Queue(u, q) = [u EXCEPT !.at = t \o q]
        BY <3>1, <3>2, QueueEffect
      <3>5. Same(reader') /\ reader'.at = t \o q
        <4> DEFINE w == reader'
                   v == t \o q
        <4> HIDE DEF w, v
        <4>1. w \in Readers /\ w = [u EXCEPT !.at = v]
          BY <3>3, <3>4 DEF w, v
        <4>2. Same(w) /\ w.at = v
          BY <3>1, <4>1 DEF Readers
        <4> QED
          BY <4>2 DEF w, v
      <3> QED
        BY <3>2, <3>5
    <2>5. cmd \in {"options", "notify", "usage", "delete"}
      <3>1. Head(reader.at) \in Commands
        BY <1>2, TailSet
      <3> QED
        BY <3>1 DEF Commands
    <2> QED
      BY <2>2, <2>3, <2>4, <2>5
  <1>8. PICK q \in Seq(Commands) : NoDeletes(q) /\ reader'.at = Tail(reader.at) \o q /\ Same(reader')
    BY <1>7 DEF t
  <1> QED
    BY <1>1, <1>8, AnswerReads

\* The answer to AT+CMGL
ListAnswer ==
  /\ rx # <<>> /\ rx' = Tail(rx) /\ Head(rx).what = "answer"
  /\ UNCHANGED <<modem, arrived, failures>>
  /\ Head(reader.at).cmd = "list"
  /\ reader' = StoreListDone([reader EXCEPT !.at = Tail(@)], Head(rx).ok, Head(rx).ids)
Answered   == [reader EXCEPT !.at = Tail(@)]
AllListed  == reader.pending \o Head(rx).ids
DataListed == DataOf(AllListed)
ListDone   == Done(Answered, Head(rx).ok, Head(rx).ids)

LEMMA ListFacts ==
  ASSUME InboxInv, ListAnswer
  PROVE  /\ reader \in Readers /\ reader.at \in Seq(Commands) /\ reader.at # <<>>
         /\ Outstanding = TRUE /\ Outstanding' = FALSE
         /\ Tail(reader.at) \in Seq(Commands) /\ Lists(Tail(reader.at)) = {}
         /\ reader.fetching /\ (reader.pendingCheck \/ reader.pendingFirstMessage)
         /\ Head(rx).ok \in BOOLEAN /\ Head(rx).ids \in Seq(Ids)
         /\ AllListed \in Seq(Ids) /\ ToSet(AllListed) = ToSet(reader.pending) \cup ToSet(Head(rx).ids)
         /\ DataListed \in Seq(Ids) /\ Distinct(DataListed)
         /\ ToSet(DataListed) = {id \in ToSet(AllListed) : id.msg \in Datagrams}
         /\ \A id \in ToSet(Head(rx).ids) : id.place \in Places /\ id.place # 0 /\ modem.sim[id.place] = id.msg
         /\ \A id \in ToSet(Head(rx).ids) : id.msg # 0
         /\ \A id \in ToSet(reader.pending) \cup ToSet(reader.pseudoInbox) : id.place = 0
  <1> DEFINE at  == reader.at
             t   == Tail(reader.at)
             ok  == Head(rx).ok
             ids == Head(rx).ids
  <1>1. /\ reader.at # <<>> /\ Outstanding /\ ~Outstanding'
        /\ Head(rx) \in Answering /\ Head(rx) \in Lines
    <2>1. ReaderInv /\ rx # <<>> /\ rx' = Tail(rx) /\ Head(rx).what = "answer" /\ modem' = modem
      BY DEF ListAnswer, InboxInv
    <2> QED
      BY <2>1, AnswerRead
  <1>2. Outstanding = TRUE /\ Outstanding' = FALSE
    BY <1>1, Busy DEF Outstanding
  <1>3. /\ reader \in Readers /\ reader.at \in Seq(Commands)
        /\ reader.pending \in Seq(Ids) /\ reader.pseudoInbox \in Seq(Ids) /\ Local(reader)
    BY Typed DEF InboxInv, ReaderInv
  <1>4. ok \in BOOLEAN /\ ids \in Seq(Ids)
    <2>1. Head(rx) \in Lines /\ Head(rx).what = "answer"
      BY <1>1 DEF ListAnswer
    <2> QED
      BY <2>1 DEF Lines
  <1>5. /\ t \in Seq(Commands) /\ Head(at) = at[1] /\ 1 \in DOMAIN at
        /\ \A i \in Lists(t) : i + 1 \in Lists(at) /\ i \in Nat \ {0}
    BY <1>1, <1>3, QueueTail
  <1> HIDE DEF t, ok, ids
  <1>6. 1 \in Lists(at) /\ Lists(t) = {}
    <2>1. 1 \in Lists(at)
      BY <1>5 DEF Lists, ListAnswer
    <2>2. \A i, j \in Lists(at) : i = j
      BY <1>3 DEF Local, ListFlags
    <2> QED
      BY <2>1, <2>2, <1>5
  <1>7. reader.fetching /\ (reader.pendingCheck \/ reader.pendingFirstMessage) /\ Sorted(reader)
    BY <1>3, <1>6 DEF Local, ListFlags
  <1>8. \A id \in ToSet(reader.pending) \cup ToSet(reader.pseudoInbox) : id.place = 0
    BY <1>7 DEF Sorted
  <1>9. /\ Distinct(ids)
        /\ \A id \in ToSet(ids) : id.place \in Places /\ modem.sim[id.place] = id.msg
    BY <1>1 DEF InboxInv, ReaderInv, Snapshot, ids
  <1>10. \A id \in ToSet(ids) : id.msg # 0
    <2>1. ToSet(ids) \subseteq Ids
      BY <1>4, SetOfSeq
    <2> QED
      BY <2>1 DEF Ids, Msgs
  <1>11. \A p \in Places : p # 0
    BY SlotsAssumption DEF Places
  <1>12. AllListed \in Seq(Ids) /\ ToSet(AllListed) = ToSet(reader.pending) \cup ToSet(ids)
    <2>1. AllListed = reader.pending \o ids
      BY DEF AllListed, ids
    <2> QED
      BY <2>1, <1>3, <1>4, ConcatSet
  <1>13. Distinct(AllListed)
    <2>1. LET s    == StoreListDone(Answered, ok, ids)
              all  == Answered.pending \o ids
              data == DataOf(all)
          IN /\ Local(s) /\ Distinct(all) /\ all \in Seq(Ids)
             /\ ToSet(all) = ToSet(Answered.pending) \cup ToSet(ids)
             /\ ToSet(s.pseudoInbox) = ToSet(Answered.pseudoInbox) \ ToSet(data)
             /\ s.dispatched = Answered.dispatched \o MsgSeq(data)
             /\ \E q \in Seq(Commands) : s.at = (Answered.at \o Deletions(data)) \o q
             /\ Cached(s) => /\ ok /\ ~Answered.needRefetch
                             /\ ToSet(s.pending) = ToSet(all) \ ToSet(data)
      <3>1. /\ Answered \in Readers /\ Answered.at = t /\ Answered.pending = reader.pending
            /\ Answered.pseudoInbox = reader.pseudoInbox /\ Answered.fetching = reader.fetching
            /\ Answered.needRefetch = reader.needRefetch /\ Answered.pendingCheck = reader.pendingCheck
            /\ Answered.pendingFirstMessage = reader.pendingFirstMessage
        <4>1. Answered = [reader EXCEPT !.at = t]
          BY DEF Answered, t
        <4> QED
          BY <4>1, <1>3, <1>5 DEF Readers
      <3>2. /\ Sorted(Answered) /\ Begun(Answered) /\ Answered.fetching /\ Lists(Answered.at) = {}
            /\ (Answered.pendingCheck \/ Answered.pendingFirstMessage)
        BY <3>1, <1>3, <1>6, <1>7 DEF Sorted, Begun, Local
      <3>3. \A id \in ToSet(ids) : id.place # 0 /\ id.msg \notin Direct
        <4>1. \A p \in Places : modem.sim[p] # 0 => modem.sim[p] \notin Direct
          BY DEF InboxInv, ReaderInv, SimOnce
        <4> QED
          BY <4>1, <1>9, <1>10, <1>11
      <3>4. Lists(Answered.at) = {} /\ Answered.fetching /\ (Answered.pendingCheck \/ Answered.pendingFirstMessage)
        BY <3>2
      <3>5. /\ Answered \in Readers /\ Sorted(Answered) /\ Begun(Answered)
            /\ ok \in BOOLEAN /\ ids \in Seq(Ids) /\ Distinct(ids)
        BY <3>1, <3>2, <1>4, <1>9
      <3> QED
        BY <3>3, <3>4, <3>5, LocalListDone, ZenonT(60)
    <2>2. Answered.pending = reader.pending
      BY <1>3 DEF Answered, Readers
    <2> QED
      BY <2>1, <2>2 DEF AllListed, ids
  <1>14. /\ DataListed \in Seq(Ids) /\ Distinct(DataListed)
         /\ ToSet(DataListed) = {id \in ToSet(AllListed) : id.msg \in Datagrams}
    BY <1>12, <1>13, DataProperties DEF DataListed
  <1> QED
    BY <1>1, <1>2, <1>3, <1>4, <1>5, <1>6, <1>7, <1>8, <1>9, <1>10, <1>11, <1>12, <1>14 DEF t, ok, ids

\* The reader once it has stored the list
LEMMA ListDoneIs ==
  ASSUME InboxInv, ListAnswer
  PROVE  LET done == ListDone IN
         /\ done \in Readers
         /\ ToSet(done.pending) = ToSet(AllListed) \ ToSet(DataListed)
         /\ \A id \in ToSet(done.pseudoInbox) : id.place = 0
         /\ ToSet(done.dispatched) = ToSet(reader.dispatched) \cup {id.msg : id \in ToSet(DataListed)}
         /\ done.at = Tail(reader.at) \o Deletions(DataListed)
         /\ reader.overtaken => done.overtaken
         /\ \A saw : SameTurns(saw, reader.out, saw, done.out)
         /\ done.pendingPosn = reader.pendingPosn
         /\ done.pendingCheck = reader.pendingCheck
         /\ done.pendingFirstMessage = reader.pendingFirstMessage
         /\ reader' = IF done.needRefetch THEN FetchMessages([done EXCEPT !.needRefetch = FALSE])
                      ELSE Answer(done)
  <1> DEFINE r   == Answered
             ok  == Head(rx).ok
             ids == Head(rx).ids
             t   == Tail(reader.at)
  <1>1. /\ reader \in Readers /\ t \in Seq(Commands) /\ ok \in BOOLEAN /\ ids \in Seq(Ids)
        /\ AllListed \in Seq(Ids) /\ DataListed \in Seq(Ids)
        /\ \A id \in ToSet(reader.pending) \cup ToSet(reader.pseudoInbox) : id.place = 0
    BY ListFacts
  <1>2. /\ reader.pseudoInbox \in Seq(Ids) /\ reader.dispatched \in Seq(Msgs) /\ reader.out \in Seq(Signals)
    BY <1>1, ReaderFields
  <1> HIDE DEF t, ok, ids
  <1>3. /\ r \in Readers /\ r.at = t /\ r.pending = reader.pending
        /\ r.pseudoInbox = reader.pseudoInbox /\ r.out = reader.out
        /\ r.pendingCheck = reader.pendingCheck /\ r.pendingPosn = reader.pendingPosn
        /\ r.pendingFirstMessage = reader.pendingFirstMessage
        /\ r.dispatched = reader.dispatched /\ r.overtaken = reader.overtaken
    <2>1. r = [reader EXCEPT !.at = t]
      BY DEF Answered, t
    <2> HIDE DEF r
    <2> QED
      BY <2>1, <1>1 DEF Readers
  <1>4. ListDone = Done(r, ok, ids)
    BY DEF ListDone, ok, ids
  <1>5. reader' = StoreListDone(r, ok, ids)
    BY DEF ListAnswer, Answered, ok, ids
  <1>6. AllListed = r.pending \o ids
    BY <1>3 DEF AllListed, ids
  <1> HIDE DEF r
  <1> DEFINE done == Done(r, ok, ids)
             all  == r.pending \o ids
             data == DataOf(all)
  <1>7. /\ done \in Readers /\ all \in Seq(Ids)
        /\ done.pending = Without(all, ToSet(data))
        /\ done.pseudoInbox = Without(r.pseudoInbox, ToSet(data))
        /\ done.dispatched = r.dispatched \o MsgSeq(data)
        /\ done.at = r.at \o Deletions(data)
        /\ done.overtaken = (r.overtaken \/ (Stored(data) # <<>> /\ Listing(r)))
        /\ done.haveCached = ok /\ done.fetching = FALSE
        /\ done.out = r.out \/ done.out = Append(r.out, Ready)
        /\ done.pendingPosn = r.pendingPosn
        /\ done.pendingCheck = r.pendingCheck
        /\ done.pendingFirstMessage = r.pendingFirstMessage
        /\ done.needRefetch = r.needRefetch
        /\ done.initializing = r.initializing
    BY <1>1, <1>3, DoneEffect, ZenonT(60)
  <1>8. reader' = IF done.needRefetch THEN FetchMessages([done EXCEPT !.needRefetch = FALSE])
                  ELSE Answer(done)
    BY <1>5, StoreListDoneIs, Zenon
  <1> HIDE DEF done
  <1>9. all = AllListed /\ data = DataListed
    BY <1>6 DEF DataListed
  <1> HIDE DEF all, data
  <1>10. ToSet(done.pending) = ToSet(AllListed) \ ToSet(DataListed)
    BY <1>1, <1>7, <1>9, Withouts
  <1>11. \A id \in ToSet(done.pseudoInbox) : id.place = 0
    <2>1. ToSet(done.pseudoInbox) = ToSet(reader.pseudoInbox) \ ToSet(DataListed)
      BY <1>2, <1>3, <1>7, <1>9, Withouts
    <2> QED
      BY <2>1, <1>1
  <1>12. ToSet(done.dispatched) = ToSet(reader.dispatched) \cup {id.msg : id \in ToSet(DataListed)}
    <2> DEFINE new == MsgSeq(DataListed)
    <2>1. new \in Seq(Msgs) /\ ToSet(new) = {id.msg : id \in ToSet(DataListed)}
      BY <1>1, MsgSeqProperties
    <2>2. done.dispatched = reader.dispatched \o new
      BY <1>3, <1>7, <1>9
    <2> HIDE DEF new
    <2>3. ToSet(reader.dispatched \o new) = ToSet(reader.dispatched) \cup ToSet(new)
      BY <2>1, <1>2, MsgsConcat
    <2> QED
      BY <2>1, <2>2, <2>3
  <1>13. \A saw : SameTurns(saw, reader.out, saw, done.out)
    <2>1. Ready \in Signals /\ Quiet(Ready)
      BY DEF Ready, Signals, Quiet
    <2> QED
      BY <2>1, <1>2, <1>3, <1>7, TurnsKept, TurnsQuiet
  <1>14. done.at = t \o Deletions(DataListed)
    BY <1>3, <1>7, <1>9
  <1>15. reader.overtaken => done.overtaken
    BY <1>3, <1>7
  <1> QED
    BY <1>3, <1>4, <1>7, <1>8, <1>10, <1>11, <1>12, <1>13, <1>14, <1>15, Zenon DEF done, t

\* The queue with more commands at its end
Longer(at, q, u, busy) ==
  /\ u \in Seq(Commands)
  /\ Doomed(u, busy) = Doomed(at, busy) \cup Doomed(q, FALSE)
  /\ /\ OneEach(at, busy) /\ OneEach(q, FALSE)
     /\ Doomed(at, busy) \cap Doomed(q, FALSE) = {}
     => OneEach(u, busy)
  /\ NoDeletes(q) /\ OneEach(at, busy) => OneEach(u, busy)
  /\ BeforeLists(at) /\ NoDeletes(q) => BeforeLists(u)
  /\ Lists(at) = {} /\ Lists(q) = {} => BeforeLists(u)
  /\ BeforeLists(at) /\ BeforeLists(q) /\ Lists(at) = {} => BeforeLists(u)
  /\ NoDeletes(q) => Doomed(u, busy) = Doomed(at, busy)

LEMMA QueueLonger ==
  ASSUME NEW at \in Seq(Commands), NEW q \in Seq(Commands)
  PROVE  Longer(at, q, at \o q, FALSE)
  <1>1. PICK busy \in BOOLEAN : busy = FALSE
    OBVIOUS
  <1>2. busy => at # <<>>
    BY <1>1
  <1> DEFINE u == at \o q
  <1>3. /\ u \in Seq(Commands)
        /\ Doomed(u, busy) = Doomed(at, busy) \cup Doomed(q, FALSE)
        /\ /\ OneEach(at, busy) /\ OneEach(q, FALSE)
           /\ Doomed(at, busy) \cap Doomed(q, FALSE) = {}
           => OneEach(u, busy)
        /\ NoDeletes(q) /\ OneEach(at, busy) => OneEach(u, busy)
        /\ BeforeLists(at) /\ NoDeletes(q) => BeforeLists(u)
        /\ Lists(at) = {} /\ Lists(q) = {} => BeforeLists(u)
        /\ BeforeLists(at) /\ BeforeLists(q) /\ Lists(at) = {} => BeforeLists(u)
        /\ NoDeletes(q) => Doomed(u, busy) = Doomed(at, busy)
    BY <1>2, QueueMore
  <1> HIDE DEF u
  <1>4. Longer(at, q, u, busy)
    BY <1>3 DEF Longer
  <1> QED
    BY <1>1, <1>4 DEF u

\* What the list leaves on the SIM: the datagrams of the list, which have been
\* dispatched, are all that is going to be deleted.
LEMMA ListStores ==
  ASSUME InboxInv, InboxInv', ListAnswer, Alone, DoomedOnce, AllKept,
         NEW q \in Seq(Commands), NoDeletes(q),
         reader'.at = (Tail(reader.at) \o Deletions(DataListed)) \o q,
         ToSet(reader'.dispatched) = ToSet(reader.dispatched) \cup {id.msg : id \in ToSet(DataListed)}
  PROVE  /\ DoomedOnce' /\ AllKept'
         /\ \A m : InFlight(m) => InFlight(m)'
         /\ \A id \in Ids : id.place # 0 /\ Stays(id) => Stays(id)'
         /\ \A id \in ToSet(AllListed) \ ToSet(DataListed) : id.place # 0 => Stays(id)'
  <1>1. /\ reader \in Readers /\ reader.at \in Seq(Commands) /\ reader.at # <<>>
        /\ Outstanding = TRUE /\ Outstanding' = FALSE
        /\ Tail(reader.at) \in Seq(Commands) /\ Lists(Tail(reader.at)) = {}
        /\ AllListed \in Seq(Ids) /\ ToSet(AllListed) = ToSet(reader.pending) \cup ToSet(Head(rx).ids)
        /\ DataListed \in Seq(Ids) /\ Distinct(DataListed)
        /\ ToSet(DataListed) = {id \in ToSet(AllListed) : id.msg \in Datagrams}
        /\ \A id \in ToSet(Head(rx).ids) : id.place \in Places /\ id.place # 0 /\ modem.sim[id.place] = id.msg
        /\ \A id \in ToSet(Head(rx).ids) : id.msg # 0
        /\ \A id \in ToSet(reader.pending) \cup ToSet(reader.pseudoInbox) : id.place = 0
    BY ListFacts
  <1>2. modem'.sim = modem.sim /\ arrived' = arrived /\ Got' = Got /\ Head(reader.at).cmd = "list"
    BY AloneSame DEF ListAnswer
  <1>3. \A id \in ToSet(AllListed) : id.place # 0 =>
           id.place \in Places /\ modem.sim[id.place] = id.msg /\ id.msg # 0
    BY <1>1
  <1>4. PICK d \in Seq(Commands) : d = Deletions(DataListed)
    BY <1>1, DeletionsOnce
  <1>5. /\ d \in Seq(Commands) /\ Lists(d) = {}
        /\ Doomed(d, FALSE) = {id.place : id \in {x \in ToSet(DataListed) : x.place # 0}}
        /\ Distinct(DataListed) /\ (\A x, y \in ToSet(DataListed) : x.place = y.place /\ x.place # 0 => x.msg = y.msg)
              => OneEach(d, FALSE)
    BY <1>1, <1>4, DeletionsOnce
  <1>6. OneEach(d, FALSE)
    BY <1>1, <1>3, <1>5
  <1>7. PICK t \in Seq(Commands) : t = Tail(reader.at)
    BY <1>1
  <1>8. NoDeletes(t)
    <2> DEFINE v == Tail(reader.at)
    <2>1. /\ v \in Seq(Commands)
          /\ OneEach(reader.at, TRUE) => OneEach(v, FALSE)
          /\ BeforeLists(reader.at) => BeforeLists(v)
          /\ BeforeLists(reader.at) /\ Head(reader.at).cmd = "list" => NoDeletes(v) /\ Doomed(reader.at, TRUE) = {}
      BY <1>1, QueueDone
    <2> HIDE DEF v
    <2>2. NoDeletes(v)
      BY <2>1, <1>2 DEF DoomedOnce
    <2> QED
      BY <2>2, <1>7 DEF v
  <1>9. Deletes(t, FALSE) = {} /\ Doomed(t, FALSE) = {} /\ OneEach(t, FALSE)
    <2>1. Deletes(t, FALSE) = {}
      BY <1>8 DEF NoDeletes, Deletes
    <2> QED
      BY <2>1, DoomedPlaces DEF OneEach
  <1>10. PICK v \in Seq(Commands) : v = t \o d
    BY Concats
  <1>11. Longer(t, d, v, FALSE)
    BY <1>10, QueueLonger, Zenon
  <1>12. Doomed(v, FALSE) = Doomed(d, FALSE) /\ OneEach(v, FALSE) /\ BeforeLists(v)
    BY <1>1, <1>5, <1>6, <1>7, <1>9, <1>11 DEF Longer
  <1>13. /\ Doomed(reader'.at, FALSE) = Doomed(d, FALSE)
         /\ OneEach(reader'.at, FALSE) /\ BeforeLists(reader'.at)
    <2>1. reader'.at = v \o q
      BY <1>4, <1>7, <1>10
    <2>2. Longer(v, q, v \o q, FALSE)
      BY QueueLonger, Zenon
    <2>3. Longer(v, q, reader'.at, FALSE)
      BY <2>1, <2>2, Zenon
    <2> QED
      BY <2>3, <1>12 DEF Longer
  <1>14. Doomed(reader.at, Outstanding)' = {id.place : id \in {x \in ToSet(DataListed) : x.place # 0}}
    BY <1>1, <1>5, <1>13
  <1>15. \A m : InFlight(m) => InFlight(m)'
    BY <1>2, InFlightKept
  <1>16. \A m \in ToSet(reader'.dispatched) : InFlight(m)'
    <2>1. (ClientInv /\ reader \in Readers)'
      <3>1. ReaderType' /\ ClientInv'
        BY DEF InboxInv, ReaderInv
      <3> QED
        BY <3>1 DEF ReaderType
    <2>2. (\A m : InFlight(m) <=> m \in ToSet(reader.dispatched) \/ \E id \in Got : id.msg = m)'
      BY <2>1, InFlightIs, PTL
    <2> QED
      BY <2>2
  <1>17. DoomedOnce'
    <2>1. ASSUME NEW p \in Doomed(reader.at, Outstanding)'
          PROVE  p \in Places /\ modem.sim[p] # 0 /\ modem.sim[p] \in ToSet(reader'.dispatched)
      <3>1. PICK x \in ToSet(DataListed) : x.place # 0 /\ p = x.place
        BY <2>1, <1>14
      <3>2. x \in ToSet(AllListed)
        BY <1>1
      <3> QED
        BY <3>1, <3>2, <1>3
    <2>2. ASSUME NEW p \in Doomed(reader.at, Outstanding)' PROVE InFlight(modem.sim[p])'
      <3>1. PICK m : m = modem.sim[p]
        OBVIOUS
      <3>2. InFlight(m)'
        BY <2>1, <3>1, <1>16
      <3> QED
        BY <3>1, <3>2, <1>2
    <2>3. OneEach(reader.at, Outstanding)' /\ BeforeLists(reader.at)'
      BY <1>1, <1>13
    <2> QED
      BY <2>1, <2>2, <2>3, <1>2 DEF DoomedOnce
  <1>18. AllKept'
    BY <1>2, <1>15, KeptSame
  <1>19. ASSUME NEW id, id.place # 0, id.msg \notin Datagrams, modem.sim[id.place] = id.msg
         PROVE  Stays(id)'
    <2>1. id.place \notin Doomed(reader.at, Outstanding)'
      <3>1. SUFFICES ASSUME NEW x \in ToSet(DataListed), x.place # 0, id.place = x.place
                     PROVE  FALSE
        BY <1>14
      <3>2. x \in ToSet(AllListed) /\ x.msg \in Datagrams
        BY <1>1
      <3> QED
        BY <3>1, <3>2, <1>3, <1>19
    <2> QED
      BY <2>1, <1>2, <1>19 DEF Stays
  <1>20. \A id \in Ids : id.place # 0 /\ Stays(id) => Stays(id)'
    BY <1>19 DEF Stays
  <1>21. \A id \in ToSet(AllListed) \ ToSet(DataListed) : id.place # 0 => Stays(id)'
    BY <1>1, <1>3, <1>19
  <1> QED
    BY <1>15, <1>17, <1>18, <1>20, <1>21

LEMMA ListedAgain ==
  ASSUME InboxInv, InboxInv', ReadInv, ListAnswer, Alone, ListDone.needRefetch
  PROVE  ReadInv'
  <1> DEFINE done == ListDone
             w    == [done EXCEPT !.needRefetch = FALSE]
  <1>1. /\ done \in Readers
        /\ \A id \in ToSet(done.pseudoInbox) : id.place = 0
        /\ ToSet(done.dispatched) = ToSet(reader.dispatched) \cup {id.msg : id \in ToSet(DataListed)}
        /\ done.at = Tail(reader.at) \o Deletions(DataListed)
        /\ reader.overtaken => done.overtaken
        /\ \A saw : SameTurns(saw, reader.out, saw, done.out)
        /\ done.pendingPosn = reader.pendingPosn
        /\ done.pendingFirstMessage = reader.pendingFirstMessage
        /\ reader' = FetchMessages(w)
    BY ListDoneIs, Zenon
  <1> HIDE DEF done
  <1>2. /\ w \in Readers /\ w.pseudoInbox = done.pseudoInbox /\ w.dispatched = done.dispatched
        /\ w.at = done.at /\ w.overtaken = done.overtaken /\ w.out = done.out
        /\ w.pendingFirstMessage = done.pendingFirstMessage
    BY <1>1 DEF Readers
  <1> HIDE DEF w
  <1>3. /\ FetchMessages(w) = [w EXCEPT !.fetching = TRUE, !.pending = w.pseudoInbox, !.at = w.at \o ListCmds]
        /\ ListCmds \in Seq(Commands) /\ Len(ListCmds) = 2
        /\ ListCmds[1] = Command("usage") /\ ListCmds[2] = Command("list")
    BY <1>2, FetchEffect
  <1>4. /\ reader'.pending = done.pseudoInbox /\ reader'.dispatched = done.dispatched
        /\ reader'.at = done.at \o ListCmds /\ reader'.overtaken = done.overtaken /\ reader'.out = done.out
        /\ reader'.pendingFirstMessage = done.pendingFirstMessage
    <2> DEFINE s == reader'
    <2>1. s = [w EXCEPT !.fetching = TRUE, !.pending = w.pseudoInbox, !.at = w.at \o ListCmds]
      BY <1>1, <1>3
    <2> HIDE DEF s
    <2>2. /\ s.pending = done.pseudoInbox /\ s.dispatched = done.dispatched
          /\ s.at = done.at \o ListCmds /\ s.overtaken = done.overtaken /\ s.out = done.out
          /\ s.pendingFirstMessage = done.pendingFirstMessage
      BY <2>1, <1>2 DEF Readers
    <2> QED
      BY <2>2 DEF s
  <1>5. NoDeletes(ListCmds)
    <2>1. \A i \in DOMAIN ListCmds : i = 1 \/ i = 2
      BY <1>3
    <2> QED
      BY <2>1, <1>3, CommandType DEF NoDeletes
  <1>6. \A id \in ToSet(reader'.pending) : id.place = 0
    BY <1>1, <1>4
  <1>7. Coming(reader') \subseteq Coming(reader)
    <2>1. reader' \in Readers
      BY DEF InboxInv, ReaderInv, ReaderType
    <2>2. reader'.pending \in Seq(Ids)
      BY <2>1, ReaderFields
    <2> QED
      BY <2>2, <1>6, SameComing
  <1>8. CacheStays'
    BY <1>6 DEF CacheStays
  <1>9. ASSUME ~reader'.overtaken, Unread
        PROVE  /\ \A id \in Ids : id.place # 0 /\ Stays(id) => Stays(id)'
               /\ \A m : InFlight(m) => InFlight(m)'
               /\ DoomedOnce' /\ AllKept'
    <2>1. /\ reader'.at = (Tail(reader.at) \o Deletions(DataListed)) \o ListCmds
          /\ ToSet(reader'.dispatched) = ToSet(reader.dispatched) \cup {id.msg : id \in ToSet(DataListed)}
      BY <1>1, <1>4
    <2>2. DoomedOnce /\ AllKept
      BY <1>9 DEF Unread
    <2> QED
      BY <2>1, <2>2, <1>3, <1>5, ListStores
  <1>10. SameTurns(client.sawNewMessage, reader.out, client'.sawNewMessage, reader'.out)
    BY <1>1, <1>4, AloneSame
  <1>11. /\ reader'.pendingFirstMessage = reader.pendingFirstMessage
         /\ reader.overtaken => reader'.overtaken
    BY <1>1, <1>4
  <1> QED
    BY <1>7, <1>8, <1>9, <1>10, <1>11, AloneSame, QuietStep

\* The reader answers what the list was asked for.
LEMMA ListAnswered ==
  ASSUME InboxInv, InboxInv', ReadInv, ListAnswer, Alone, ~ListDone.needRefetch
  PROVE  ReadInv'
  <1> DEFINE done == ListDone
             out  == CountedOut(done)
  <1>1. /\ done \in Readers
        /\ ToSet(done.pending) = ToSet(AllListed) \ ToSet(DataListed)
        /\ ToSet(done.dispatched) = ToSet(reader.dispatched) \cup {id.msg : id \in ToSet(DataListed)}
        /\ done.at = Tail(reader.at) \o Deletions(DataListed)
        /\ reader.overtaken => done.overtaken
        /\ \A saw : SameTurns(saw, reader.out, saw, done.out)
        /\ done.pendingPosn = reader.pendingPosn
        /\ done.pendingCheck = reader.pendingCheck
        /\ done.pendingFirstMessage = reader.pendingFirstMessage
        /\ reader' = Answer(done)
    BY ListDoneIs, Zenon
  <1>2. /\ reader.pendingCheck \/ reader.pendingFirstMessage
        /\ Tail(reader.at) \in Seq(Commands) /\ DataListed \in Seq(Ids)
    BY ListFacts
  <1> HIDE DEF done
  <1>3. LET s == Answer(done) IN
         /\ s \in Readers
         /\ s.pendingCheck = FALSE /\ s.pendingFirstMessage = FALSE
         /\ s.out = IF done.pendingFirstMessage THEN Append(out, FirstSignal(done)) ELSE out
         /\ s.pendingPosn = IF done.pendingFirstMessage
                            THEN IF 0 < Len(done.pending) THEN 1 ELSE 0
                            ELSE done.pendingPosn
         /\ s.pending = done.pending /\ s.pseudoInbox = done.pseudoInbox
         /\ s.dispatched = done.dispatched /\ s.at = done.at /\ s.overtaken = done.overtaken
         /\ s.haveCached = done.haveCached /\ s.fetching = done.fetching
         /\ s.needRefetch = done.needRefetch /\ s.initializing = done.initializing
    BY <1>1, AnswerEffect
  <1>4. /\ reader' \in Readers /\ reader'.pendingFirstMessage = FALSE
        /\ reader'.out = IF done.pendingFirstMessage THEN Append(out, FirstSignal(done)) ELSE out
        /\ reader'.pendingPosn = IF done.pendingFirstMessage
                                 THEN IF 0 < Len(done.pending) THEN 1 ELSE 0
                                 ELSE done.pendingPosn
        /\ reader'.pending = done.pending
        /\ reader'.dispatched = done.dispatched /\ reader'.at = done.at /\ reader'.overtaken = done.overtaken
    BY <1>1, <1>3, Zenon
  <1>5. reader.out \in Seq(Signals) /\ done.out \in Seq(Signals) /\ done.pending \in Seq(Ids)
    BY <1>1, ReadTyped, ReaderFields
  <1>6. CountSignal(done) \in Signals /\ Quiet(CountSignal(done))
    BY <1>1, CountEffect DEF Quiet, CountSignal
  <1>7. out \in Seq(Signals) /\ \A saw : SameTurns(saw, done.out, saw, out)
    <2>1. CASE done.pendingCheck
      <3>1. out = Append(done.out, CountSignal(done))
        BY <2>1 DEF CountedOut
      <3> HIDE DEF out
      <3>2. \A saw : SameTurns(saw, done.out, saw, out)
        BY <3>1, <1>5, <1>6, TurnsQuiet
      <3>3. out \in Seq(Signals)
        BY <3>1, <1>5, <1>6
      <3> QED
        BY <3>2, <3>3
    <2>2. CASE ~done.pendingCheck
      <3>1. out = done.out
        BY <2>2 DEF CountedOut
      <3> HIDE DEF out
      <3> QED
        BY <3>1, <1>5, TurnsKept
    <2> QED
      BY <2>1, <2>2
  <1> HIDE DEF out
  <1>8. \A saw : SameTurns(saw, reader.out, saw, out)
    BY <1>1, <1>7, TurnsAgain
  <1>9. ASSUME ~reader'.overtaken, Unread
        PROVE  /\ \A id \in Ids : id.place # 0 /\ Stays(id) => Stays(id)'
               /\ \A m : InFlight(m) => InFlight(m)'
               /\ DoomedOnce' /\ AllKept' /\ CacheStays'
    <2> DEFINE q == <<>>
    <2>1. /\ reader'.at = (Tail(reader.at) \o Deletions(DataListed)) \o q
          /\ ToSet(reader'.dispatched) = ToSet(reader.dispatched) \cup {id.msg : id \in ToSet(DataListed)}
          /\ q \in Seq(Commands) /\ NoDeletes(q)
      <3>1. Deletions(DataListed) \in Seq(Commands)
        BY <1>2, DeletionsOnce
      <3>2. Tail(reader.at) \o Deletions(DataListed) \in Seq(Commands)
        BY <3>1, <1>2, Concats
      <3> QED
        BY <3>2, <1>1, <1>4, EmptyConcat DEF NoDeletes
    <2>2. DoomedOnce /\ AllKept
      BY <1>9 DEF Unread
    <2> HIDE DEF q
    <2>3. /\ DoomedOnce' /\ AllKept'
          /\ \A m : InFlight(m) => InFlight(m)'
          /\ \A id \in Ids : id.place # 0 /\ Stays(id) => Stays(id)'
          /\ \A id \in ToSet(AllListed) \ ToSet(DataListed) : id.place # 0 => Stays(id)'
      BY <2>1, <2>2, ListStores
    <2>4. CacheStays'
      BY <2>3, <1>1, <1>4 DEF CacheStays
    <2> QED
      BY <2>3, <2>4
  <1>10. reader.overtaken => reader'.overtaken
    BY <1>1, <1>4
  <1>11. CASE ~reader.pendingFirstMessage
    <2>1. reader'.out = out /\ reader'.pendingFirstMessage = reader.pendingFirstMessage
      <3>1. done.pendingFirstMessage = FALSE /\ reader.pendingFirstMessage = FALSE
        BY <1>1, <1>11 DEF Readers
      <3> QED
        BY <3>1, <1>4, Zenon
    <2>2. \/ InformedAll(client'.sawNewMessage, reader'.out)
          \/ Coming(reader') \subseteq Coming(reader)
      <3>1. out = Append(done.out, CountSignal(done))
        BY <1>1, <1>2, <1>11 DEF CountedOut, out
      <3>2. CASE Len(done.pending) = 0
        <4>1. DOMAIN reader'.pending = {}
          BY <3>2, <1>4, <1>5
        <4>2. Coming(reader') = {}
          BY <4>1 DEF Coming
        <4> QED
          BY <4>2
      <3>3. CASE Len(done.pending) # 0
        <4>1. CountSignal(done).sig = "count" /\ CountSignal(done).n # 0
          BY <3>3 DEF CountSignal
        <4>2. PICK x \in Signals : x = CountSignal(done)
          BY <1>6
        <4> DEFINE y == Append(done.out, x)
        <4>3. /\ y \in Seq(Signals) /\ Len(done.out) \in Nat
              /\ DOMAIN done.out = 1..Len(done.out) /\ DOMAIN y = 1..(Len(done.out) + 1)
              /\ Len(y) = Len(done.out) + 1
              /\ x.sig = "count" /\ x.n # 0 => Told(y, Len(done.out) + 1)
          BY <1>5, OutMore
        <4>4. y = out
          BY <3>1, <4>2
        <4> HIDE DEF y
        <4>5. Told(out, Len(out))
          BY <4>1, <4>2, <4>3, <4>4
        <4> QED
          BY <4>5, <2>1 DEF InformedAll
      <3> QED
        BY <3>2, <3>3
    <2>3. SameTurns(client.sawNewMessage, reader.out, client'.sawNewMessage, reader'.out)
      BY <2>1, <1>8, AloneSame
    <2> QED
      BY <2>1, <2>2, <2>3, <1>9, <1>10, AloneSame, QuietStep
  <1>12. CASE reader.pendingFirstMessage
    <2>1. /\ reader'.out = Append(out, FirstSignal(done))
          /\ reader'.pendingPosn = IF 0 < Len(reader'.pending) THEN 1 ELSE 0
      BY <1>1, <1>4, <1>12
    <2>2. FirstSignal(reader') = FirstSignal(done)
      BY <1>4 DEF FirstSignal
    <2>3. Turns(requests) = {} /\ Turning(reader.out) = {} /\ client.smsFetching
      BY <1>12 DEF ReadInv, Token
    <2>4. Turning(out) = {}
      BY <2>3, <1>8 DEF SameTurns
    <2>5. requests' = requests /\ client' = client
      BY DEF Alone
    <2>6. ASSUME ~reader'.overtaken
          PROVE  /\ client.activeIds = <<>> /\ WantedIds(requests') = {}
                 /\ DoomedOnce' /\ CacheStays' /\ AllKept'
      <3>1. Unread
        BY <2>6, <1>10 DEF ReadInv
      <3> QED
        BY <3>1, <2>5, <2>6, <1>9, <1>12 DEF Unread, Begins
    <2> QED
      BY <2>1, <2>2, <2>3, <2>4, <2>5, <2>6, <1>4, <1>7, <1>10, TurnGiven
  <1> QED
    BY <1>11, <1>12

LEMMA LineReads ==
  ASSUME InboxInv, InboxInv', ReadInv, ReadLine, Alone
  PROVE  ReadInv'
  <1>1. CASE Head(rx).what = "answer" /\ Head(reader.at).cmd = "list"
    <2> DEFINE line == Head(rx)
               s    == [reader EXCEPT !.at = Tail(@)]
    <2>1. reader' = CommandDone(reader, line)
      BY <1>1 DEF ReadLine
    <2>2. reader' = StoreListDone(s, line.ok, line.ids)
      BY <2>1, <1>1 DEF CommandDone
    <2>3. ListAnswer
      BY <2>2, <1>1 DEF ListAnswer, ReadLine
    <2> QED
      BY <2>3, ListedAgain, ListAnswered
  <1> QED
    BY <1>1, NewsReads, OtherAnswerReads

-----------------------------------------------------------------------------
\* The steps of the modem

LEMMA ExecuteReads ==
  ASSUME InboxInv, InboxInv', ReadInv, ModemExecutes, Alone
  PROVE  ReadInv'
  <1> DEFINE c == Head(reader.at)
  <1>1. /\ reader \in Readers /\ reader.at \in Seq(Commands) /\ reader.out \in Seq(Signals)
        /\ ToSet(reader.pending) \subseteq Ids /\ modem.sim \in [Places -> 0..MaxMessages]
    BY ReadTyped
  <1>2. reader.at # <<>> /\ ~Outstanding /\ UNCHANGED <<reader, rx, arrived>>
    BY DEF ModemExecutes
  <1>3. PICK ok \in {TRUE} \cup (IF c.cmd = "list" /\ failures > 0 THEN {FALSE} ELSE {}) :
          modem' = [modem EXCEPT
                !.sim = IF c.cmd = "delete" THEN [@ EXCEPT ![c.place] = 0] ELSE @,
                !.notifies = @ \/ c.cmd = "notify",
                !.answer = <<[what |-> "answer", ok |-> ok,
                              ids |-> IF c.cmd = "list" /\ ok THEN Listed ELSE <<>>,
                              used |-> Cardinality(Occupied)]>>]
    BY DEF ModemExecutes
  <1> DEFINE sim  == IF c.cmd = "delete" THEN [modem.sim EXCEPT ![c.place] = 0] ELSE modem.sim
             line == [what |-> "answer", ok |-> ok,
                      ids |-> IF c.cmd = "list" /\ ok THEN Listed ELSE <<>>,
                      used |-> Cardinality(Occupied)]
  <1>4. modem'.sim = sim /\ modem'.answer = <<line>>
    <2>1. modem \in Modems
      BY DEF InboxInv, ReaderInv, ReaderType
    <2>2. modem' = [modem EXCEPT !.sim = sim, !.notifies = modem.notifies \/ c.cmd = "notify",
                                 !.answer = <<line>>]
      BY <1>3, <2>1 DEF Modems
    <2> HIDE DEF sim, line, c
    <2> QED
      BY <2>1, <2>2 DEF Modems
  <1> HIDE DEF line
  <1>5. \A p \in Places : modem'.sim[p] = IF c.cmd = "delete" /\ p = c.place THEN 0 ELSE modem.sim[p]
    <2>1. CASE c.cmd = "delete"
      <3>1. sim = [modem.sim EXCEPT ![c.place] = 0]
        BY <2>1
      <3> HIDE DEF sim, c
      <3> QED
        BY <2>1, <3>1, <1>1, <1>4, PlaceCleared
    <2>2. CASE c.cmd # "delete"
      BY <2>2, <1>4
    <2> QED
      BY <2>1, <2>2
  <1> HIDE DEF sim
  <1>6. Outstanding = FALSE /\ Outstanding' = TRUE
    <2>1. modem'.answer # <<>>
      BY <1>4
    <2> QED
      BY <2>1, <1>2 DEF Outstanding
  <1>7. /\ Doomed(reader.at, TRUE) \subseteq Doomed(reader.at, FALSE)
        /\ OneEach(reader.at, FALSE) => OneEach(reader.at, TRUE)
        /\ c.cmd = "delete" => c.place \in Doomed(reader.at, FALSE)
        /\ c.cmd = "delete" /\ OneEach(reader.at, FALSE) => c.place \notin Doomed(reader.at, TRUE)
    BY <1>1, <1>2, QueueBusy
  <1> HIDE DEF c
  <1>8. /\ Doomed(reader.at, Outstanding) = Doomed(reader.at, FALSE)
        /\ Doomed(reader.at, Outstanding)' = Doomed(reader.at, TRUE)
        /\ OneEach(reader.at, Outstanding) => OneEach(reader.at, FALSE)
        /\ OneEach(reader.at, TRUE) => OneEach(reader.at, Outstanding)'
    BY <1>2, <1>6
  <1>9. SameTurns(client.sawNewMessage, reader.out, client'.sawNewMessage, reader'.out)
    BY <1>1, <1>2, AloneSame, TurnsKept
  <1>10. Coming(reader') = Coming(reader)
    BY <1>2
  <1>11. ASSUME Unread
         PROVE  /\ \A id \in Ids : id.place # 0 /\ Stays(id) => Stays(id)'
                /\ \A m : InFlight(m) => InFlight(m)'
                /\ DoomedOnce' /\ CacheStays' /\ AllKept'
    <2>1. DoomedOnce /\ CacheStays /\ AllKept
      BY <1>11 DEF Unread
    <2>2. \A m : InFlight(m) => InFlight(m)'
      <3>1. Got \subseteq Got' /\ ToSet(reader.dispatched) \subseteq ToSet(reader'.dispatched)
        BY <1>2, AloneSame
      <3> QED
        BY <3>1, InFlightKept
    <2>3. ASSUME NEW id \in Ids, id.place # 0, Stays(id) PROVE Stays(id)'
      <3>1. id.place \in Places
        BY <2>3 DEF Ids, Places
      <3>2. id.place \notin Doomed(reader.at, FALSE) /\ modem.sim[id.place] = id.msg /\ id.msg \notin Datagrams
        BY <2>3, <1>8 DEF Stays
      <3>3. modem'.sim[id.place] = id.msg
        BY <3>1, <3>2, <1>5, <1>7
      <3> QED
        BY <3>2, <3>3, <1>7, <1>8 DEF Stays
    <2>4. CacheStays'
      BY <2>1, <2>3, <1>1, <1>2 DEF CacheStays
    <2>5. OneEach(reader.at, FALSE)
      BY <2>1, <1>8 DEF DoomedOnce
    <2>6. ASSUME NEW p \in Doomed(reader.at, TRUE)
          PROVE  p \in Places /\ modem'.sim[p] = modem.sim[p] /\ modem.sim[p] # 0 /\ InFlight(modem.sim[p])
      BY <2>1, <2>5, <1>5, <1>7, <1>8 DEF DoomedOnce
    <2>7. DoomedOnce'
      <3>1. ASSUME NEW p \in Doomed(reader.at, TRUE) PROVE InFlight(modem.sim[p])'
        <4>1. PICK m : m = modem.sim[p]
          OBVIOUS
        <4>2. InFlight(m)' /\ modem'.sim[p] = m
          BY <4>1, <2>2, <2>6
        <4> QED
          BY <4>2
      <3>2. BeforeLists(reader.at)' /\ OneEach(reader.at, Outstanding)'
        BY <2>1, <2>5, <1>2, <1>7, <1>8 DEF DoomedOnce
      <3> QED
        BY <3>1, <3>2, <2>6, <1>8 DEF DoomedOnce
    <2>8. AllKept'
      <3>1. SUFFICES ASSUME NEW m \in 1..arrived PROVE UnreadKept(m)'
        BY <1>2 DEF AllKept
      <3>2. UnreadKept(m)
        BY <2>1 DEF AllKept
      <3>3. CASE InFlight(m) \/ m \in Direct
        BY <3>3, <2>2 DEF UnreadKept
      <3>4. CASE \E p \in Places : modem.sim[p] = m
        <4>1. PICK p \in Places : modem.sim[p] = m
          BY <3>4
        <4>2. CASE c.cmd = "delete" /\ p = c.place
          <5>1. InFlight(m)
            BY <4>1, <4>2, <2>1, <1>7, <1>8 DEF DoomedOnce
          <5> QED
            BY <5>1, <2>2 DEF UnreadKept
        <4>3. CASE ~(c.cmd = "delete" /\ p = c.place)
          BY <4>1, <4>3, <1>5 DEF UnreadKept
        <4> QED
          BY <4>2, <4>3
      <3> QED
        BY <3>2, <3>3, <3>4 DEF UnreadKept
    <2> QED
      BY <2>2, <2>3, <2>4, <2>7, <2>8
  <1> QED
    BY <1>2, <1>9, <1>10, <1>11, AloneSame, QuietStep

LEMMA AnswerGiven ==
  ASSUME InboxInv, InboxInv', ReadInv, ModemAnswers, Alone
  PROVE  ReadInv'
  <1> DEFINE a == modem.answer
  <1>1. reader \in Readers /\ rx \in Seq(Lines) /\ a \in Seq(Lines) /\ modem \in Modems
    BY Typed DEF InboxInv, ReaderInv
  <1>2. /\ a # <<>> /\ rx' = rx \o a /\ modem' = [modem EXCEPT !.answer = <<>>]
        /\ UNCHANGED <<reader, arrived, failures>>
    BY DEF ModemAnswers
  <1>3. Len(a) = 1 /\ a[1].what = "answer"
    BY <1>2 DEF InboxInv, ReaderInv, OneAnswer
  <1>4. /\ Len(rx) \in Nat /\ DOMAIN rx' = 1..(Len(rx) + Len(a))
        /\ \A i \in 1..Len(a) : rx'[Len(rx) + i] = a[i]
    BY <1>1, <1>2, Concats
  <1>5. modem'.sim = modem.sim
    BY <1>1, <1>2 DEF Modems
  <1>6. Outstanding /\ Outstanding'
    <2>1. Outstanding
      BY <1>2 DEF Outstanding
    <2> HIDE DEF a
    <2>2. Len(rx) + 1 \in DOMAIN rx' /\ rx'[Len(rx) + 1].what = "answer"
      BY <1>3, <1>4
    <2> QED
      BY <2>1, <2>2 DEF Outstanding
  <1>7. Quietly(reader, reader')
    <2>1. Quietly(reader, reader)
      BY <1>1, QuietlySame
    <2> QED
      BY <2>1, <1>2
  <1> QED
    BY <1>2, <1>5, <1>6, <1>7, AloneSame, QuietlyRead

LEMMA ArrivalReads ==
  ASSUME InboxInv, InboxInv', ReadInv, MessageArrives, Alone
  PROVE  ReadInv'
  <1>1. /\ ReaderType /\ reader \in Readers /\ reader.out \in Seq(Signals)
        /\ ToSet(reader.pending) \subseteq Ids /\ modem.sim \in [Places -> 0..MaxMessages]
        /\ modem \in Modems /\ arrived \in Nat
    BY ReadTyped, Typed DEF InboxInv, ReaderInv, ReaderType
  <1>2. arrived < MaxMessages /\ arrived' = arrived + 1 /\ UNCHANGED <<reader, failures>>
    BY DEF MessageArrives
  <1>3. arrived' \in Msgs
    BY <1>1, <1>2, MessagesAssumption DEF Msgs
  <1>4. /\ Outstanding' <=> Outstanding
        /\ \A p \in Places : modem.sim[p] # 0 => modem'.sim[p] = modem.sim[p]
        /\ arrived' \in Direct \/ \E p \in Places : modem'.sim[p] = arrived'
    <2>1. CASE /\ arrived' \in Direct
               /\ rx' = Append(rx, [what |-> "direct", msg |-> arrived'])
               /\ UNCHANGED modem
      <3> DEFINE line == [what |-> "direct", msg |-> arrived']
      <3>1. line \in Lines /\ line.what = "direct"
        BY <1>3 DEF Lines
      <3> HIDE DEF line
      <3>2. rx' = Append(rx, line) /\ line.what # "answer"
        BY <2>1, <3>1 DEF line
      <3>3. Answers' = Answers
        BY <3>1, <3>2, <1>1, LineAdded
      <3> QED
        BY <3>3, <2>1 DEF Outstanding, Answers
    <2>2. CASE /\ arrived' \notin Direct
               /\ \E p \in Places \ Occupied : modem' = [modem EXCEPT !.sim[p] = arrived']
               /\ rx' = IF modem.notifies THEN Append(rx, [what |-> "note"]) ELSE rx
      <3>1. PICK p \in Places \ Occupied : modem' = [modem EXCEPT !.sim[p] = arrived']
        BY <2>2
      <3>2. modem'.sim = [modem.sim EXCEPT ![p] = arrived'] /\ modem'.answer = modem.answer
        BY <3>1, <1>1 DEF Modems
      <3>3. Answers' = Answers
        <4> DEFINE line == [what |-> "note"]
        <4>1. line \in Lines /\ line.what # "answer"
          BY DEF Lines
        <4> HIDE DEF line
        <4>2. CASE modem.notifies
          <5>1. rx' = Append(rx, line)
            BY <2>2, <4>2 DEF line
          <5> QED
            BY <4>1, <5>1, <1>1, LineAdded
        <4>3. CASE ~modem.notifies
          BY <2>2, <4>3 DEF Answers
        <4> QED
          BY <4>2, <4>3
      <3>4. Outstanding' <=> Outstanding
        BY <3>2, <3>3 DEF Outstanding, Answers
      <3>5. modem.sim[p] = 0
        BY DEF Occupied
      <3> QED
        BY <3>2, <3>4, <3>5, <1>1
    <2> QED
      BY <2>1, <2>2 DEF MessageArrives
  <1>5. Outstanding' = Outstanding
    BY <1>4 DEF Outstanding
  <1>6. Doomed(reader.at, Outstanding)' = Doomed(reader.at, Outstanding)
    BY <1>2, <1>5
  <1>7. SameTurns(client.sawNewMessage, reader.out, client'.sawNewMessage, reader'.out)
    BY <1>1, <1>2, AloneSame, TurnsKept
  <1>8. Coming(reader') = Coming(reader)
    BY <1>2
  <1>9. ASSUME Unread
        PROVE  /\ \A id \in Ids : id.place # 0 /\ Stays(id) => Stays(id)'
               /\ \A m : InFlight(m) => InFlight(m)'
               /\ DoomedOnce' /\ CacheStays' /\ AllKept'
    <2>1. DoomedOnce /\ CacheStays /\ AllKept
      BY <1>9 DEF Unread
    <2>2. \A m : InFlight(m) => InFlight(m)'
      <3>1. Got \subseteq Got' /\ ToSet(reader.dispatched) \subseteq ToSet(reader'.dispatched)
        BY <1>2, AloneSame
      <3> QED
        BY <3>1, InFlightKept
    <2>3. ASSUME NEW id \in Ids, id.place # 0, Stays(id) PROVE Stays(id)'
      <3>1. id.place \in Places /\ id.msg # 0
        BY <2>3 DEF Ids, Places, Msgs
      <3> QED
        BY <2>3, <3>1, <1>4, <1>6 DEF Stays
    <2>4. CacheStays'
      BY <2>1, <2>3, <1>1, <1>2 DEF CacheStays
    <2>5. DoomedOnce'
      <3>1. ASSUME NEW p \in Doomed(reader.at, Outstanding)
            PROVE  p \in Places /\ modem'.sim[p] # 0 /\ InFlight(modem.sim[p])'
        <4>1. p \in Places /\ modem.sim[p] # 0 /\ InFlight(modem.sim[p])
          BY <2>1 DEF DoomedOnce
        <4>2. PICK m : m = modem.sim[p]
          OBVIOUS
        <4>3. InFlight(m)' /\ modem'.sim[p] = m
          BY <4>1, <4>2, <2>2, <1>4
        <4> QED
          BY <4>1, <4>2, <4>3
      <3>2. BeforeLists(reader.at)' /\ OneEach(reader.at, Outstanding)'
        BY <2>1, <1>2, <1>5 DEF DoomedOnce
      <3> QED
        BY <3>1, <3>2, <1>6 DEF DoomedOnce
    <2>6. AllKept'
      <3>1. SUFFICES ASSUME NEW m \in 1..arrived' PROVE UnreadKept(m)'
        BY DEF AllKept
      <3>2. CASE m = arrived'
        BY <3>2, <1>4 DEF UnreadKept
      <3>3. CASE m # arrived'
        <4>1. m \in 1..arrived /\ m # 0
          BY <3>3, <1>1, <1>2
        <4>2. UnreadKept(m)
          BY <4>1, <2>1 DEF AllKept
        <4> QED
          BY <4>1, <4>2, <2>2, <1>4 DEF UnreadKept
      <3> QED
        BY <3>2, <3>3
    <2> QED
      BY <2>2, <2>3, <2>4, <2>5, <2>6
  <1> QED
    BY <1>2, <1>7, <1>8, <1>9, AloneSame, QuietStep

-----------------------------------------------------------------------------
\* ReadInv is an invariant.

LEMMA ReadInits ==
  ASSUME Init
  PROVE  ReadInv
  <1>1. /\ reader.pending = <<>> /\ reader.at = <<>> /\ reader.out = <<>> /\ reader.pendingFirstMessage = FALSE
        /\ arrived = 0
    BY DEF Init, ReaderInit
  <1>2. /\ client.smsFetching = FALSE /\ client.activeIds = <<>> /\ client.retrievedIds = {}
        /\ client.mailbox = {} /\ requests = <<>>
    BY DEF Init
  <1>3. DOMAIN <<>> = {} /\ ToSet(<<>>) = {}
    BY DEF ToSet
  <1>4. Turns(requests) = {} /\ Turning(reader.out) = {} /\ Wanted(requests) = {} /\ Active = {}
    BY <1>1, <1>2, <1>3 DEF Turns, Turning, Wanted, Active
  <1>5. WantedIds(requests) = {} /\ ~Has(requests, "first") /\ ~Has(requests, "next")
    BY <1>2, <1>3, <1>4 DEF WantedIds, Has
  <1>6. Token
    BY <1>1, <1>2, <1>4 DEF Token, OneTurn, OneAnswered
  <1>7. Received
    BY <1>2, <1>4 DEF Received
  <1>8. \A busy : Deletes(<<>>, busy) = {}
    BY <1>3 DEF Deletes
  <1>9. \A busy : Doomed(<<>>, busy) = {} /\ OneEach(<<>>, busy)
    BY <1>8, DoomedPlaces DEF OneEach
  <1>10. DoomedOnce
    BY <1>1, <1>3, <1>9 DEF DoomedOnce, BeforeLists
  <1>11. AskedOnce
    BY <1>4, <1>5 DEF AskedOnce, OneWanted
  <1>12. KnownOk /\ FetchesOk
    BY <1>4 DEF KnownOk, FetchesOk
  <1>13. CacheStays
    BY <1>1, <1>3 DEF CacheStays
  <1>14. NoneTwice
    BY <1>4, <1>5, FetchedTurning DEF NoneTwice
  <1>15. Begins
    BY <1>1, <1>4, <1>5, NoTurns DEF Begins
  <1>16. AllKept
    BY <1>1 DEF AllKept
  <1> QED
    BY <1>6, <1>7, <1>10, <1>11, <1>12, <1>13, <1>14, <1>15, <1>16 DEF ReadInv, Unread

LEMMA ReadStep ==
  ASSUME InboxInv, InboxInv', ReadInv, [Next]_vars
  PROVE  ReadInv'
  <1>1. CASE ReaderNext /\ UNCHANGED <<client, requests>>
    BY <1>1, ReadyReads, LineReads, ExecuteReads, AnswerGiven, ArrivalReads DEF ReaderNext, Alone
  <1>2. CASE ReceiveSignal
    BY <1>2, SignalReads
  <1>3. CASE ServeRequest
    BY <1>3, ServeReads
  <1>4. CASE CheckForNewMessages
    BY <1>4, CheckReads
  <1>5. CASE DeleteImmediately
    BY <1>5, UserDeleteReads
  <1>6. CASE UNCHANGED vars
    <2>1. UNCHANGED <<reader, modem, rx, arrived, failures>> /\ Alone /\ client' = client
      BY <1>6 DEF vars, Alone
    <2> QED
      BY <2>1, AloneSame, ChecksRead
  <1> QED
    BY <1>1, <1>2, <1>3, <1>4, <1>5, <1>6 DEF Next

LEMMA ReadInvariant == Spec => [](InboxInv /\ ReadInv)
  <1>1. Init => InboxInv /\ ReadInv
    BY InboxInits, ReadInits
  <1>2. InboxInv /\ ReadInv /\ [Next]_vars => (InboxInv /\ ReadInv)'
    BY InboxStep, ReadStep
  <1> QED
    BY <1>1, <1>2, PTL DEF Spec

LEMMA InvUnread ==
  ASSUME ReadInv
  PROVE  NothingUnreadDeleted
  BY DEF ReadInv, Unread, AllKept, NothingUnreadDeleted

\* No message is deleted from the SIM before it has been dispatched to its
\* service or retrieved by the client, in whatever order the calls of
\* SmsClient, the signals of QModemSMSReader, the answers of the modem and
\* new messages meet, unless a deletion has had to wait behind AT+CMGL.
THEOREM NothingUnreadIsDeleted == Spec => []NothingUnreadDeleted
  BY ReadInvariant, InvUnread, PTL

=============================================================================
