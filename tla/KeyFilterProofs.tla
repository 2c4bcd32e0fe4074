--------------------------- MODULE KeyFilterProofs ---------------------------
(* For every configuration: the lists of ranges and the tries contain what they *)
(* were given, and filter_cmd_key answers as configured.                        *)
EXTENDS KeyFilter, TLAPS

ByStart(ranges) ==
  \A i, j \in DOMAIN ranges : i < j => ranges[i].start <= ranges[j].start
SomeCovers(ranges, s) == \E k \in DOMAIN ranges : InRange(ranges[k], s)

\* Every prefix of a key that was inserted has a node, and there are no nodes without keys.
TrieOK(t) ==
  /\ t.ends \subseteq Bytes /\ <<>> \in t.nodes
  /\ \A key \in t.ends : Prefixes(key) \subseteq t.nodes
  /\ t.ends = {} => t.nodes = {<<>>}

Types ==
  /\ config \in FilterConfig /\ left \in FilterConfig /\ config \in Configs
  /\ pc \in {"insert", "merge", "add", "ready"}
  /\ tries \in [Tries -> [nodes : SUBSET Bytes, ends : SUBSET Bytes]]
  /\ slots \in [SlotLists -> Seq(Range16)]
  /\ added \in [SlotLists -> SUBSET Range16]
  /\ merge \in [list : SlotLists \union {""}, sorted : Seq(Range16), i : Nat, current : Range16,
                merged : Seq(Range16)]
  /\ answer \in BOOLEAN
  /\ request \in Requests \union {NoRequest}

\* What was taken from the configuration is in the filter.
Inserted ==
  /\ dbs \union Range(left.db) = Range(config.db)
  /\ \A t \in Tries : TrieOK(tries[t]) /\ tries[t].ends \union Range(left[t]) = Range(config[t])
  /\ \A l \in SlotLists : left[l] = <<>> \/ (left[l] = config[l] /\ slots[l] = <<>> /\ added[l] = {} /\ merge.list # l)
  /\ pc \in {"ready", "add"} => \A f \in Fields : left[f] = <<>>

\* A list that is not being merged.
ListOK(l) ==
  /\ ByStart(slots[l])
  /\ slots[l] = <<>> <=> Given(l) = {}
  /\ \A s \in U16 : SomeCovers(slots[l], s) <=> \E r \in Given(l) : InRange(r, s)

Working == pc \in {"merge", "add"}

\* What the loop has pushed, the range it has at hand and those it has not seen cover, together,
\* what the list was given; and they are in order.
LoopOK ==
  /\ merge.list \in SlotLists /\ merge.i \in 2 .. Len(merge.sorted) + 1
  /\ Given(merge.list) # {}
  /\ ByStart(merge.sorted) /\ ByStart(merge.merged)
  /\ \A k \in DOMAIN merge.merged : merge.merged[k].start <= merge.current.start
  /\ \A k \in merge.i .. Len(merge.sorted) : merge.current.start <= merge.sorted[k].start
  /\ \A s \in U16 :
       (\/ SomeCovers(merge.merged, s)
        \/ InRange(merge.current, s)
        \/ \E k \in merge.i .. Len(merge.sorted) : InRange(merge.sorted[k], s))
       <=> \E r \in Given(merge.list) : InRange(r, s)

Lists ==
  /\ \A l \in SlotLists : left[l] = <<>> /\ merge.list # l => ListOK(l)
  /\ Working => LoopOK
  /\ merge = NoMerge <=> ~ Working

\* What is proved inductive.
Inv == Types /\ Inserted /\ Lists /\ AnswersAsConfigured

-----------------------------------------------------------------------------
(* Tries.                                                                  *)

\* A prefix of a prefix is a prefix.
LEMMA PrefixOfPrefix ==
  ASSUME NEW p \in Bytes, NEW key \in Bytes, IsPrefix(p, key), NEW i \in 0 .. Len(p)
  PROVE  SubSeq(key, 1, i) = SubSeq(p, 1, i) /\ SubSeq(key, 1, i) \in Prefixes(p)
  <1>1. Len(p) \in Nat /\ Len(key) \in Nat /\ Len(p) <= Len(key) BY DEF IsPrefix, Bytes
  <1>2. \A j \in 1 .. Len(p) : key[j] = p[j]
    <2>1. SubSeq(p, 1, Len(p)) = SubSeq(key, 1, Len(p)) BY DEF IsPrefix
    <2>2. \A j \in 1 .. Len(p) : SubSeq(p, 1, Len(p))[j] = p[j] /\ SubSeq(key, 1, Len(p))[j] = key[j]
      BY <1>1 DEF Bytes
    <2> QED BY <2>1, <2>2
  <1>3. SubSeq(key, 1, i) = [j \in 1 .. i |-> key[j]] BY <1>1 DEF Bytes
  <1>4. SubSeq(p, 1, i) = [j \in 1 .. i |-> p[j]] BY <1>1 DEF Bytes
  <1>5. SubSeq(key, 1, i) = SubSeq(p, 1, i) BY <1>1, <1>2, <1>3, <1>4
  <1> QED BY <1>5 DEF Prefixes

LEMMA WholeIsPrefix ==
  ASSUME NEW key \in Bytes
  PROVE  SubSeq(key, 1, Len(key)) = key /\ key \in Prefixes(key) /\ IsPrefix(key, key)
  <1>1. SubSeq(key, 1, Len(key)) = key BY DEF Bytes
  <1>2. Len(key) \in 0 .. Len(key) /\ Len(key) <= Len(key) BY DEF Bytes
  <1> QED BY <1>1, <1>2 DEF Prefixes, IsPrefix

\* The walk along a key reaches every node of a prefix that was inserted.
LEMMA Reached ==
  ASSUME NEW t, TrieOK(t), NEW p \in t.ends, NEW key \in Bytes, IsPrefix(p, key)
  PROVE  Reaches(t, key, Len(p)) /\ SubSeq(key, 1, Len(p)) = p /\ Len(p) \in 0 .. Len(key)
  <1>1. p \in Bytes /\ Prefixes(p) \subseteq t.nodes BY DEF TrieOK
  <1>2. Len(p) \in Nat /\ Len(key) \in Nat /\ Len(p) <= Len(key) BY <1>1 DEF IsPrefix, Bytes
  <1>3. Reaches(t, key, Len(p)) BY <1>1, PrefixOfPrefix DEF Reaches
  <1>4. SubSeq(key, 1, Len(p)) = p BY <1>1, WholeIsPrefix DEF IsPrefix
  <1> QED BY <1>2, <1>3, <1>4

LEMMA ExactMatchIsMember ==
  ASSUME NEW t, TrieOK(t), NEW key \in Bytes
  PROVE  ExactMatch(t, key) <=> key \in t.ends
  BY Reached, WholeIsPrefix DEF ExactMatch

LEMMA MatchesPrefixIsPrefix ==
  ASSUME NEW t, TrieOK(t), NEW key \in Bytes
  PROVE  MatchesPrefix(t, key) <=> HasPrefixIn(key, t.ends)
  <1>1. ASSUME NEW n \in 0 .. Len(key), SubSeq(key, 1, n) \in t.ends
        PROVE  IsPrefix(SubSeq(key, 1, n), key)
    <2> DEFINE p == SubSeq(key, 1, n)
    <2>1. Len(key) \in Nat /\ n \in Nat /\ n <= Len(key) BY DEF Bytes
    <2>2. p \in Bytes /\ Len(p) = n BY <2>1 DEF Bytes
    <2>3. SubSeq(p, 1, Len(p)) = p BY <2>2, WholeIsPrefix
    <2> QED BY <2>1, <2>2, <2>3 DEF IsPrefix
  <1>2. MatchesPrefix(t, key) => HasPrefixIn(key, t.ends)
    BY <1>1 DEF MatchesPrefix, HasPrefixIn
  <1>3. HasPrefixIn(key, t.ends) => MatchesPrefix(t, key)
    BY Reached DEF MatchesPrefix, HasPrefixIn
  <1> QED BY <1>2, <1>3

LEMMA EmptyTrieIsEmpty ==
  ASSUME NEW t, TrieOK(t)
  PROVE  IsEmptyTrie(t) <=> t.ends = {}
  <1>1. ASSUME IsEmptyTrie(t), NEW e \in t.ends PROVE FALSE
    <2>1. e \in t.nodes BY WholeIsPrefix DEF TrieOK
    <2> QED BY <1>1, <2>1 DEF IsEmptyTrie
  <1> QED BY <1>1 DEF IsEmptyTrie, TrieOK

LEMMA InsertTrie ==
  ASSUME NEW t \in [nodes : SUBSET Bytes, ends : SUBSET Bytes], TrieOK(t), NEW key \in Bytes
  PROVE  /\ Insert(t, key) \in [nodes : SUBSET Bytes, ends : SUBSET Bytes]
         /\ TrieOK(Insert(t, key)) /\ Insert(t, key).ends = t.ends \union {key}
  <1>1. Prefixes(key) \subseteq Bytes
    <2> SUFFICES ASSUME NEW n \in 0 .. Len(key) PROVE SubSeq(key, 1, n) \in Bytes BY DEF Prefixes
    <2> QED BY DEF Bytes
  <1> QED BY <1>1 DEF Insert, TrieOK

-----------------------------------------------------------------------------
(* Ranges.                                                                 *)

LEMMA RangeType ==
  ASSUME NEW r \in Range16
  PROVE  r.start \in Int /\ r.end \in Int /\ r.start >= 0 /\ r.end <= MaxU16 /\ r.start \in U16
  BY FilterAssumption DEF Range16, U16

\* Ending the search early misses nothing.
LEMMA ContainsIfCovered ==
  ASSUME NEW ranges \in Seq(Range16), ByStart(ranges), NEW s \in U16
  PROVE  Covers(ranges, s) <=> SomeCovers(ranges, s)
  <1>1. \A k \in DOMAIN ranges : ranges[k] \in Range16 /\ DOMAIN ranges = 1 .. Len(ranges) OBVIOUS
  <1>2. U16 \subseteq Int BY FilterAssumption DEF U16
  <1>3. ASSUME NEW k \in DOMAIN ranges, InRange(ranges[k], s), NEW j \in 1 .. k - 1
        PROVE  s >= ranges[j].start
    <2>1. j \in DOMAIN ranges /\ j < k BY <1>1
    <2>2. ranges[j].start <= ranges[k].start BY <2>1 DEF ByStart
    <2>3. ranges[j].start \in Int /\ ranges[k].start \in Int /\ s \in Int
      BY <1>1, <1>2, <2>1, RangeType
    <2> QED BY <1>3, <2>2, <2>3 DEF InRange
  <1> QED BY <1>3 DEF Covers, SomeCovers

\* Merging two ranges that touch covers what they cover.
LEMMA MergeCovers ==
  ASSUME NEW a \in Range16, NEW b \in Range16, a.start <= b.start, Touches(a, b),
         NEW s \in U16
  PROVE  InRange([a EXCEPT !.end = Later(@, b.end)], s) <=> InRange(a, s) \/ InRange(b, s)
  <1>1. MaxU16 \in Nat /\ s \in Int /\ s <= MaxU16 BY FilterAssumption DEF U16
  <1>2. /\ a.start \in Int /\ a.end \in Int /\ b.start \in Int /\ b.end \in Int
        /\ a.start >= 0 /\ a.end <= MaxU16 /\ b.end <= MaxU16
    BY RangeType
  <1>3. [a EXCEPT !.end = Later(@, b.end)].start = a.start
        /\ [a EXCEPT !.end = Later(@, b.end)].end = Later(a.end, b.end)
    BY DEF Range16
  <1> QED BY <1>1, <1>2, <1>3 DEF InRange, Later, Touches, After

\* Sorting keeps the ranges.
LEMMA SortedCovers ==
  ASSUME NEW ranges \in Seq(Range16), ranges # <<>>, NEW f \in Sortings(ranges)
  PROVE  LET sorted == [i \in DOMAIN ranges |-> ranges[f[i]]]
         IN  /\ sorted \in Seq(Range16) /\ Len(sorted) = Len(ranges) /\ Len(sorted) >= 1
             /\ ByStart(sorted)
             /\ \A s \in U16 : SomeCovers(sorted, s) <=> SomeCovers(ranges, s)
  <1> DEFINE sorted == [i \in DOMAIN ranges |-> ranges[f[i]]]
  <1>1. Len(ranges) \in Nat /\ Len(ranges) >= 1 /\ DOMAIN ranges = 1 .. Len(ranges)
        /\ f \in [DOMAIN ranges -> DOMAIN ranges] /\ IsSorting(ranges, f)
    BY DEF Sortings
  <1>2. sorted \in Seq(Range16) /\ Len(sorted) = Len(ranges) BY <1>1
  <1>3. DOMAIN sorted = DOMAIN ranges OBVIOUS
  <1>4. ByStart(sorted)
    <2> SUFFICES ASSUME NEW i \in DOMAIN ranges, NEW j \in DOMAIN ranges, i < j
                 PROVE  sorted[i].start <= sorted[j].start
      BY <1>3 DEF ByStart
    <2>1. f[i] \in DOMAIN ranges /\ f[j] \in DOMAIN ranges BY <1>1
    <2>2. ranges[f[i]].start \in Int /\ ranges[f[j]].start \in Int BY <2>1, RangeType
    <2>3. \/ ranges[f[i]].start < ranges[f[j]].start
          \/ ranges[f[i]].start = ranges[f[j]].start
      BY <1>1 DEF IsSorting
    <2> QED BY <2>2, <2>3
  <1>5. ASSUME NEW s \in U16 PROVE SomeCovers(sorted, s) <=> SomeCovers(ranges, s)
    <2>1. ASSUME NEW i \in DOMAIN ranges, InRange(sorted[i], s) PROVE SomeCovers(ranges, s)
      BY <1>1, <2>1 DEF SomeCovers
    <2>2. ASSUME NEW i \in DOMAIN ranges, InRange(ranges[i], s) PROVE SomeCovers(sorted, s)
      <3>1. PICK j \in DOMAIN ranges : f[j] = i BY <1>1 DEF IsSorting
      <3> QED BY <2>2, <3>1 DEF SomeCovers
    <2> QED BY <1>3, <2>1, <2>2 DEF SomeCovers
  <1> QED BY <1>1, <1>2, <1>4, <1>5

-----------------------------------------------------------------------------
(* The steps.                                                              *)

LEMMA HeadAndTail ==
  ASSUME NEW S, NEW q \in Seq(S), q # <<>>
  PROVE  Head(q) \in S /\ Tail(q) \in Seq(S) /\ Range(q) = {Head(q)} \union Range(Tail(q))
  <1>1. Head(q) \in S /\ Tail(q) \in Seq(S) OBVIOUS
  <1>2. Len(q) \in Nat /\ Len(q) >= 1 /\ DOMAIN q = 1 .. Len(q) /\ DOMAIN Tail(q) = 1 .. Len(q) - 1
    OBVIOUS
  <1>3. Head(q) = q[1] /\ \A i \in 1 .. Len(q) - 1 : Tail(q)[i] = q[i + 1] OBVIOUS
  <1>4. ASSUME NEW i \in 1 .. Len(q) PROVE q[i] \in {Head(q)} \union Range(Tail(q))
    <2>1. CASE i = 1 BY <1>3, <2>1
    <2>2. CASE i # 1
      <3>1. i - 1 \in 1 .. Len(q) - 1 /\ (i - 1) + 1 = i BY <1>2, <2>2
      <3>2. Tail(q)[i - 1] = q[i] BY <1>3, <3>1
      <3> QED BY <1>2, <3>1, <3>2 DEF Range
    <2> QED BY <2>1, <2>2
  <1>5. ASSUME NEW i \in 1 .. Len(q) - 1 PROVE Tail(q)[i] \in Range(q)
    <2>1. i + 1 \in 1 .. Len(q) BY <1>2
    <2> QED BY <1>2, <1>3, <2>1 DEF Range
  <1>6. Head(q) \in Range(q) BY <1>2, <1>3 DEF Range
  <1> QED BY <1>1, <1>2, <1>4, <1>5, <1>6 DEF Range

LEMMA FieldsOf ==
  /\ Tries \subseteq Fields /\ SlotLists \subseteq Fields
  /\ \A l \in SlotLists : l \notin Tries /\ l # "db" /\ l # ""
  /\ \A t \in Tries : t # "db"
  BY DEF Tries, SlotLists, Fields

LEMMA FieldTypes ==
  ASSUME NEW c \in FilterConfig
  PROVE  /\ c.db \in Seq(Nat) /\ \A t \in Tries : c[t] \in Seq(Bytes)
         /\ \A l \in SlotLists : c[l] \in Seq(Range16)
  BY DEF FilterConfig, Tries, SlotLists

\* What keeps the answer right, and the lists.
LEMMA AnswerKept ==
  ASSUME Inv, UNCHANGED <<config, added, request, answer>>
  PROVE  AnswersAsConfigured'
  BY DEF Inv, AnswersAsConfigured, ShouldFilter, Given

LEMMA ListsKept ==
  ASSUME Inv, UNCHANGED <<config, pc, slots, merge, added>>,
         \A l \in SlotLists : left'[l] = left[l]
  PROVE  Lists'
  BY DEF Inv, Lists, ListOK, LoopOK, Given, Working

LEMMA InsertDbInv ==
  ASSUME Inv, InsertDb
  PROVE  Inv'
  <1>1. /\ pc = "insert" /\ left.db # <<>> /\ dbs' = dbs \union {Head(left.db)}
        /\ left' = [left EXCEPT !.db = Tail(@)]
        /\ UNCHANGED <<config, pc, tries, slots, merge, added, request, answer>>
    BY DEF InsertDb
  <1>2. left \in FilterConfig /\ left.db \in Seq(Nat) BY FieldTypes DEF Inv, Types
  <1>3. Tail(left.db) \in Seq(Nat) /\ Range(left.db) = {Head(left.db)} \union Range(Tail(left.db))
    BY <1>1, <1>2, HeadAndTail
  <1>4. left' \in FilterConfig /\ left'.db = Tail(left.db) BY <1>1, <1>2, <1>3 DEF FilterConfig
  <1>5. \A f \in Tries \union SlotLists : left'[f] = left[f]
    BY <1>1, <1>2 DEF FilterConfig, Tries, SlotLists
  <1>6. Types' BY <1>1, <1>4 DEF Inv, Types
  <1>7. Inserted'
    <2>1. (dbs \union Range(left.db) = Range(config.db))' BY <1>1, <1>3, <1>4 DEF Inv, Inserted
    <2>2. \A t \in Tries : (TrieOK(tries[t]) /\ tries[t].ends \union Range(left[t]) = Range(config[t]))'
      BY <1>1, <1>5 DEF Inv, Inserted, TrieOK
    <2>3. (\A l \in SlotLists : left[l] = <<>> \/ (left[l] = config[l] /\ slots[l] = <<>> /\ added[l] = {} /\ merge.list # l))'
      BY <1>1, <1>5 DEF Inv, Inserted
    <2> QED BY <1>1, <2>1, <2>2, <2>3 DEF Inserted
  <1> QED BY <1>1, <1>5, <1>6, <1>7, AnswerKept, ListsKept DEF Inv

LEMMA InsertKeyInv ==
  ASSUME Inv, NEW t \in Tries, InsertKey(t)
  PROVE  Inv'
  <1>1. /\ pc = "insert" /\ left[t] # <<>>
        /\ tries' = [tries EXCEPT ![t] = Insert(@, Head(left[t]))]
        /\ left' = [left EXCEPT ![t] = Tail(@)]
        /\ UNCHANGED <<config, pc, dbs, slots, merge, added, request, answer>>
    BY DEF InsertKey, Turn
  <1>2. left \in FilterConfig /\ left[t] \in Seq(Bytes) BY FieldTypes DEF Inv, Types
  <1>3. /\ Head(left[t]) \in Bytes /\ Tail(left[t]) \in Seq(Bytes)
        /\ Range(left[t]) = {Head(left[t])} \union Range(Tail(left[t]))
    BY <1>1, <1>2, HeadAndTail
  <1>4. left' \in FilterConfig /\ left'[t] = Tail(left[t])
    BY <1>1, <1>2, <1>3 DEF FilterConfig, Tries
  <1>5. \A f \in Fields \ {t} : left'[f] = left[f]
    BY <1>1, <1>2 DEF FilterConfig, Tries, SlotLists, Fields
  <1>6. tries[t] \in [nodes : SUBSET Bytes, ends : SUBSET Bytes] /\ TrieOK(tries[t])
    BY DEF Inv, Types, Inserted
  <1>7. /\ Insert(tries[t], Head(left[t])) \in [nodes : SUBSET Bytes, ends : SUBSET Bytes]
        /\ TrieOK(Insert(tries[t], Head(left[t])))
        /\ Insert(tries[t], Head(left[t])).ends = tries[t].ends \union {Head(left[t])}
    BY <1>3, <1>6, InsertTrie
  <1>8. tries' \in [Tries -> [nodes : SUBSET Bytes, ends : SUBSET Bytes]]
    BY <1>1, <1>7 DEF Inv, Types
  <1>9. tries'[t] = Insert(tries[t], Head(left[t])) /\ \A u \in Tries \ {t} : tries'[u] = tries[u]
    BY <1>1 DEF Inv, Types
  <1>10. Types' BY <1>1, <1>4, <1>8 DEF Inv, Types
  <1>11. \A l \in SlotLists : left'[l] = left[l] /\ left'.db = left.db
    BY <1>5, FieldsOf DEF Fields
  <1>12. Inserted'
    <2>1. (dbs \union Range(left.db) = Range(config.db))' BY <1>1, <1>11 DEF Inv, Inserted, SlotLists
    <2>2. ASSUME NEW u \in Tries
          PROVE  (TrieOK(tries[u]) /\ tries[u].ends \union Range(left[u]) = Range(config[u]))'
      <3>1. CASE u = t
        <4>1. TrieOK(tries'[t]) BY <1>7, <1>9
        <4>2. tries[t].ends \union Range(left[t]) = Range(config[t]) BY DEF Inv, Inserted
        <4>3. tries'[t].ends \union Range(left'[t]) = Range(config'[t])
          BY <1>1, <1>3, <1>4, <1>7, <1>9, <4>2
        <4> QED BY <3>1, <4>1, <4>3 DEF TrieOK
      <3>2. CASE u # t
        <4>1. tries'[u] = tries[u] /\ left'[u] = left[u] BY <1>5, <1>9, <3>2, FieldsOf
        <4>2. TrieOK(tries[u]) /\ tries[u].ends \union Range(left[u]) = Range(config[u]) BY DEF Inv, Inserted
        <4> QED BY <1>1, <4>1, <4>2 DEF TrieOK
      <3> QED BY <3>1, <3>2
    <2>3. (\A l \in SlotLists : left[l] = <<>> \/ (left[l] = config[l] /\ slots[l] = <<>> /\ added[l] = {} /\ merge.list # l))'
      BY <1>1, <1>11 DEF Inv, Inserted
    <2> QED BY <1>1, <2>1, <2>2, <2>3 DEF Inserted
  <1> QED BY <1>1, <1>10, <1>11, <1>12, AnswerKept, ListsKept DEF Inv

\* from_config begins: the loop has seen the first range.
LEMMA BeginMergeLoop ==
  ASSUME NEW l \in SlotLists, NEW ranges \in Seq(Range16), ranges # <<>>, BeginMerge(l, ranges),
         Given(l)' # {},
         \A s \in U16 : SomeCovers(ranges, s) <=> \E r \in Given(l)' : InRange(r, s)
  PROVE  /\ LoopOK' /\ merge'.list = l /\ merge' # NoMerge
         /\ merge' \in [list : SlotLists \union {""}, sorted : Seq(Range16), i : Nat, current : Range16,
                        merged : Seq(Range16)]
  <1>1. PICK f \in Sortings(ranges) :
          merge' = [list |-> l, sorted |-> [i \in DOMAIN ranges |-> ranges[f[i]]], i |-> 2,
                    current |-> [i \in DOMAIN ranges |-> ranges[f[i]]][1], merged |-> <<>>]
    BY DEF BeginMerge
  <1> DEFINE sorted == [i \in DOMAIN ranges |-> ranges[f[i]]]
  <1>2. /\ sorted \in Seq(Range16) /\ Len(sorted) >= 1 /\ ByStart(sorted) /\ Len(sorted) \in Nat
        /\ \A s \in U16 : SomeCovers(sorted, s) <=> SomeCovers(ranges, s)
    BY SortedCovers
  <1> HIDE DEF sorted
  <1>3. merge' = [list |-> l, sorted |-> sorted, i |-> 2, current |-> sorted[1], merged |-> <<>>]
    BY <1>1 DEF sorted
  <1>4. sorted[1] \in Range16 /\ DOMAIN sorted = 1 .. Len(sorted) BY <1>2
  <1>5. \A k \in 2 .. Len(sorted) : sorted[1].start <= sorted[k].start BY <1>2, <1>4 DEF ByStart
  <1>6. ASSUME NEW s \in U16
        PROVE  (InRange(sorted[1], s) \/ \E k \in 2 .. Len(sorted) : InRange(sorted[k], s))
               <=> SomeCovers(sorted, s)
    <2>1. 1 .. Len(sorted) = {1} \union 2 .. Len(sorted) BY <1>2
    <2> QED BY <1>4, <2>1 DEF SomeCovers
  <1>7. LoopOK'
    <2>1. ByStart(<<>>) /\ DOMAIN <<>> = {} BY DEF ByStart
    <2>2. \A s \in U16 : ~ SomeCovers(<<>>, s) BY DEF SomeCovers
    <2>3. 2 \in 2 .. Len(sorted) + 1 BY <1>2
    <2>4. Given(merge.list)' = Given(l)' BY <1>3 DEF Given
    <2> QED BY <1>2, <1>3, <1>5, <1>6, <2>1, <2>2, <2>3, <2>4 DEF LoopOK, Given, ByStart, SomeCovers
  <1>8. merge' # NoMerge BY <1>3, FieldsOf DEF NoMerge
  <1>9. <<>> \in Seq(Range16) OBVIOUS
  <1>10. merge' \in [list : SlotLists \union {""}, sorted : Seq(Range16), i : Nat, current : Range16,
                     merged : Seq(Range16)]
    BY <1>2, <1>3, <1>4, <1>9
  <1>11. merge'.list = l BY <1>3
  <1> QED BY <1>7, <1>8, <1>10, <1>11

LEMMA BuildSlotsInv ==
  ASSUME Inv, NEW l \in SlotLists, BuildSlots(l)
  PROVE  Inv'
  <1>1. /\ pc = "insert" /\ left[l] # <<>> /\ BeginMerge(l, left[l])
        /\ left' = [left EXCEPT ![l] = <<>>] /\ pc' = "merge"
        /\ UNCHANGED <<config, dbs, tries, slots, added, request, answer>>
    BY DEF BuildSlots, Turn
  <1>2. left \in FilterConfig /\ left[l] \in Seq(Range16) BY FieldTypes DEF Inv, Types
  <1>3. left[l] = config[l] /\ slots[l] = <<>> /\ added[l] = {} BY <1>1 DEF Inv, Inserted
  <1>4. merge = NoMerge /\ merge.list = ""
    <2>1. merge = NoMerge BY <1>1 DEF Inv, Lists, Working
    <2> QED BY <2>1 DEF NoMerge
  <1>5. Given(l)' = Range(left[l]) BY <1>1, <1>3 DEF Given
  <1>6. Given(l)' # {}
    <2>1. 1 \in DOMAIN left[l] BY <1>1, <1>2
    <2> QED BY <1>5, <2>1 DEF Range
  <1>7. \A s \in U16 : SomeCovers(left[l], s) <=> \E r \in Given(l)' : InRange(r, s)
    BY <1>5 DEF SomeCovers, Range
  <1>8. /\ LoopOK' /\ merge'.list = l /\ merge' # NoMerge
        /\ merge' \in [list : SlotLists \union {""}, sorted : Seq(Range16), i : Nat, current : Range16,
                       merged : Seq(Range16)]
    BY <1>1, <1>2, <1>6, <1>7, BeginMergeLoop
  <1>9. <<>> \in Seq(Range16) OBVIOUS
  <1>10. left' \in FilterConfig /\ left'[l] = <<>> /\ \A f \in Fields \ {l} : left'[f] = left[f]
    BY <1>1, <1>2, <1>9 DEF FilterConfig, SlotLists, Fields, Tries
  <1>11. Types' BY <1>1, <1>8, <1>10 DEF Inv, Types
  <1>12. left'.db = left.db /\ \A t \in Tries : left'[t] = left[t] BY <1>10, FieldsOf DEF Fields
  <1>13. Inserted'
    <2>1. (dbs \union Range(left.db) = Range(config.db))' BY <1>1, <1>12 DEF Inv, Inserted
    <2>2. \A t \in Tries : (TrieOK(tries[t]) /\ tries[t].ends \union Range(left[t]) = Range(config[t]))'
      BY <1>1, <1>12 DEF Inv, Inserted, TrieOK
    <2>3. (\A k \in SlotLists : left[k] = <<>> \/ (left[k] = config[k] /\ slots[k] = <<>> /\ added[k] = {} /\ merge.list # k))'
      BY <1>1, <1>8, <1>10, FieldsOf DEF Inv, Inserted
    <2> QED BY <1>1, <2>1, <2>2, <2>3 DEF Inserted
  <1>14. Lists'
    <2>1. ASSUME NEW k \in SlotLists, left'[k] = <<>>, merge'.list # k PROVE ListOK(k)'
      <3>1. left[k] = <<>> /\ merge.list # k BY <1>4, <1>8, <1>10, <2>1, FieldsOf
      <3>2. ListOK(k) BY <3>1 DEF Inv, Lists
      <3> QED BY <1>1, <3>2 DEF ListOK, Given, ByStart, SomeCovers
    <2> QED BY <1>1, <1>8, <2>1 DEF Lists, Working
  <1> QED BY <1>1, <1>11, <1>13, <1>14, AnswerKept DEF Inv

\* A call of from_config that is running.
LEMMA LoopTypes ==
  ASSUME Inv, Working
  PROVE  /\ LoopOK /\ merge.sorted \in Seq(Range16) /\ merge.merged \in Seq(Range16)
         /\ merge.current \in Range16 /\ merge.list \in SlotLists
         /\ merge \in [list : SlotLists \union {""}, sorted : Seq(Range16), i : Nat, current : Range16,
                       merged : Seq(Range16)]
  <1>1. LoopOK BY DEF Inv, Lists
  <1>2. merge \in [list : SlotLists \union {""}, sorted : Seq(Range16), i : Nat, current : Range16,
                  merged : Seq(Range16)]
    BY DEF Inv, Types
  <1>3. merge.sorted \in Seq(Range16) /\ merge.merged \in Seq(Range16) /\ merge.current \in Range16
    BY <1>2
  <1>4. merge.list \in SlotLists BY <1>1 DEF LoopOK
  <1> QED BY <1>1, <1>2, <1>3, <1>4

LEMMA LoopIndexes ==
  ASSUME Inv, Working
  PROVE  /\ merge.i \in Nat /\ merge.i >= 2
         /\ Len(merge.sorted) \in Nat /\ DOMAIN merge.sorted = 1 .. Len(merge.sorted)
         /\ Len(merge.merged) \in Nat /\ DOMAIN merge.merged = 1 .. Len(merge.merged)
         /\ merge.i <= Len(merge.sorted) + 1
         /\ \A k \in 1 .. Len(merge.sorted) : merge.sorted[k] \in Range16
  <1>1. merge.sorted \in Seq(Range16) /\ merge.merged \in Seq(Range16) BY LoopTypes
  <1>2. /\ Len(merge.sorted) \in Nat /\ DOMAIN merge.sorted = 1 .. Len(merge.sorted)
        /\ \A k \in 1 .. Len(merge.sorted) : merge.sorted[k] \in Range16
    BY <1>1
  <1>3. Len(merge.merged) \in Nat /\ DOMAIN merge.merged = 1 .. Len(merge.merged) BY <1>1
  <1>4. merge.i \in 2 .. Len(merge.sorted) + 1 BY LoopTypes DEF LoopOK
  <1>5. merge.i \in Nat /\ merge.i >= 2 /\ merge.i <= Len(merge.sorted) + 1 BY <1>2, <1>4
  <1> QED BY <1>2, <1>3, <1>5

\* A step of the loop that leaves merge in order.
LEMMA LoopStepInv ==
  ASSUME Inv, Merging, LoopOK', merge' # NoMerge, merge'.list = merge.list,
         UNCHANGED <<config, pc, left, dbs, tries, slots, added, request, answer>>,
         merge' \in [list : SlotLists \union {""}, sorted : Seq(Range16), i : Nat, current : Range16,
                    merged : Seq(Range16)]
  PROVE  Inv'
  <1>1. Types' BY DEF Inv, Types
  <1>2. Inserted' BY DEF Inv, Inserted, TrieOK
  <1>3. Lists'
    <2>1. ASSUME NEW k \in SlotLists, left'[k] = <<>>, merge'.list # k PROVE ListOK(k)'
      <3>1. ListOK(k) BY <2>1 DEF Inv, Lists
      <3> QED BY <3>1 DEF ListOK, Given, ByStart, SomeCovers
    <2>2. Working' BY DEF Merging, Working
    <2> QED BY <2>1, <2>2 DEF Lists
  <1> QED BY <1>1, <1>2, <1>3, AnswerKept DEF Inv

LEMMA ExtendInv ==
  ASSUME Inv, Extend
  PROVE  Inv'
  <1>1. /\ Merging /\ Working /\ Touches(merge.current, MergeNext) /\ merge.i <= Len(merge.sorted)
        /\ merge' = [merge EXCEPT !.current.end = Later(@, MergeNext.end), !.i = @ + 1]
        /\ UNCHANGED <<config, pc, left, dbs, tries, slots, added, request, answer>>
    BY DEF Extend, Merging, Working
  <1>0. /\ merge.i \in Nat /\ merge.i >= 2
        /\ Len(merge.sorted) \in Nat /\ DOMAIN merge.sorted = 1 .. Len(merge.sorted)
        /\ Len(merge.merged) \in Nat /\ DOMAIN merge.merged = 1 .. Len(merge.merged)
        /\ merge.i <= Len(merge.sorted)
        /\ \A k \in 1 .. Len(merge.sorted) : merge.sorted[k] \in Range16
    BY <1>1, LoopIndexes
  <1>a. LoopOK BY <1>1, LoopTypes
  <1>b. /\ merge.sorted \in Seq(Range16) /\ merge.merged \in Seq(Range16)
        /\ merge.current \in Range16
    BY <1>1, LoopTypes
  <1>c. /\ \A n \in DOMAIN merge.merged : merge.merged[n].start <= merge.current.start
        /\ \A n \in merge.i .. Len(merge.sorted) : merge.current.start <= merge.sorted[n].start
    BY <1>a DEF LoopOK
  <1> DEFINE new == [merge.current EXCEPT !.end = Later(@, MergeNext.end)]
  <1>2. MergeNext \in Range16 /\ MergeNext = merge.sorted[merge.i] BY <1>0 DEF MergeNext
  <1>3. new \in Range16 /\ new.start = merge.current.start
    BY <1>2, <1>1, LoopTypes DEF Range16, Later
  <1>4. merge.current.start <= MergeNext.start BY <1>0, <1>2, <1>c
  <1>5. \A s \in U16 : InRange(new, s) <=> InRange(merge.current, s) \/ InRange(MergeNext, s)
    BY <1>1, <1>2, <1>4, LoopTypes, MergeCovers
  <1> HIDE DEF new
  <1>6. /\ merge'.list = merge.list /\ merge'.sorted = merge.sorted /\ merge'.merged = merge.merged
        /\ merge'.i = merge.i + 1 /\ merge'.current = new
    BY <1>1, LoopTypes DEF new
  <1>7. merge' \in [list : SlotLists \union {""}, sorted : Seq(Range16), i : Nat, current : Range16,
                   merged : Seq(Range16)]
    <2>1. merge.i + 1 \in Nat BY <1>0
    <2> QED BY <1>1, <1>3, <2>1, LoopTypes DEF new
  <1>8. merge.i .. Len(merge.sorted) = {merge.i} \union merge.i + 1 .. Len(merge.sorted)
    BY <1>0
  <1>9. LoopOK'
    <2>1. LoopOK BY <1>1, LoopTypes
    <2>2. merge.i + 1 \in 2 .. Len(merge.sorted) + 1 BY <1>0
    <2>3. ASSUME NEW s \in U16
          PROVE  (\/ SomeCovers(merge.merged, s) \/ InRange(new, s)
                  \/ \E k \in merge.i + 1 .. Len(merge.sorted) : InRange(merge.sorted[k], s))
                 <=> \E r \in Given(merge.list) : InRange(r, s)
      BY <1>2, <1>5, <1>8, <2>1 DEF LoopOK
    <2> QED BY <1>1, <1>3, <1>6, <1>8, <2>1, <2>2, <2>3 DEF LoopOK, Given, ByStart, SomeCovers
  <1>10. merge' # NoMerge BY <1>1, <1>6, LoopTypes, FieldsOf DEF NoMerge
  <1> QED BY <1>1, <1>6, <1>7, <1>9, <1>10, LoopStepInv

LEMMA Appended ==
  ASSUME NEW ranges \in Seq(Range16), NEW r \in Range16
  PROVE  /\ Append(ranges, r) \in Seq(Range16) /\ Append(ranges, r) # <<>>
         /\ \A s \in U16 : SomeCovers(Append(ranges, r), s) <=> SomeCovers(ranges, s) \/ InRange(r, s)
         /\ ByStart(ranges) /\ (\A k \in DOMAIN ranges : ranges[k].start <= r.start)
            => ByStart(Append(ranges, r))
  <1>1. /\ Len(ranges) \in Nat /\ DOMAIN ranges = 1 .. Len(ranges)
        /\ DOMAIN Append(ranges, r) = 1 .. Len(ranges) + 1
        /\ Append(ranges, r)[Len(ranges) + 1] = r
        /\ \A k \in 1 .. Len(ranges) : Append(ranges, r)[k] = ranges[k]
    OBVIOUS
  <1>2. 1 .. Len(ranges) + 1 = (1 .. Len(ranges)) \union {Len(ranges) + 1} BY <1>1
  <1>3. \A s \in U16 : SomeCovers(Append(ranges, r), s) <=> SomeCovers(ranges, s) \/ InRange(r, s)
    BY <1>1, <1>2 DEF SomeCovers
  <1>4. ASSUME ByStart(ranges), \A k \in DOMAIN ranges : ranges[k].start <= r.start
        PROVE  ByStart(Append(ranges, r))
    <2> SUFFICES ASSUME NEW i \in 1 .. Len(ranges) + 1, NEW j \in 1 .. Len(ranges) + 1, i < j
                 PROVE  Append(ranges, r)[i].start <= Append(ranges, r)[j].start
      BY <1>1 DEF ByStart
    <2>1. i \in 1 .. Len(ranges) BY <1>1
    <2>2. CASE j \in 1 .. Len(ranges) BY <1>1, <1>4, <2>1, <2>2 DEF ByStart
    <2>3. CASE j = Len(ranges) + 1 BY <1>1, <1>4, <2>1, <2>3
    <2> QED BY <1>2, <2>2, <2>3
  <1> QED BY <1>3, <1>4

LEMMA PushInv ==
  ASSUME Inv, Push
  PROVE  Inv'
  <1>1. /\ Merging /\ Working /\ merge.i <= Len(merge.sorted)
        /\ merge' = [merge EXCEPT !.merged = Append(@, merge.current), !.current = MergeNext, !.i = @ + 1]
        /\ UNCHANGED <<config, pc, left, dbs, tries, slots, added, request, answer>>
    BY DEF Push, Merging, Working
  <1>0. /\ merge.i \in Nat /\ merge.i >= 2
        /\ Len(merge.sorted) \in Nat /\ DOMAIN merge.sorted = 1 .. Len(merge.sorted)
        /\ Len(merge.merged) \in Nat /\ DOMAIN merge.merged = 1 .. Len(merge.merged)
        /\ merge.i <= Len(merge.sorted)
        /\ \A k \in 1 .. Len(merge.sorted) : merge.sorted[k] \in Range16
    BY <1>1, LoopIndexes
  <1>a. LoopOK BY <1>1, LoopTypes
  <1>b. /\ merge.sorted \in Seq(Range16) /\ merge.merged \in Seq(Range16)
        /\ merge.current \in Range16
    BY <1>1, LoopTypes
  <1>c. /\ \A n \in DOMAIN merge.merged : merge.merged[n].start <= merge.current.start
        /\ \A n \in merge.i .. Len(merge.sorted) : merge.current.start <= merge.sorted[n].start
    BY <1>a DEF LoopOK
  <1>2. MergeNext \in Range16 /\ MergeNext = merge.sorted[merge.i] BY <1>0 DEF MergeNext
  <1>3. merge.current.start <= MergeNext.start BY <1>0, <1>2, <1>c
  <1>4. LoopOK BY <1>1, LoopTypes
  <1> DEFINE pushed == Append(merge.merged, merge.current)
  <1>5. /\ pushed \in Seq(Range16) /\ ByStart(pushed)
        /\ \A s \in U16 : SomeCovers(pushed, s) <=> SomeCovers(merge.merged, s) \/ InRange(merge.current, s)
    BY <1>1, <1>4, LoopTypes, Appended DEF LoopOK
  <1>6. \A k \in DOMAIN pushed : pushed[k].start <= MergeNext.start
    <2> SUFFICES ASSUME NEW k \in 1 .. Len(merge.merged) + 1 PROVE pushed[k].start <= MergeNext.start
      BY <1>0, <1>b
    <2>1. CASE k \in 1 .. Len(merge.merged)
      <3>1. pushed[k] = merge.merged[k] /\ merge.merged[k] \in Range16 BY <1>0, <1>b, <2>1
      <3>2. merge.merged[k].start <= merge.current.start BY <1>0, <1>c, <2>1
      <3>3. merge.merged[k].start \in Int /\ merge.current.start \in Int /\ MergeNext.start \in Int
        BY <1>1, <1>2, <3>1, LoopTypes, RangeType
      <3> QED BY <1>3, <3>1, <3>2, <3>3
    <2>2. CASE k = Len(merge.merged) + 1 BY <1>0, <1>b, <1>3, <2>2
    <2> QED BY <1>0, <2>1, <2>2
  <1> HIDE DEF pushed
  <1>7. /\ merge'.list = merge.list /\ merge'.sorted = merge.sorted /\ merge'.merged = pushed
        /\ merge'.i = merge.i + 1 /\ merge'.current = MergeNext
    BY <1>1, LoopTypes DEF pushed
  <1>8. merge' \in [list : SlotLists \union {""}, sorted : Seq(Range16), i : Nat, current : Range16,
                   merged : Seq(Range16)]
    <2>1. merge.i + 1 \in Nat BY <1>0
    <2> QED BY <1>1, <1>2, <1>5, <2>1, LoopTypes DEF pushed
  <1>9. merge.i .. Len(merge.sorted) = {merge.i} \union merge.i + 1 .. Len(merge.sorted)
    BY <1>0
  <1>10. \A k \in merge.i + 1 .. Len(merge.sorted) : MergeNext.start <= merge.sorted[k].start
    BY <1>0, <1>2, <1>4, SMTT(20) DEF LoopOK, ByStart
  <1>11. LoopOK'
    <2>2. merge.i + 1 \in 2 .. Len(merge.sorted) + 1 BY <1>0
    <2>3. ASSUME NEW s \in U16
          PROVE  (\/ SomeCovers(pushed, s) \/ InRange(MergeNext, s)
                  \/ \E k \in merge.i + 1 .. Len(merge.sorted) : InRange(merge.sorted[k], s))
                 <=> \E r \in Given(merge.list) : InRange(r, s)
      BY <1>2, <1>4, <1>5, <1>9 DEF LoopOK
    <2> QED BY <1>1, <1>4, <1>5, <1>6, <1>7, <1>10, <2>2, <2>3 DEF LoopOK, Given, ByStart, SomeCovers
  <1>12. merge' # NoMerge BY <1>1, <1>7, LoopTypes, FieldsOf DEF NoMerge
  <1> QED BY <1>1, <1>7, <1>8, <1>11, <1>12, LoopStepInv

\* The list is what the loop has pushed, and the last range.
LEMMA EndMergeInv ==
  ASSUME Inv, EndMerge
  PROVE  Inv'
  <1>1. /\ Working /\ merge.i > Len(merge.sorted) /\ merge' = NoMerge
        /\ slots' = [slots EXCEPT ![merge.list] = Append(merge.merged, merge.current)]
        /\ pc' = IF pc = "merge" THEN "insert" ELSE "ready"
        /\ UNCHANGED <<config, left, dbs, tries, added, request, answer>>
    BY DEF EndMerge, Working
  <1>2. LoopOK /\ merge.list \in SlotLists BY <1>1, LoopTypes
  <1>3. merge.merged \in Seq(Range16) /\ merge.current \in Range16 BY <1>1, LoopTypes
  <1>4. /\ merge.i \in Nat /\ Len(merge.sorted) \in Nat BY <1>1, LoopIndexes
  <1> DEFINE whole == Append(merge.merged, merge.current)
  <1>5. whole \in Seq(Range16) /\ whole # <<>> /\ ByStart(whole)
        /\ \A s \in U16 : SomeCovers(whole, s) <=> SomeCovers(merge.merged, s) \/ InRange(merge.current, s)
    BY <1>2, <1>3, Appended DEF LoopOK
  <1> HIDE DEF whole
  <1>6. /\ slots' \in [SlotLists -> Seq(Range16)] /\ slots'[merge.list] = whole
        /\ \A k \in SlotLists \ {merge.list} : slots'[k] = slots[k]
    BY <1>1, <1>2, <1>5 DEF Inv, Types, whole
  <1>7. merge'.list = "" /\ ~ Working' BY <1>1 DEF NoMerge, Working
  <1>8. merge' \in [list : SlotLists \union {""}, sorted : Seq(Range16), i : Nat, current : Range16,
                   merged : Seq(Range16)]
    <2>1. <<>> \in Seq(Range16) OBVIOUS
    <2>2. [start |-> 0, end |-> 0] \in Range16 BY FilterAssumption DEF Range16, U16
    <2> QED BY <1>1, <2>1, <2>2 DEF NoMerge
  <1>9. Types' BY <1>1, <1>6, <1>8 DEF Inv, Types
  <1>10. Inserted'
    <2>1. (\A l \in SlotLists : left[l] = <<>> \/ (left[l] = config[l] /\ slots[l] = <<>> /\ added[l] = {} /\ merge.list # l))'
      BY <1>1, <1>6, <1>7, FieldsOf DEF Inv, Inserted
    <2>2. (dbs \union Range(left.db) = Range(config.db))' BY <1>1 DEF Inv, Inserted
    <2>3. \A t \in Tries : (TrieOK(tries[t]) /\ tries[t].ends \union Range(left[t]) = Range(config[t]))'
      BY <1>1 DEF Inv, Inserted, TrieOK
    <2>4. (pc \in {"ready", "add"} => \A f \in Fields : left[f] = <<>>)'
      BY <1>1 DEF Inv, Inserted, Working
    <2> QED BY <2>1, <2>2, <2>3, <2>4 DEF Inserted
  <1>11. Lists'
    <2>1. ASSUME NEW k \in SlotLists, left'[k] = <<>> PROVE ListOK(k)'
      <3>1. CASE k = merge.list
        <4>1. slots'[k] = whole /\ Given(k)' = Given(k) BY <1>1, <1>6, <3>1 DEF Given
        <4>2. merge.i .. Len(merge.sorted) = {} BY <1>1, <1>4
        <4>3. \A s \in U16 : SomeCovers(whole, s) <=> \E r \in Given(k) : InRange(r, s)
          BY <1>2, <1>5, <3>1, <4>2 DEF LoopOK
        <4>4. Given(k) # {} BY <1>2, <3>1 DEF LoopOK
        <4> QED BY <1>5, <4>1, <4>3, <4>4 DEF ListOK, ByStart, SomeCovers
      <3>2. CASE k # merge.list
        <4>1. ListOK(k) BY <1>1, <2>1, <3>2 DEF Inv, Lists
        <4>2. slots'[k] = slots[k] /\ Given(k)' = Given(k) BY <1>1, <1>6, <3>2 DEF Given
        <4> QED BY <4>1, <4>2 DEF ListOK, ByStart, SomeCovers
      <3> QED BY <3>1, <3>2
    <2> QED BY <1>1, <1>7, <2>1 DEF Lists
  <1> QED BY <1>1, <1>9, <1>10, <1>11, AnswerKept DEF Inv

LEMMA BuiltInv ==
  ASSUME Inv, Built
  PROVE  Inv'
  <1>1. /\ pc = "insert" /\ pc' = "ready" /\ \A f \in Fields : left[f] = <<>>
        /\ UNCHANGED <<config, left, dbs, tries, slots, merge, added, request, answer>>
    BY DEF Built
  <1>2. Types' BY <1>1 DEF Inv, Types
  <1>3. Inserted' BY <1>1 DEF Inv, Inserted, TrieOK
  <1>4. Lists'
    <2>1. ~ Working /\ ~ Working' BY <1>1 DEF Working
    <2>2. merge' = NoMerge BY <1>1, <2>1 DEF Inv, Lists
    <2>3. ASSUME NEW k \in SlotLists, left'[k] = <<>>, merge'.list # k PROVE ListOK(k)'
      <3>1. ListOK(k) BY <1>1, <2>3 DEF Inv, Lists
      <3> QED BY <1>1, <3>1 DEF ListOK, Given, ByStart, SomeCovers
    <2> QED BY <2>1, <2>2, <2>3 DEF Lists
  <1> QED BY <1>1, <1>2, <1>3, <1>4, AnswerKept DEF Inv

\* When the filter is built, both lists are in order.
LEMMA ReadyLists ==
  ASSUME Inv, pc = "ready", NEW l \in SlotLists
  PROVE  ListOK(l) /\ left[l] = <<>> /\ merge = NoMerge
  <1>1. ~ Working BY DEF Working
  <1>2. merge = NoMerge BY <1>1 DEF Inv, Lists
  <1>3. left[l] = <<>> BY FieldsOf DEF Inv, Inserted
  <1>4. merge.list # l BY <1>2, FieldsOf DEF NoMerge
  <1> QED BY <1>2, <1>3, <1>4 DEF Inv, Lists

LEMMA AddInv ==
  ASSUME Inv, NEW l \in SlotLists, NEW r \in Additions, Add(l, r)
  PROVE  Inv'
  <1>1. /\ pc = "ready" /\ BeginMerge(l, Append(slots[l], r))
        /\ added' = [added EXCEPT ![l] = @ \union {r}]
        /\ pc' = "add" /\ request' = NoRequest /\ answer' = FALSE
        /\ UNCHANGED <<config, left, dbs, tries, slots>>
    BY DEF Add
  <1>2. slots[l] \in Seq(Range16) /\ r \in Range16 BY FilterAssumption DEF Inv, Types
  <1>3. ListOK(l) BY <1>1, ReadyLists
  <1>4. /\ added' \in [SlotLists -> SUBSET Range16] /\ added'[l] = added[l] \union {r}
        /\ \A k \in SlotLists \ {l} : added'[k] = added[k]
    BY <1>1, <1>2 DEF Inv, Types
  <1>5. Given(l)' = Given(l) \union {r} BY <1>1, <1>4 DEF Given
  <1>6. Append(slots[l], r) \in Seq(Range16) /\ Append(slots[l], r) # <<>> BY <1>2, Appended
  <1>7. ASSUME NEW s \in U16
        PROVE  SomeCovers(Append(slots[l], r), s) <=> \E x \in Given(l)' : InRange(x, s)
    <2>1. SomeCovers(Append(slots[l], r), s) <=> SomeCovers(slots[l], s) \/ InRange(r, s)
      BY <1>2, Appended
    <2>2. SomeCovers(slots[l], s) <=> \E x \in Given(l) : InRange(x, s) BY <1>3 DEF ListOK
    <2> QED BY <1>5, <2>1, <2>2
  <1>8. /\ LoopOK' /\ merge'.list = l /\ merge' # NoMerge
        /\ merge' \in [list : SlotLists \union {""}, sorted : Seq(Range16), i : Nat, current : Range16,
                       merged : Seq(Range16)]
    <2>1. Given(l)' # {} BY <1>5
    <2> QED BY <1>1, <1>6, <1>7, <2>1, BeginMergeLoop
  <1>9. Types' BY <1>1, <1>4, <1>8 DEF Inv, Types
  <1>10. Inserted'
    <2>1. \A k \in SlotLists : left[k] = <<>> BY <1>1, ReadyLists
    <2> QED BY <1>1, <2>1 DEF Inv, Inserted, TrieOK
  <1>11. Lists'
    <2>1. Working' BY <1>1 DEF Working
    <2>2. ASSUME NEW k \in SlotLists, merge'.list # k PROVE ListOK(k)'
      <3>1. ListOK(k) /\ k # l BY <1>1, <1>8, <2>2, ReadyLists
      <3>2. Given(k)' = Given(k) BY <1>1, <1>4, <3>1 DEF Given
      <3> QED BY <1>1, <3>1, <3>2 DEF ListOK, ByStart, SomeCovers
    <2> QED BY <1>8, <2>1, <2>2 DEF Lists
  <1>12. AnswersAsConfigured' BY <1>1 DEF AnswersAsConfigured
  <1> QED BY <1>9, <1>10, <1>11, <1>12 DEF Inv

\* A trie that has taken all of its entries.
LEMMA ReadyTries ==
  ASSUME Inv, pc = "ready", NEW t \in Tries
  PROVE  TrieOK(tries[t]) /\ tries[t].ends = Range(config[t])
  <1>1. left[t] = <<>> BY FieldsOf DEF Inv, Inserted
  <1>2. Range(<<>>) = {} BY DEF Range
  <1>3. TrieOK(tries[t]) /\ tries[t].ends \union Range(left[t]) = Range(config[t])
    BY DEF Inv, Inserted
  <1>4. tries[t].ends \union {} = Range(config[t]) BY <1>1, <1>2, <1>3
  <1> QED BY <1>3, <1>4

LEMMA AskInv ==
  ASSUME Inv, NEW q \in Requests, Ask(q)
  PROVE  Inv'
  <1>1. /\ pc = "ready" /\ request' = q /\ answer' = FilterCmdKey(q.cmd, q.key, q.db)
        /\ UNCHANGED <<config, pc, left, dbs, tries, slots, merge, added>>
    BY DEF Ask
  <1>2. q.cmd \in Bytes /\ (q.key # NoKey => q.key \in Bytes /\ KeySlot(q.key) \in U16)
    BY FilterAssumption
  <1>3. q.db \in dbs <=> q.db \in Range(config.db)
    <2>1. left.db = <<>> BY <1>1 DEF Inv, Inserted, Fields
    <2>2. Range(<<>>) = {} BY DEF Range
    <2> QED BY <2>1, <2>2 DEF Inv, Inserted
  <1>4. ExactMatch(tries["cmd"], q.cmd) <=> q.cmd \in Range(config["cmd"])
    <2>1. TrieOK(tries["cmd"]) /\ tries["cmd"].ends = Range(config["cmd"]) BY <1>1, ReadyTries DEF Tries
    <2> QED BY <1>2, <2>1, ExactMatchIsMember
  <1>5. ASSUME q.key # NoKey
        PROVE  /\ MatchesPrefix(tries["white"], q.key) <=> HasPrefixIn(q.key, Range(config["white"]))
               /\ MatchesPrefix(tries["black"], q.key) <=> HasPrefixIn(q.key, Range(config["black"]))
    <2>1. TrieOK(tries["white"]) /\ tries["white"].ends = Range(config["white"]) BY <1>1, ReadyTries DEF Tries
    <2>2. TrieOK(tries["black"]) /\ tries["black"].ends = Range(config["black"]) BY <1>1, ReadyTries DEF Tries
    <2>3. MatchesPrefix(tries["white"], q.key) <=> HasPrefixIn(q.key, Range(config["white"]))
      BY <1>2, <1>5, <2>1, MatchesPrefixIsPrefix
    <2>4. MatchesPrefix(tries["black"], q.key) <=> HasPrefixIn(q.key, Range(config["black"]))
      BY <1>2, <1>5, <2>2, MatchesPrefixIsPrefix
    <2> QED BY <2>3, <2>4
  <1>6. IsEmptyTrie(tries["white"]) <=> config["white"] = <<>>
    <2>1. TrieOK(tries["white"]) /\ tries["white"].ends = Range(config["white"]) BY <1>1, ReadyTries DEF Tries
    <2>2. config["white"] \in Seq(Bytes) BY FieldTypes DEF Inv, Types, Tries
    <2>3. Range(config["white"]) = {} <=> config["white"] = <<>>
      <3>1. CASE config["white"] = <<>> BY <3>1 DEF Range
      <3>2. CASE config["white"] # <<>> BY <2>2, <3>2, HeadAndTail
      <3> QED BY <3>1, <3>2
    <2> QED BY <2>1, <2>3, EmptyTrieIsEmpty
  <1>7. ASSUME NEW l \in SlotLists
        PROVE  /\ slots[l] = <<>> <=> Given(l) = {}
               /\ q.key # NoKey =>
                    (Covers(slots[l], KeySlot(q.key)) <=> \E r \in Given(l) : InRange(r, KeySlot(q.key)))
    <2>1. ListOK(l) BY <1>1, ReadyLists
    <2>2. slots[l] \in Seq(Range16) BY DEF Inv, Types
    <2> QED BY <1>2, <2>1, <2>2, ContainsIfCovered DEF ListOK
  <1>8. FilterCmdKey(q.cmd, q.key, q.db) <=> ShouldFilter(q)
    <2>1. "wslot" \in SlotLists /\ "bslot" \in SlotLists BY DEF SlotLists
    <2>2. ASSUME NEW l \in SlotLists, q.key # NoKey, Given(l) = {}
          PROVE  ~ Covers(slots[l], KeySlot(q.key))
      BY <1>7, <2>2
    <2>3. ASSUME q.key # NoKey
          PROVE  KeyFiltered(q.key) <=>
                 (\/ config.white # <<>> /\ ~ HasPrefixIn(q.key, Range(config.white))
                  \/ HasPrefixIn(q.key, Range(config.black))
                  \/ Given("wslot") # {} /\ ~ \E r \in Given("wslot") : InRange(r, KeySlot(q.key))
                  \/ \E r \in Given("bslot") : InRange(r, KeySlot(q.key)))
      BY <1>5, <1>6, <1>7, <2>1, <2>3 DEF KeyFiltered
    <2> QED BY <1>3, <1>4, <2>3 DEF FilterCmdKey, ShouldFilter
  <1>9. Types'
    <2>1. answer' \in BOOLEAN BY <1>1 DEF FilterCmdKey
    <2> QED BY <1>1, <2>1 DEF Inv, Types
  <1>10. Inserted' BY <1>1 DEF Inv, Inserted, TrieOK
  <1>11. Lists' BY <1>1, ListsKept
  <1>12. AnswersAsConfigured'
    <2>1. ShouldFilter(q)' <=> ShouldFilter(q) BY <1>1 DEF ShouldFilter, Given
    <2> QED BY <1>1, <1>8, <2>1 DEF AnswersAsConfigured, ShouldFilter, Given
  <1> QED BY <1>9, <1>10, <1>11, <1>12 DEF Inv

LEMMA InitInv == Init => Inv
  <1> SUFFICES ASSUME Init PROVE Inv OBVIOUS
  <1>1. /\ config \in Configs /\ pc = "insert" /\ left = config
        /\ dbs = {} /\ tries = [t \in Tries |-> EmptyTrie] /\ slots = [l \in SlotLists |-> <<>>]
        /\ merge = NoMerge /\ added = [l \in SlotLists |-> {}]
        /\ request = NoRequest /\ answer = FALSE
    BY DEF Init
  <1>2. merge.list = "" BY <1>1 DEF NoMerge
  <1>3. Types
    <2>1. EmptyTrie \in [nodes : SUBSET Bytes, ends : SUBSET Bytes] BY DEF EmptyTrie, Bytes
    <2>2. <<>> \in Seq(Range16) OBVIOUS
    <2>3. [start |-> 0, end |-> 0] \in Range16 BY FilterAssumption DEF Range16, U16
    <2>4. merge \in [list : SlotLists \union {""}, sorted : Seq(Range16), i : Nat, current : Range16,
                    merged : Seq(Range16)]
      BY <1>1, <2>2, <2>3 DEF NoMerge
    <2>5. tries \in [Tries -> [nodes : SUBSET Bytes, ends : SUBSET Bytes]] BY <1>1, <2>1
    <2>6. slots \in [SlotLists -> Seq(Range16)] /\ added \in [SlotLists -> SUBSET Range16] BY <1>1, <2>2
    <2>7. config \in FilterConfig BY <1>1, FilterAssumption
    <2> QED BY <1>1, <2>4, <2>5, <2>6, <2>7 DEF Types
  <1>4. Inserted
    <2>1. \A t \in Tries : TrieOK(tries[t]) /\ tries[t].ends = {} BY <1>1 DEF TrieOK, EmptyTrie
    <2>2. \A l \in SlotLists : left[l] = config[l] /\ slots[l] = <<>> /\ added[l] = {} /\ merge.list # l
      BY <1>1, <1>2, FieldsOf
    <2> QED BY <1>1, <2>1, <2>2 DEF Inserted
  <1>5. Lists
    <2>1. ~ Working BY <1>1 DEF Working
    <2>2. ASSUME NEW l \in SlotLists, left[l] = <<>> PROVE ListOK(l)
      <3>1. Given(l) = {} /\ slots[l] = <<>> BY <1>1, <2>2 DEF Given, Range
      <3> QED BY <3>1 DEF ListOK, ByStart, SomeCovers
    <2> QED BY <1>1, <2>1, <2>2 DEF Lists
  <1> QED BY <1>1, <1>3, <1>4, <1>5 DEF Inv, AnswersAsConfigured

LEMMA NextInv ==
  ASSUME Inv, [Next]_vars
  PROVE  Inv'
  <1>1. CASE UNCHANGED vars
    <2>1. Types' BY <1>1 DEF vars, Inv, Types
    <2>2. Inserted' BY <1>1 DEF vars, Inv, Inserted, TrieOK
    <2>3. Lists' BY <1>1, ListsKept DEF vars
    <2>4. AnswersAsConfigured' BY <1>1, AnswerKept DEF vars
    <2> QED BY <2>1, <2>2, <2>3, <2>4 DEF Inv
  <1> QED BY <1>1, InsertDbInv, InsertKeyInv, BuildSlotsInv, ExtendInv, PushInv, EndMergeInv, BuiltInv,
             AddInv, AskInv DEF Next

\* The invariant holds in every reachable state, for every set of configurations.
THEOREM Invariance == Spec => []Inv
  <1>1. Inv /\ [Next]_vars => Inv' BY NextInv
  <1> QED BY InitInv, <1>1, PTL DEF Spec

\* Every variable keeps its type, and the merge of from_config stays within its input.
THEOREM TypeCorrect == Spec => []TypeOK
  <1>1. Inv => TypeOK
    <2> SUFFICES ASSUME Inv PROVE TypeOK OBVIOUS
    <2>1. config \in Configs /\ pc \in {"insert", "merge", "add", "ready"} /\ answer \in BOOLEAN
      BY DEF Inv, Types
    <2>2. ASSUME NEW t \in Tries PROVE tries[t].ends \subseteq tries[t].nodes /\ <<>> \in tries[t].nodes
      <3>1. TrieOK(tries[t]) BY DEF Inv, Inserted
      <3> QED BY <3>1, WholeIsPrefix DEF TrieOK
    <2>3. \A l \in SlotLists : slots[l] \in Seq(Range16) /\ added[l] \subseteq Range16
      BY DEF Inv, Types
    <2>4. merge = NoMerge <=> pc \in {"insert", "ready"} BY <2>1 DEF Inv, Lists, Working
    <2>5. pc \in {"merge", "add"} => merge.i \in 2 .. Len(merge.sorted) + 1
      BY DEF Inv, Lists, Working, LoopOK
    <2> QED BY <2>1, <2>2, <2>3, <2>4, <2>5 DEF TypeOK
  <1> QED BY Invariance, <1>1, PTL

\* Once a list is built, contains() is right, whatever ranges it was given in whatever order,
\* and whatever was added (from_config, contains, add).
THEOREM ContainsIsRight == Spec => []ContainsIsCovered
  <1>1. Inv => ContainsIsCovered
    <2> SUFFICES ASSUME Inv, pc = "ready", NEW l \in SlotLists, NEW s \in U16
                 PROVE  Covers(slots[l], s) <=> \E r \in Given(l) : InRange(r, s)
      BY DEF ContainsIsCovered
    <2>1. ListOK(l) BY ReadyLists
    <2>2. slots[l] \in Seq(Range16) BY DEF Inv, Types
    <2> QED BY <2>1, <2>2, ContainsIfCovered DEF ListOK
  <1> QED BY Invariance, <1>1, PTL

\* filter_cmd_key answers what the configuration says, for every configuration.
THEOREM AnswersRight == Spec => []AnswersAsConfigured
  <1>1. Inv => AnswersAsConfigured BY DEF Inv
  <1> QED BY Invariance, <1>1, PTL
=============================================================================
