------------------------------ MODULE KeyFilter ------------------------------
(***************************************************************************)
(* RedisKeyFilter: it is built from a FilterConfig, entry by entry; slot   *)
(* ranges may be added later; and it is asked whether a command is to be   *)
(* filtered out.  A trie is the set of its nodes, each named by the bytes  *)
(* that lead to it from the root, and the set of those that end a key.     *)
(* The loop of RangeList::from_config that merges ranges is one step each. *)
(***************************************************************************)
EXTENDS Integers, Sequences, SequencesExt

CONSTANTS
  Configs,     \* FilterConfigs: db, cmd, white, black, wslot and bslot, each a sequence
  NoRoute,     \* NO_ROUTE_CMDS
  Requests,    \* what filter_cmd_key is asked: cmd, db, key (NoKey when there is none)
  NoKey,
  Crc16,       \* crc16 of the byte sequences that occur, modulo 16384
  MaxU16,      \* the largest u16
  Additions,   \* the ranges that may be added
  MaxAdds      \* how many ranges are added

U16 == 0 .. MaxU16
Range16 == [start : U16, end : U16]

Tries == {"cmd", "white", "black"}
SlotLists == {"wslot", "bslot"}

Bytes == Seq(STRING)
FilterConfig == [db : Seq(Nat), cmd : Seq(Bytes), white : Seq(Bytes), black : Seq(Bytes),
                 wslot : Seq(Range16), bslot : Seq(Range16)]

VARIABLES
  config,
  pc,       \* "insert", "merge" (from_config), "add" or "ready"
  left,     \* of each list of the configuration: the entries not yet inserted
  dbs,      \* db_black_list
  tries,    \* cmd_black_list, key_prefix_white_list, key_prefix_black_list
  slots,    \* slot_white_list, slot_black_list: sequences of ranges
  merge,    \* the call of RangeList::from_config that is running
  added,    \* the ranges that were added to each list
  request,  \* the last question, since the lists have changed
  answer

vars == <<config, pc, left, dbs, tries, slots, merge, added, request, answer>>

-----------------------------------------------------------------------------
(* Trie.                                                                   *)

EmptyTrie == [nodes |-> {<<>>}, ends |-> {}]

Insert(t, key) == [nodes |-> t.nodes \union Prefixes(key), ends |-> t.ends \union {key}]

\* The walk reaches the node of the first n bytes of key.
Reaches(t, key, n) == \A i \in 0 .. n : SubSeq(key, 1, i) \in t.nodes

ExactMatch(t, key) == Reaches(t, key, Len(key)) /\ key \in t.ends

\* Mutant of MatchesPrefix: the node after the last byte is not looked at.
MatchesPrefixShort(t, key) ==
  \E n \in 0 .. Len(key) - 1 : Reaches(t, key, n) /\ SubSeq(key, 1, n) \in t.ends

MatchesPrefix(t, key) ==
  \E n \in 0 .. Len(key) : Reaches(t, key, n) /\ SubSeq(key, 1, n) \in t.ends

IsEmptyTrie(t) == t.nodes = {<<>>} /\ <<>> \notin t.ends

-----------------------------------------------------------------------------
(* RangeList.                                                              *)

InRange(r, slot) == r.start <= slot /\ slot <= r.end

\* The loop ends at the first range that begins behind the slot.
Covers(ranges, slot) ==
  \E k \in DOMAIN ranges :
    /\ InRange(ranges[k], slot)
    /\ \A j \in 1 .. k - 1 : slot >= ranges[j].start

\* sort_by_key: by start, ranges with the same start in the order they came in.
IsSorting(ranges, f) ==
  /\ \A i \in DOMAIN ranges : \E j \in DOMAIN ranges : f[j] = i
  /\ \A i, j \in DOMAIN ranges : i < j =>
       \/ ranges[f[i]].start < ranges[f[j]].start
       \/ ranges[f[i]].start = ranges[f[j]].start /\ f[i] < f[j]
Sortings(ranges) == {f \in [DOMAIN ranges -> DOMAIN ranges] : IsSorting(ranges, f)}

\* r.end + 1 wraps around in a release build.
After(r) == IF r.end = MaxU16 THEN 0 ELSE r.end + 1
Touches(r, next) == next.start <= After(r)

Later(a, b) == IF a >= b THEN a ELSE b

-----------------------------------------------------------------------------
(* key_slot.                                                               *)

\* What is hashed: from the first { to the } after it, or the whole key.
HashKey(key) ==
  LET start == SelectInSeq(key, LAMBDA b : b = "{")
      rest == SubSeq(key, start + 1, Len(key))
      end == SelectInSeq(rest, LAMBDA b : b = "}")
  IN  IF start # 0 /\ end # 0 THEN SubSeq(rest, 1, end - 1) ELSE key

KeySlot(key) == Crc16[HashKey(key)]

ASSUME FilterAssumption ==
  /\ MaxU16 \in Nat /\ MaxAdds \in Nat /\ Additions \subseteq Range16
  /\ Configs \subseteq FilterConfig
  /\ \A q \in Requests : q.cmd \in Bytes /\ (q.key # NoKey => q.key \in Bytes /\ KeySlot(q.key) \in U16)

-----------------------------------------------------------------------------
NoMerge == [list |-> "", sorted |-> <<>>, i |-> 0, current |-> [start |-> 0, end |-> 0], merged |-> <<>>]
NoRequest == [cmd |-> <<>>, db |-> 0, key |-> NoKey]

\* RedisKeyFilter::new.
Init ==
  /\ config \in Configs
  /\ pc = "insert" /\ left = config
  /\ dbs = {} /\ tries = [t \in Tries |-> EmptyTrie] /\ slots = [l \in SlotLists |-> <<>>]
  /\ merge = NoMerge /\ added = [l \in SlotLists |-> {}]
  /\ request = NoRequest /\ answer = FALSE

InsertDb ==
  /\ pc = "insert" /\ left.db # <<>>
  /\ dbs' = dbs \union {Head(left.db)}
  /\ left' = [left EXCEPT !.db = Tail(@)]
  /\ UNCHANGED <<config, pc, tries, slots, merge, added, request, answer>>

\* The loops run one after the other.
Before == [cmd |-> {"db"}, white |-> {"db", "cmd"}, black |-> {"db", "cmd", "white"},
           wslot |-> {"db", "cmd", "white", "black"}, bslot |-> {"db", "cmd", "white", "black", "wslot"}]
Turn(field) == left[field] # <<>> /\ \A f \in Before[field] : left[f] = <<>>

InsertKey(t) ==
  /\ pc = "insert" /\ Turn(t)
  /\ tries' = [tries EXCEPT ![t] = Insert(@, Head(left[t]))]
  /\ left' = [left EXCEPT ![t] = Tail(@)]
  /\ UNCHANGED <<config, pc, dbs, slots, merge, added, request, answer>>

\* RangeList::from_config begins with ranges, which are not empty.
BeginMerge(l, ranges) ==
  \E f \in Sortings(ranges) :
    LET sorted == [i \in DOMAIN ranges |-> ranges[f[i]]]
    IN  merge' = [list |-> l, sorted |-> sorted, i |-> 2, current |-> sorted[1], merged |-> <<>>]

BuildSlots(l) ==
  /\ pc = "insert" /\ Turn(l)
  /\ BeginMerge(l, left[l])
  /\ left' = [left EXCEPT ![l] = <<>>]
  /\ pc' = "merge"
  /\ UNCHANGED <<config, dbs, tries, slots, added, request, answer>>

MergeNext == merge.sorted[merge.i]
Merging == pc \in {"merge", "add"} /\ merge.i <= Len(merge.sorted)

\* Mutant of Extend: the end of the next range, which may be the smaller one.
ExtendOver ==
  /\ Merging /\ Touches(merge.current, MergeNext)
  /\ merge' = [merge EXCEPT !.current.end = MergeNext.end, !.i = @ + 1]
  /\ UNCHANGED <<config, pc, left, dbs, tries, slots, added, request, answer>>

Extend ==
  /\ Merging /\ Touches(merge.current, MergeNext)
  /\ merge' = [merge EXCEPT !.current.end = Later(@, MergeNext.end), !.i = @ + 1]
  /\ UNCHANGED <<config, pc, left, dbs, tries, slots, added, request, answer>>

Push ==
  /\ Merging /\ ~ Touches(merge.current, MergeNext)
  /\ merge' = [merge EXCEPT !.merged = Append(@, merge.current), !.current = MergeNext, !.i = @ + 1]
  /\ UNCHANGED <<config, pc, left, dbs, tries, slots, added, request, answer>>

\* Mutant of EndMerge: the call is not over.
EndMergeStays ==
  /\ pc \in {"merge", "add"} /\ merge.i > Len(merge.sorted)
  /\ slots' = [slots EXCEPT ![merge.list] = Append(merge.merged, merge.current)]
  /\ pc' = IF pc = "merge" THEN "insert" ELSE "ready"
  /\ UNCHANGED <<config, merge, left, dbs, tries, added, request, answer>>

EndMerge ==
  /\ pc \in {"merge", "add"} /\ merge.i > Len(merge.sorted)
  /\ slots' = [slots EXCEPT ![merge.list] = Append(merge.merged, merge.current)]
  /\ pc' = IF pc = "merge" THEN "insert" ELSE "ready"
  /\ merge' = NoMerge
  /\ UNCHANGED <<config, left, dbs, tries, added, request, answer>>

Fields == {"db"} \union Tries \union SlotLists
Built ==
  /\ pc = "insert" /\ \A f \in Fields : left[f] = <<>>
  /\ pc' = "ready"
  /\ UNCHANGED <<config, left, dbs, tries, slots, merge, added, request, answer>>

\* RangeList::add, on one of the filter's lists: they are merged anew.
Add(l, r) ==
  /\ pc = "ready" /\ Cardinality(added["wslot"]) + Cardinality(added["bslot"]) < MaxAdds
  /\ BeginMerge(l, Append(slots[l], r))
  /\ added' = [added EXCEPT ![l] = @ \union {r}]
  /\ pc' = "add" /\ request' = NoRequest /\ answer' = FALSE
  /\ UNCHANGED <<config, left, dbs, tries, slots>>

\* Mutant of KeyFiltered: the white lists are one, and either will do.
KeyFilteredEither(key) ==
  \/ /\ ~ IsEmptyTrie(tries["white"]) /\ ~ MatchesPrefix(tries["white"], key)
     /\ slots["wslot"] # <<>> => ~ Covers(slots["wslot"], KeySlot(key))
  \/ MatchesPrefix(tries["black"], key)
  \/ slots["bslot"] # <<>> /\ Covers(slots["bslot"], KeySlot(key))

KeyFiltered(key) ==
  \/ ~ IsEmptyTrie(tries["white"]) /\ ~ MatchesPrefix(tries["white"], key)
  \/ MatchesPrefix(tries["black"], key)
  \/ slots["wslot"] # <<>> /\ ~ Covers(slots["wslot"], KeySlot(key))
  \/ slots["bslot"] # <<>> /\ Covers(slots["bslot"], KeySlot(key))

FilterCmdKey(cmd, key, db) ==
  \/ db \in dbs
  \/ ExactMatch(tries["cmd"], cmd)
  \/ cmd \in NoRoute
  \/ key # NoKey /\ KeyFiltered(key)

Ask(q) ==
  /\ pc = "ready"
  /\ request' = q /\ answer' = FilterCmdKey(q.cmd, q.key, q.db)
  /\ UNCHANGED <<config, pc, left, dbs, tries, slots, merge, added>>

Next ==
  \/ InsertDb
  \/ \E t \in Tries : InsertKey(t)
  \/ \E l \in SlotLists : BuildSlots(l)
  \/ Extend \/ Push \/ EndMerge \/ Built
  \/ \E l \in SlotLists, r \in Additions : Add(l, r)
  \/ \E q \in Requests : Ask(q)

Spec == Init /\ [][Next]_vars

-----------------------------------------------------------------------------
TypeOK ==
  /\ config \in Configs /\ pc \in {"insert", "merge", "add", "ready"}
  /\ \A t \in Tries : tries[t].ends \subseteq tries[t].nodes /\ <<>> \in tries[t].nodes
  /\ \A l \in SlotLists : slots[l] \in Seq(Range16) /\ added[l] \subseteq Range16
  /\ merge = NoMerge <=> pc \in {"insert", "ready"}
  /\ pc \in {"merge", "add"} => merge.i \in 2 .. Len(merge.sorted) + 1
  /\ answer \in BOOLEAN

\* What a list was given: by the configuration, and later.
Given(l) == Range(config[l]) \union added[l]

\* However ranges overlap, touch, repeat, are written backwards or end at the last u16, and
\* whatever is added later, contains() finds a slot exactly if one of the ranges covers it;
\* merging, and ending the search early, lose and gain nothing (from_config, contains, add).
ContainsIsCovered ==
  pc = "ready" =>
    \A l \in SlotLists, s \in U16 :
      Covers(slots[l], s) <=> \E r \in Given(l) : InRange(r, s)

HasPrefixIn(key, prefixes) == \E p \in prefixes : IsPrefix(p, key)

\* What the configuration says of a request (docs/usage.md 3.4.2).
ShouldFilter(q) ==
  \/ q.db \in Range(config.db)
  \/ q.cmd \in Range(config.cmd) \union NoRoute
  \/ /\ q.key # NoKey
     /\ \/ config.white # <<>> /\ ~ HasPrefixIn(q.key, Range(config.white))
        \/ HasPrefixIn(q.key, Range(config.black))
        \/ Given("wslot") # {} /\ ~ \E r \in Given("wslot") : InRange(r, KeySlot(q.key))
        \/ \E r \in Given("bslot") : InRange(r, KeySlot(q.key))

\* filter_cmd_key answers what the configuration says, for every order and overlap of its
\* entries: prefixes of prefixes, empty ones, and ranges as above.
AnswersAsConfigured == request # NoRequest => (answer <=> ShouldFilter(request))

-----------------------------------------------------------------------------
\* What follows is written somewhere and does not hold.

\* range_list.rs:9: the ranges are ordered and do not overlap.
RangesAreDisjoint ==
  \A l \in SlotLists : \A i, j \in DOMAIN slots[l] :
    i < j => slots[l][i].end < slots[l][j].start

\* total_coverage: the number of slots that are covered.
TotalCoverage(ranges) ==
  FoldSeq(LAMBDA r, sum : sum + ((r.end - r.start + 1) % (MaxU16 + 1)), 0, ranges)

\* range_list.rs:126: the total size covered.
CoverageIsSize ==
  pc = "ready" =>
    \A l \in SlotLists :
      TotalCoverage(slots[l]) = Cardinality({s \in U16 : Covers(slots[l], s)})

\* Redis Cluster hashes the whole key when there is nothing between the first { and }.
ClusterKey(key) == IF HashKey(key) = <<>> THEN key ELSE HashKey(key)

\* key_filter.rs:357: key_slot is the slot Redis Cluster keeps the key in.
SlotIsClusters == request.key # NoKey => KeySlot(request.key) = Crc16[ClusterKey(request.key)]
=============================================================================
