----------------------------- MODULE AltrepIter -----------------------------
(***************************************************************************)
(* The lazy vectors of altrep_data/iter and altrep_data/stream.rs: an      *)
(* iterator (or a chunk reader) behind RefCells, a cache of what it        *)
(* yielded, and R reading elements in any order.  One vector is modelled,  *)
(* of one of four kinds:                                                   *)
(*   "prefix"  IterState: all elements up to the highest index are cached  *)
(*   "sparse"  SparseIterState: nth() skips to the index, the rest is gone *)
(*   "window"  WindowedIterState: a sliding window of the last elements    *)
(*   "stream"  StreamingIntData/RealData: chunks read on demand            *)
(*                                                                         *)
(* The n-th element of the source stands for its value: a read of index i  *)
(* is right when it answers i.  next() may panic, and code of R called by  *)
(* it may raise an R error, whose longjmp leaves the RefCells borrowed; so *)
(* ends a next() that reads its own vector, as it meets those borrows.     *)
(***************************************************************************)
EXTENDS Integers, Sequences, FiniteSets

CONSTANTS
    len,          \* the declared length of the vector
    MaxSupply,    \* bound: what the source yields, more or less than len
    Sizes         \* window sizes and chunk sizes

ASSUME LenAssumption == len \in Nat /\ MaxSupply \in Nat
ASSUME SizesAssumption == Sizes \subseteq Nat \ {0}

VARIABLES
    kind,           \* which of the four
    size,           \* window_size, chunk_size
    supply,         \* how many elements the source has
    pos,            \* how many of them the iterator has moved past
    iter,           \* the iterator: "some", "none" once it is taken
    cache,          \* "prefix": the elements generated so far; "window": window
    slots,          \* "sparse": the cached elements; "stream": the chunks
    tracked,        \* "sparse": the index nth() counts from; "window": consumed
    window_start,   \* "window"
    materialized,   \* the OnceLock: <<>> or <<the whole vector>>
    borrowed,       \* cells a longjmp left borrowed: "none", "iter", "all"
    answer,         \* history: the latest read, its index and what it gave
    seen,           \* history: what the first read of each index gave
    readAt,         \* history: "stream": what the source had when a chunk was read
    wasted          \* history: a failed read used up elements it did not keep

cached == <<slots, readAt>>
cells == <<iter, cache, cached, tracked, window_start, materialized>>
given == <<kind, size>>
vars == <<given, supply, pos, cells, borrowed, answer, seen, wasted>>

Index == 0..(len - 1)
NA == -1            \* NA_INTEGER, NaN, Logical::Na, 0 for raw
Zeroed == -2        \* std::mem::zeroed()
Failed == -3        \* no answer: the read panicked or jumped
Unread == -4
GivenUp == -1      \* the iterator is dropped with what it still had
Elements == 0..(MaxSupply - 1)

\* What n calls of next() from position p give.
Yielded(p, n) == [j \in 1..n |-> p + j - 1]

Least(a, b) == IF a < b THEN a ELSE b

\* Mutant: elements beyond the declared length are kept.
Untruncated(s) == s

Truncated(s) == SubSeq(s, 1, Least(Len(s), len))

Init ==
    /\ kind \in {"prefix", "sparse", "window", "stream"}
    /\ size \in Sizes
    /\ supply \in 0..MaxSupply
    /\ pos = 0 /\ iter = "some"
    /\ cache = <<>> /\ slots = [k \in {} |-> 0] /\ readAt = [k \in {} |-> 0]
    /\ tracked = 0 /\ window_start = 0
    /\ materialized = <<>>
    /\ borrowed = "none"
    /\ answer = [index |-> 0, value |-> Unread]
    /\ seen = [i \in Index |-> Unread]
    /\ wasted = FALSE

(***************************************************************************)
(* n calls of next(): they all yield, or the iterator ends, or one of them *)
(* panics or is left by a longjmp, with or without using up its element.   *)
(***************************************************************************)
Pull(n) ==
    LET left == supply - pos
        good == [got |-> Least(n, left), used |-> Least(n, left), how |-> "ok"]
        bad == [got : 0..Least(n - 1, left), used : 0..left,
                how : {"panic", "jump"}]
    IN  {good} \cup {o \in bad : o.used \in {o.got, o.got + 1}}

Answer(i, v) ==
    /\ answer' = [index |-> i, value |-> v]
    /\ seen' = IF v # Failed /\ seen[i] = Unread
               THEN [seen EXCEPT ![i] = v] ELSE seen

\* How a read that moved the iterator ends; cells is what a jump leaves.
Ends(i, v, o, leaves, kept) ==
    /\ pos' = pos + o.used
    /\ Answer(i, IF o.how = "ok" THEN v ELSE Failed)
    /\ borrowed' = IF o.how = "jump" THEN leaves ELSE borrowed
    /\ wasted' = (wasted \/ (o.how # "ok" /\ o.used # kept))

\* A read that answers from memory, or panics at a borrow.
Memory(i, v) ==
    /\ Answer(i, v)
    /\ UNCHANGED <<given, supply, pos, cells, borrowed, wasted>>

At(s, i) == IF i < Len(s) THEN s[i + 1] ELSE NA
IsMaterialized == materialized # <<>>
FromMaterialized(i) == IsMaterialized /\ Memory(i, At(materialized[1], i))

-----------------------------------------------------------------------------
(* IterState                                                               *)

\* A complete prefix moves to the materialized storage.
KeepPrefix(c) ==
    IF Len(c) = len
    THEN materialized' = <<c>> /\ cache' = <<>> /\ iter' = "none"
    ELSE cache' = c /\ UNCHANGED <<materialized, iter>>

PrefixElement(i) ==
    /\ kind = "prefix"
    /\ \/ FromMaterialized(i)
       \/ /\ ~IsMaterialized
          /\ \/ borrowed # "none" /\ Memory(i, Failed)
             \/ /\ borrowed = "none"
                /\ i < Len(cache) \/ iter = "none"
                /\ Memory(i, At(cache, i))
             \/ /\ borrowed = "none" /\ i >= Len(cache) /\ iter = "some"
                /\ \E o \in Pull(i + 1 - Len(cache)) :
                      LET c == cache \o Yielded(pos, o.got)
                      IN  /\ Ends(i, At(c, i), o, "all", o.got)
                          /\ IF o.how = "ok" THEN KeepPrefix(c)
                             ELSE cache' = c /\ UNCHANGED <<materialized, iter>>
                /\ UNCHANGED <<given, supply, cached, tracked, window_start>>

(***************************************************************************)
(* materialize_all, and an element of a string vector, which materialises  *)
(* first.  The iterator is taken before it is run: if it fails, it is gone *)
(* and the prefix stays.  One element too many is pulled to see the end.   *)
(***************************************************************************)
PrefixMaterialize(i) ==
    /\ kind = "prefix"
    /\ \/ FromMaterialized(i)
       \/ ~IsMaterialized /\ borrowed # "none" /\ Memory(i, Failed)
       \/ /\ ~IsMaterialized /\ borrowed = "none" /\ iter = "none"
          /\ materialized' = <<cache>> /\ cache' = <<>>
          /\ Answer(i, At(cache, i))
          /\ UNCHANGED <<given, supply, pos, iter, cached, tracked, window_start,
                         borrowed, wasted>>
       \/ /\ ~IsMaterialized /\ borrowed = "none" /\ iter = "some"
          /\ iter' = "none"
          /\ \E o \in Pull(len + 1 - Len(cache)) :
                LET c == Truncated(cache \o Yielded(pos, o.got))
                IN  /\ Ends(i, At(c, i), o, "all", GivenUp)
                    /\ IF o.how = "ok"
                       THEN materialized' = <<c>> /\ cache' = <<>>
                       ELSE cache' = c /\ UNCHANGED materialized
          /\ UNCHANGED <<given, supply, cached, tracked, window_start>>

-----------------------------------------------------------------------------
(* SparseIterState                                                         *)

\* Mutant: what ends the source is not cached.
CachedUnlessShort(k, v) ==
    IF kind = "stream" /\ Len(v) < size THEN slots
    ELSE [j \in DOMAIN slots \cup {k} |-> IF j = k THEN v ELSE slots[j]]

\* BTreeMap::insert
Cached(k, v) ==
    [j \in DOMAIN slots \cup {k} |-> IF j = k THEN v ELSE slots[j]]

\* Mutant: the element just taken is counted as still to come.
NextTrackedSame(i) == i

\* The index the next element of the iterator has.
NextTracked(i) == i + 1

SparseElement(i) ==
    /\ kind = "sparse"
    /\ \/ i \in DOMAIN slots /\ Memory(i, slots[i])
       \/ i \notin DOMAIN slots /\ borrowed # "none" /\ Memory(i, Failed)
       \/ /\ i \notin DOMAIN slots /\ borrowed = "none"
          /\ i < tracked
          /\ Memory(i, NA)
       \/ /\ i \notin DOMAIN slots /\ borrowed = "none"
          /\ i >= tracked
          /\ \E o \in Pull(i + 1 - tracked) :
                LET found == o.how = "ok" /\ o.got = i + 1 - tracked
                    v == IF found THEN pos + o.got - 1 ELSE NA
                IN  /\ Ends(i, v, o, "iter", 0)
                    /\ IF found
                       THEN /\ slots' = Cached(i, v)
                            /\ tracked' = NextTracked(i)
                       ELSE UNCHANGED <<slots, tracked>>
          /\ UNCHANGED <<given, supply, iter, cache, readAt, window_start, materialized>>

-----------------------------------------------------------------------------
(* WindowedIterState                                                       *)

InWindow(i) == i >= window_start /\ i < window_start + Len(cache)

\* The lost front is filled with the first element of the window.
Refill ==
    [j \in 1..window_start |-> IF cache = <<>> THEN Zeroed ELSE cache[1]]

WindowMaterialize(i) ==
    \/ FromMaterialized(i)
    \/ ~IsMaterialized /\ borrowed # "none" /\ Memory(i, Failed)
    \/ /\ ~IsMaterialized /\ borrowed = "none" /\ iter = "none"
       /\ materialized' = <<<<>>>>
       /\ Answer(i, NA)
       /\ UNCHANGED <<given, supply, pos, iter, cache, cached, tracked,
                      window_start, borrowed, wasted>>
    \/ /\ ~IsMaterialized /\ borrowed = "none" /\ iter = "some"
       /\ iter' = "none"
       /\ LET kept == Refill \o cache
          IN  \E o \in Pull(len + 1 - Len(kept)) :
                 LET all == Truncated(kept \o Yielded(pos, o.got))
                 IN  /\ Ends(i, At(all, i), o, "iter", GivenUp)
                     /\ materialized' = IF o.how = "ok" THEN <<all>> ELSE <<>>
       /\ UNCHANGED <<given, supply, cache, cached, tracked, window_start>>

(***************************************************************************)
(* advance_to(i): the elements before the new window are skipped, then the *)
(* window is cleared and filled.  A failure while skipping leaves the old  *)
(* window in place.                                                        *)
(***************************************************************************)
TargetStart(i) == IF i >= size THEN i - size + 1 ELSE 0

WindowAdvance(i) ==
    LET start == IF tracked < TargetStart(i) THEN TargetStart(i) ELSE tracked
        skip == start - tracked
        fill == Least(size, len - start)
    IN  /\ iter = "some"
        /\ \E o \in Pull(skip + fill) :
              LET filling == o.got >= skip
                  w == Yielded(pos + skip, o.got - skip)
              IN  /\ IF filling
                     THEN /\ cache' = w /\ window_start' = start
                          /\ Ends(i, At(w, i - start), o, "all", o.got)
                     ELSE /\ UNCHANGED <<cache, window_start>>
                          /\ Ends(i, NA, o, "all", 0)
                  /\ tracked' = tracked + o.got
        /\ UNCHANGED <<given, supply, iter, cached, materialized>>

WindowElement(i) ==
    /\ kind = "window"
    /\ \/ FromMaterialized(i)
       \/ /\ ~IsMaterialized
          /\ \/ borrowed = "all" /\ Memory(i, Failed)
             \/ /\ borrowed # "all" /\ InWindow(i)
                /\ Memory(i, cache[i - window_start + 1])
             \/ /\ borrowed # "all" /\ ~InWindow(i) /\ i >= tracked
                /\ \/ borrowed = "iter" /\ Memory(i, Failed)
                   \/ borrowed = "none" /\ WindowAdvance(i)
                   \/ borrowed = "none" /\ iter = "none" /\ Memory(i, NA)
             \/ /\ borrowed # "all" /\ ~InWindow(i) /\ i < tracked
                /\ WindowMaterialize(i)

-----------------------------------------------------------------------------
(* StreamingIntData, StreamingRealData                                     *)

Chunk(i) == i \div size

\* A chunk with fewer elements than asked for is cached as it is.
StreamElement(i) ==
    LET c == Chunk(i)
        start == c * size
        count == Least(size, len - start)
        there == Least(count, IF supply > start THEN supply - start ELSE 0)
    IN  /\ kind = "stream"
        /\ \/ borrowed # "none" /\ Memory(i, Failed)
           \/ /\ borrowed = "none" /\ c \in DOMAIN slots
              /\ Memory(i, At(slots[c], i % size))
           \/ /\ borrowed = "none" /\ c \notin DOMAIN slots
              /\ slots' = Cached(c, Yielded(start, there))
              /\ readAt' = [k \in DOMAIN slots' |-> IF k = c THEN supply ELSE readAt[k]]
              /\ Answer(i, At(Yielded(start, there), i % size))
              /\ UNCHANGED <<given, supply, pos, iter, cache, tracked,
                             window_start, materialized, borrowed, wasted>>
           \/ /\ borrowed = "none" /\ c \notin DOMAIN slots
              /\ Answer(i, Failed)
              /\ borrowed' \in {"none", "all"}
              /\ UNCHANGED <<given, supply, pos, cells, wasted>>

(***************************************************************************)
(* One index of a get_region: the reader fills R's buffer past the cache,  *)
(* neither borrowed nor written, up to where its source ends; an index it  *)
(* did not write got no answer.  A failed one leaves nothing behind.       *)
(***************************************************************************)
StreamRegion(i) ==
    /\ kind = "stream"
    /\ \/ i < supply /\ Memory(i, i)
       \/ Memory(i, Failed)

\* The reader of a stream may have more to give later.
StreamGrows ==
    /\ kind = "stream"
    /\ supply < MaxSupply
    /\ supply' = supply + 1
    /\ UNCHANGED <<given, pos, cells, borrowed, answer, seen, wasted>>

-----------------------------------------------------------------------------
Next ==
    \/ \E i \in Index :
          \/ PrefixElement(i)
          \/ PrefixMaterialize(i)
          \/ SparseElement(i)
          \/ WindowElement(i)
          \/ kind = "window" /\ WindowMaterialize(i)
          \/ StreamElement(i)
          \/ StreamRegion(i)
    \/ StreamGrows

Spec == Init /\ [][Next]_vars

-----------------------------------------------------------------------------
Values == Elements \cup {NA, Zeroed}

MemoryTyped ==
    /\ kind \in {"prefix", "sparse", "window", "stream"}
    /\ size \in Sizes
    /\ supply \in 0..MaxSupply /\ pos \in 0..supply
    /\ iter \in {"some", "none"}
    /\ cache \in Seq(Elements) /\ Len(cache) <= len
    /\ kind = "window" => Len(cache) <= size
    /\ kind = "sparse" => slots \in [DOMAIN slots -> Elements]
    /\ kind = "stream" => /\ slots \in [DOMAIN slots -> Seq(Elements)]
                          /\ readAt \in [DOMAIN slots -> 0..MaxSupply]
    /\ DOMAIN slots \subseteq Index
    /\ tracked \in 0..len /\ window_start \in 0..tracked
    /\ materialized = <<>> \/ Len(materialized) = 1
    /\ IsMaterialized =>
          materialized[1] \in Seq(Values) /\ Len(materialized[1]) <= len
    /\ borrowed \in {"none", "iter", "all"}
    /\ wasted \in BOOLEAN

TypeOK ==
    /\ MemoryTyped
    /\ answer \in [index : Index \cup {0}, value : Values \cup {Failed, Unread}]
    /\ seen \in [Index -> Values \cup {Unread}]

Answered == answer.value \in Values

\* What a window had moved past when its vector was materialised is not to be had.
GoneFromWindow(i) == kind = "window" /\ i < window_start

\* The chunk of i was read before the source had i, which it has by now.
Outgrown(i) ==
    /\ kind = "stream" /\ Chunk(i) \in DOMAIN slots
    /\ readAt[Chunk(i)] <= i /\ i < supply

(***************************************************************************)
(* Repeatable reads ("Iterator elements are cached as they're accessed,    *)
(* enabling repeatable reads", state.rs): once an index has been answered, *)
(* every later answer is the same, NA included, whatever was read between, *)
(* whatever failed, and across the move to the materialised storage; for a *)
(* window as long as no next() failed, which loses the rest of the source. *)
(* An element and a region of a stream agree too, unless the source has    *)
(* outgrown the chunk that answers the element.                            *)
(***************************************************************************)
RepeatableReads ==
    Answered /\ ~GoneFromWindow(answer.index) /\ ~Outgrown(answer.index)
             /\ (kind = "window" => ~wasted) =>
        answer.value = seen[answer.index]

\* An early end moved past i without putting it in the window.
CutOff(i) == i >= window_start + Len(cache) /\ i < tracked

\* What the kinds may answer NA: an index the source does not have, or one that
\* was skipped, cut off from the window, or outgrown by the source.
MayBeNA(i) ==
    \/ i >= supply
    \/ kind = "sparse" /\ i < pos /\ i \notin DOMAIN slots
    \/ kind = "window" /\ CutOff(i)
    \/ Outgrown(i)

\* Whatever failed, no element answers two indices, and later ones answer later.
AnswersInOrder ==
    \A i, j \in Index :
        i < j /\ seen[i] \in Elements /\ seen[j] \in Elements
              /\ ~GoneFromWindow(i) => seen[i] < seen[j]

(***************************************************************************)
(* An answer is the element of its index, or NA where the kind has a       *)
(* reason; so until a failed next() used up elements, whose successors     *)
(* then move up, but never back and never to two indices.                  *)
(***************************************************************************)
AnswersAreRight ==
    /\ Answered /\ ~wasted /\ ~GoneFromWindow(answer.index) =>
          \/ answer.value = answer.index
          \/ answer.value = NA /\ MayBeNA(answer.index)
    /\ AnswersInOrder
=============================================================================
