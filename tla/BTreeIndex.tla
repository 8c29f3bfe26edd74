----------------------------- MODULE BTreeIndex -----------------------------
(***************************************************************************)
(* One index of a table: sorted pages of entries, each a key with its row  *)
(* IDs, that split when they grow and merge with a neighbour when they are *)
(* sparse.  A key is a tuple of integers; a bound may be a prefix of one.  *)
(***************************************************************************)
EXTENDS Integers, Sequences, FiniteSets, SequencesExt

CONSTANTS
    Mappings,              \* the <<key, row ID>> pairs that come and go, one per row ID
    EndpointKeys,          \* the tuples range endpoints may name
    btreePageMaxEntries

VARIABLES
    pages,
    mappings,              \* the counter the index keeps
    mapped                 \* the <<key, row ID>> pairs it should hold

vars == <<pages, mappings, mapped>>

\* -1, 0 or 1; a proper prefix is less than the longer key.
Compare(k, other) ==
    LET n == IF Len(k) < Len(other) THEN Len(k) ELSE Len(other)
        differ == {i \in 1 .. n : k[i] # other[i]}
        first == CHOOSE i \in differ : \A j \in differ : i <= j
        sign(a, b) == IF a < b THEN -1 ELSE IF a > b THEN 1 ELSE 0
    IN  IF differ = {} THEN sign(Len(k), Len(other)) ELSE sign(k[first], other[first])

\* Every key that begins with the prefix is equal to it.
comparePrefix(k, prefix) == IF IsPrefix(prefix, k) THEN 0 ELSE Compare(k, prefix)

FirstIndex(seq, Test(_)) ==
    LET hits == {i \in DOMAIN seq : Test(seq[i])}
    IN  IF hits = {} THEN Len(seq) + 1 ELSE CHOOSE i \in hits : \A j \in hits : i <= j

\* The page whose last key is the first not below `key`, and the entry in it.
lowerBound(key) ==
    LET page == FirstIndex(pages, LAMBDA p : Compare(Last(p).key, key) >= 0)
        entry == IF page > Len(pages) THEN 1 ELSE FirstIndex(pages[page], LAMBDA e : Compare(e.key, key) >= 0)
    IN  [page |-> page, entry |-> entry, found |-> page <= Len(pages) /\ pages[page][entry].key = key]

splitPage(ps, i) ==
    LET mid == Len(ps[i]) \div 2
    IN  IF Len(ps[i]) <= btreePageMaxEntries THEN ps
        ELSE InsertAt([ps EXCEPT ![i] = SubSeq(@, 1, mid)], i + 1, SubSeq(ps[i], mid + 1, Len(ps[i])))

\* Merged into the previous page if both fit, else with the next one.
mergeSparsePage(ps, i) ==
    IF Len(ps) < 2 \/ Len(ps[i]) >= btreePageMaxEntries \div 4 THEN ps
    ELSE IF i > 1 /\ Len(ps[i - 1]) + Len(ps[i]) <= btreePageMaxEntries
    THEN RemoveAt([ps EXCEPT ![i - 1] = @ \o ps[i]], i)
    ELSE IF i < Len(ps) /\ Len(ps[i]) + Len(ps[i + 1]) <= btreePageMaxEntries
    THEN RemoveAt([ps EXCEPT ![i] = @ \o ps[i + 1]], i + 1)
    ELSE ps

Entry(key, ids) == [key |-> key, rowIDs |-> ids]

InsertRowID(key, id) ==
    LET at == lowerBound(key)
        page == IF at.page > Len(pages) THEN Len(pages) ELSE at.page
        entry == IF at.page > Len(pages) THEN Len(pages[page]) + 1 ELSE at.entry
        ids == pages[page][entry].rowIDs
    IN  /\ mapped' = mapped \cup {<<key, id>>}
        /\ IF pages = <<>>
           THEN pages' = <<<<Entry(key, <<id>>)>>>> /\ mappings' = mappings + 1
           ELSE IF at.found /\ Contains(ids, id) THEN UNCHANGED <<pages, mappings>>
           ELSE /\ mappings' = mappings + 1
                /\ pages' = IF at.found
                            THEN [pages EXCEPT ![page][entry].rowIDs = InsertAt(@, FirstIndex(@, LAMBDA r : r > id), id)]
                            ELSE splitPage([pages EXCEPT ![page] = InsertAt(@, entry, Entry(key, <<id>>))], page)

RemoveRowID(key, id) ==
    LET at == lowerBound(key)
        ids == pages[at.page][at.entry].rowIDs
        shorter == [pages EXCEPT ![at.page] = RemoveAt(@, at.entry)]
    IN  /\ mapped' = mapped \ {<<key, id>>}
        /\ IF ~at.found \/ ~Contains(ids, id) THEN UNCHANGED <<pages, mappings>>
           ELSE /\ mappings' = mappings - 1
                /\ pages' = IF Len(ids) > 1
                            THEN [pages EXCEPT ![at.page][at.entry].rowIDs = SelectSeq(@, LAMBDA r : r # id)]
                            ELSE IF shorter[at.page] = <<>> THEN RemoveAt(pages, at.page)
                            ELSE mergeSparsePage(shorter, at.page)

Init == pages = <<>> /\ mappings = 0 /\ mapped = {}
Next == \E m \in Mappings : InsertRowID(m[1], m[2]) \/ RemoveRowID(m[1], m[2])

-----------------------------------------------------------------------------
\* Lookups.

rowIDs(key) ==
    LET at == lowerBound(key) IN IF at.found THEN pages[at.page][at.entry].rowIDs ELSE <<>>

\* The entries from a position on, in page order.
EntriesFrom(page, entry) ==
    FlattenSeq([i \in 1 .. Len(pages) |->
        IF i < page THEN <<>> ELSE SubSeq(pages[i], IF i = page THEN entry ELSE 1, Len(pages[i]))])

\* An endpoint is [unbounded, key, inclusive].  Entries below the low endpoint
\* are skipped; the first one past the high endpoint ends the scan.
seekBounds(low, high) ==
    LET start == IF low.unbounded THEN [page |-> 1, entry |-> 1] ELSE lowerBound(low.key)
        entries == EntriesFrom(start.page, start.entry)
        skipped(e) == ~low.unbounded /\ LET cmp == comparePrefix(e.key, low.key)
                                        IN  cmp < 0 \/ (cmp = 0 /\ ~low.inclusive)
        past(e) == ~high.unbounded /\ LET cmp == comparePrefix(e.key, high.key)
                                      IN  cmp > 0 \/ (cmp = 0 /\ ~high.inclusive)
        scanned == SubSeq(entries, 1, FirstIndex(entries, LAMBDA e : ~skipped(e) /\ past(e)) - 1)
        kept == SelectSeq(scanned, LAMBDA e : ~skipped(e))
    IN  FlattenSeq([i \in DOMAIN kept |-> kept[i].rowIDs])

-----------------------------------------------------------------------------
\* Properties.

\* Whatever inserts and removes led here, a lookup of a key and a range between
\* any two endpoints, prefixes of composite keys included, yield exactly the
\* mapped rows, in key order and by ascending row ID within a key.  No page is
\* empty, which every search relies on, or overfull.
LookupsAgree ==
    LET Bounds == [unbounded : {FALSE}, key : EndpointKeys, inclusive : BOOLEAN]
                    \cup {[unbounded |-> TRUE, key |-> <<>>, inclusive |-> FALSE]}
        above(k, b) == b.unbounded \/ comparePrefix(k, b.key) > (IF b.inclusive THEN -1 ELSE 0)
        below(k, b) == b.unbounded \/ comparePrefix(k, b.key) < (IF b.inclusive THEN 1 ELSE 0)
        before(x, y) == Compare(x[1], y[1]) < 0 \/ (x[1] = y[1] /\ x[2] < y[2])
        listed(ids, s) ==
            /\ ToSet(ids) = {x[2] : x \in s} /\ Len(ids) = Cardinality(s)
            /\ \A i, j \in DOMAIN ids : i < j => \E x, y \in s : x[2] = ids[i] /\ y[2] = ids[j] /\ before(x, y)
    IN  /\ \A i \in DOMAIN pages : Len(pages[i]) \in 1 .. btreePageMaxEntries
        /\ mappings = Cardinality(mapped)
        /\ \A key \in {m[1] : m \in Mappings} : listed(rowIDs(key), {x \in mapped : x[1] = key})
        /\ \A low, high \in Bounds : 
              listed(seekBounds(low, high), {x \in mapped : above(x[1], low) /\ below(x[1], high)})
=============================================================================
