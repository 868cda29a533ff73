------------------------------- MODULE Paging -------------------------------
(***************************************************************************)
(* PaginateRelayItems (internal/relay/paging.go): how the files of a relay *)
(* are cut into the pages a claimer gets. One action is one round of its   *)
(* loop. Of an item only its media group matters, and a page is the range  *)
(* of items it holds.                                                      *)
(***************************************************************************)
EXTENDS Integers, Sequences

CONSTANTS
    PageSize,  \* relayPageSize
    Group,     \* media group ids
    NoGroup,   \* the empty media group id
    MaxItems   \* limits.MaxBatchItems

PagingAssumption ==
    /\ PageSize \in Nat \ {0}
    /\ MaxItems \in Nat
    /\ NoGroup \notin Group

VARIABLES
    items,   \* the media group of each item, in item_order
    index,   \* the item the loop has come to
    seen,    \* seenGroups
    pages,   \* the pages so far
    outcome  \* what the function has returned, if it has

vars == <<items, index, seen, pages, outcome>>

Page == [first : Nat, last : Nat]

Inputs == UNION {[1 .. n -> Group \cup {NoGroup}] : n \in 0 .. MaxItems}

TypeOK ==
    /\ items \in Inputs
    /\ index \in 1 .. Len(items) + 1
    /\ seen \in SUBSET Group
    /\ pages \in Seq(Page)
    /\ outcome \in {"running", "pages", "fragmented"}

-----------------------------------------------------------------------------
(* The last item of the run that starts at i. *)
RunEnd(i) ==
    CHOOSE e \in i .. Len(items) :
        /\ \A k \in i .. e : items[k] = items[i]
        /\ e = Len(items) \/ items[e + 1] # items[i]

(* appendRelayPages: the items i .. e in pages of PageSize. *)
RunPages(i, e) ==
    [k \in 1 .. (e - i + PageSize) \div PageSize |->
        [first |-> i + (k - 1) * PageSize,
         last  |-> IF i + k * PageSize - 1 > e THEN e ELSE i + k * PageSize - 1]]

(* Fault: no test for a group seen before. *)
NeverSeen(g) == FALSE

SeenBefore(g) == g \in seen

TakeRun ==
    /\ pages' = pages \o RunPages(index, RunEnd(index))
    /\ seen' = seen \cup ({items[index]} \ {NoGroup})
    /\ index' = RunEnd(index) + 1

Round ==
    /\ outcome = "running"
    /\ index <= Len(items)
    /\ ~SeenBefore(items[index])
    /\ TakeRun
    /\ UNCHANGED <<items, outcome>>

ReturnFragmented ==
    /\ outcome = "running"
    /\ index <= Len(items)
    /\ SeenBefore(items[index])
    /\ outcome' = "fragmented"
    /\ UNCHANGED <<items, index, seen, pages>>

ReturnPages ==
    /\ outcome = "running"
    /\ index > Len(items)
    /\ outcome' = "pages"
    /\ UNCHANGED <<items, index, seen, pages>>

Init ==
    /\ items \in Inputs
    /\ index = 1
    /\ seen = {}
    /\ pages = <<>>
    /\ outcome = "running"

Next == Round \/ ReturnFragmented \/ ReturnPages

Spec == Init /\ [][Next]_vars

-----------------------------------------------------------------------------
(* Pages are consecutive ranges of the items already passed, none of them  *)
(* empty or longer than PageSize: every file is on one page, in its order, *)
(* so page numbers of the navigator are stable (service.go:962).           *)
PagesTile ==
    /\ \A p \in DOMAIN pages :
          /\ pages[p].first = IF p = 1 THEN 1 ELSE pages[p - 1].last + 1
          /\ pages[p].last \in pages[p].first .. pages[p].first + PageSize - 1
    /\ index = IF pages = <<>> THEN 1 ELSE pages[Len(pages)].last + 1

(* A page never mixes an album with anything else, and an album that fits  *)
(* one page is on one page, so that it can be sent as a media group        *)
(* (sender.go:97).                                                         *)
AlbumsWhole ==
    \A p \in DOMAIN pages :
        LET g == items[pages[p].first]
            album == {i \in DOMAIN items : items[i] = g}
        IN  /\ \A i \in pages[p].first .. pages[p].last : items[i] = g
            /\ outcome = "pages" /\ g # NoGroup
               /\ (\A i \in album, j \in album : j - i < PageSize)
               => album = pages[p].first .. pages[p].last

Fragmented ==
    \E i, j, k \in DOMAIN items :
        i < j /\ j < k /\ items[i] = items[k] /\ items[i] # NoGroup /\ items[j] # items[i]

(* Files are refused exactly when some album does not lie together, which  *)
(* is what interleaved appends of two albums leave behind (paging.go:28).  *)
RefusedIffFragmented ==
    /\ outcome = "fragmented" => Fragmented
    /\ outcome = "pages" => ~Fragmented

(* What the loop has found: it stands at the start of a run, knows the     *)
(* albums before it, and has met each of them in one run.                  *)
LoopRight ==
    /\ seen = {items[i] : i \in 1 .. index - 1} \ {NoGroup}
    /\ index \in 2 .. Len(items) => items[index - 1] # items[index]
    /\ \A i, k \in 1 .. index - 1 :
          items[i] = items[k] /\ items[i] # NoGroup => \A j \in i .. k : items[j] = items[i]
    /\ outcome = "pages" => index > Len(items)

(* A page begins its run or follows a full page of it, and ends its run or *)
(* is full.                                                                *)
PageOfRun(first, last) ==
    /\ first \in 1 .. Len(items) /\ last \in first .. Len(items)
    /\ \A i \in first .. last : items[i] = items[first]
    /\ \/ first = 1 \/ items[first - 1] # items[first]
       \/ first > PageSize /\ items[first - PageSize] = items[first]
    /\ \/ last = Len(items) \/ items[last + 1] # items[first]
       \/ last = first + PageSize - 1

(* The inductive invariant of the loop. *)
PagingInv ==
    /\ TypeOK /\ PagesTile /\ AlbumsWhole /\ RefusedIffFragmented /\ LoopRight
    /\ \A p \in DOMAIN pages : PageOfRun(pages[p].first, pages[p].last)

=============================================================================
