----------------------------- MODULE Discovery -----------------------------
(***************************************************************************)
(* discover of src/impact/ingest/github_source.py for one cohort, which    *)
(* IngestRefresh takes for one step per slice. The window is cut into      *)
(* slices of a few days; a slice with more results than a search returns   *)
(* is bisected until it has few enough or is one day, and what is kept of  *)
(* it is read page by page. A slice is the unit of resumption: its shard   *)
(* is written, then the checkpoint; a run that is killed in between, or in *)
(* the middle of a bisection, is started again.                            *)
(***************************************************************************)
EXTENDS Integers, FiniteSetsExt

CONSTANTS
  Results,           \* what the search can return
  FirstDay, LastDay, \* the window
  SliceDays,
  PageSize,          \* 100
  SEARCH_PAGE_CAP,   \* 1000
  MaxKills           \* bound: runs that are killed

ASSUME DiscoveryAssumption ==
  /\ IsFiniteSet(Results)
  /\ FirstDay \in Int /\ LastDay \in Int
  /\ SliceDays \in Nat \ {0} /\ PageSize \in Nat \ {0}
  /\ SEARCH_PAGE_CAP \in Nat \ {0} /\ SEARCH_PAGE_CAP % PageSize = 0
  /\ MaxKills \in Nat

VARIABLES
  day,       \* the day of each result
  shards,    \* shards[s]: the results written for slice s, and their number
  done,      \* completed_slices of the checkpoint
  passed,    \* the slices this run is done with
  index,     \* the results of those
  total,     \* cohort_node_counts
  notes,     \* ExtractionRun.notes: the days this run has to report as truncated
  reread,    \* history: the slices this run has read back from their shards
  slice,     \* the slice being searched
  todo,      \* the parts of it still to be searched
  part,      \* the part whose pages are read
  page,      \* how many of its pages have been read
  nodes,     \* their results
  kept,      \* the results of the parts already searched, and their number
  kills

onDisk == <<shards, done>>
ofRun == <<passed, index, total>>
reports == <<notes, reread>>
ofSlice == <<slice, todo, part, page, nodes, kept>>
discoveryVars == <<day, onDisk, ofRun, reports, ofSlice, kills>>

-----------------------------------------------------------------------------

Days(s) == s[1] .. s[2]

\* No day is in it.
NoSlice == <<1, 0>>

In(s) == {r \in Results : day[r] \in Days(s)}

\* Mutations: ranges without their last day, ranges that meet in a day, and a
\* middle that is rounded up.
HalvesExclusive(s) ==
  LET mid == s[1] + (s[2] - s[1]) \div 2
  IN  {<<s[1], mid - 1>>, <<mid + 1, s[2]>>}

HalvesMeeting(s) ==
  LET mid == s[1] + (s[2] - s[1]) \div 2
  IN  {<<s[1], mid>>, <<mid, s[2]>>}

HalvesRoundedUp(s) ==
  LET mid == s[1] + (s[2] - s[1] + 1) \div 2
  IN  {<<s[1], mid>>, <<mid + 1, s[2]>>}

\* A date and half a day is the date.
Halves(s) ==
  LET mid == s[1] + (s[2] - s[1]) \div 2
  IN  {<<s[1], mid>>, <<mid + 1, s[2]>>}

SliceFrom(d) ==
  <<d, IF d + SliceDays - 1 < LastDay THEN d + SliceDays - 1 ELSE LastDay>>

\* _date_slices
Slices ==
  {SliceFrom(d) : d \in {x \in FirstDay .. LastDay : (x - FirstDay) % SliceDays = 0}}

Nothing == [nodes |-> {}, length |-> 0]

\* The lists of two parts, one after the other.
Joined(a, b) == [nodes |-> a.nodes \union b, length |-> a.length + Cardinality(b)]

\* A page is any of the results not yet on a page: the search has an order of its own.
Pages(rest) ==
  kSubset(IF Cardinality(rest) < PageSize THEN Cardinality(rest) ELSE PageSize, rest)

-----------------------------------------------------------------------------

StartRun ==
  /\ passed = {} /\ index = {} /\ total = 0
  /\ notes = {} /\ reread = {}
  /\ slice = NoSlice /\ todo = {} /\ part = NoSlice
  /\ page = 0 /\ nodes = {} /\ kept = Nothing

DiscoveryInit ==
  /\ day \in [Results -> FirstDay .. LastDay]
  /\ shards = [s \in {} |-> Nothing] /\ done = {}
  /\ StartRun
  /\ kills = 0

\* The earliest of a set of slices.
Earliest(S) == {s \in S : \A t \in S : s[1] <= t[1]}

Collect(s, found) ==
  /\ passed' = passed \union {s}
  /\ index' = index \union found.nodes
  /\ total' = total + found.length

ReadSlice(s) ==
  /\ s \in done /\ s \in DOMAIN shards
  /\ Collect(s, shards[s])
  /\ reread' = reread \union {s}
  /\ UNCHANGED <<day, onDisk, notes, ofSlice, kills>>

BeginSlice(s) ==
  /\ ~(s \in done /\ s \in DOMAIN shards)
  /\ slice' = s /\ todo' = {s} /\ kept' = Nothing
  /\ UNCHANGED <<day, onDisk, ofRun, reports, part, page, nodes, kills>>

TakeSlice ==
  /\ slice = NoSlice
  /\ \E s \in Earliest(Slices \ passed) : ReadSlice(s) \/ BeginSlice(s)

\* _search_slice: more than the cap, and more than one day.
Split(s) ==
  /\ Cardinality(In(s)) > SEARCH_PAGE_CAP /\ s[1] < s[2]
  /\ todo' = (todo \ {s}) \union Halves(s)
  /\ UNCHANGED <<day, onDisk, ofRun, reports, slice, part, page, nodes, kept, kills>>

FirstPage(s) ==
  /\ ~(Cardinality(In(s)) > SEARCH_PAGE_CAP /\ s[1] < s[2])
  /\ todo' = todo \ {s}
  /\ part' = s /\ page' = 1
  /\ nodes' \in Pages(In(s))
  /\ notes' = IF Cardinality(In(s)) > SEARCH_PAGE_CAP THEN notes \union {s} ELSE notes
  /\ UNCHANGED <<day, onDisk, ofRun, reread, slice, kept, kills>>

SearchPart ==
  /\ slice # NoSlice /\ part = NoSlice
  /\ \E s \in Earliest(todo) : Split(s) \/ FirstPage(s)

\* hasNextPage, as far as a search returns results.
MorePages == In(part) \ nodes # {} /\ page * PageSize < SEARCH_PAGE_CAP

NextPage ==
  /\ part # NoSlice /\ MorePages
  /\ \E P \in Pages(In(part) \ nodes) : nodes' = nodes \union P
  /\ page' = page + 1
  /\ UNCHANGED <<day, onDisk, ofRun, reports, slice, todo, part, kept, kills>>

EndPart ==
  /\ part # NoSlice /\ ~MorePages
  /\ kept' = Joined(kept, nodes)
  /\ part' = NoSlice /\ page' = 0 /\ nodes' = {}
  /\ UNCHANGED <<day, onDisk, ofRun, reports, slice, todo, kills>>

Searched == slice # NoSlice /\ part = NoSlice /\ todo = {}

WriteShard ==
  /\ Searched
  /\ ~(slice \in DOMAIN shards /\ shards[slice] = kept)
  /\ shards' = [s \in DOMAIN shards \union {slice} |->
                  IF s = slice THEN kept ELSE shards[s]]
  /\ UNCHANGED <<day, done, ofRun, reports, ofSlice, kills>>

SaveCheckpoint ==
  /\ Searched
  /\ slice \in DOMAIN shards /\ shards[slice] = kept
  /\ done' = done \union {slice}
  /\ Collect(slice, kept)
  /\ slice' = NoSlice /\ kept' = Nothing
  /\ UNCHANGED <<day, shards, reports, todo, part, page, nodes, kills>>

\* The process ends, with what it was to report, and is started again.
KillRun ==
  /\ kills < MaxKills
  /\ kills' = kills + 1
  /\ passed' = {} /\ index' = {} /\ total' = 0
  /\ notes' = {} /\ reread' = {}
  /\ slice' = NoSlice /\ todo' = {} /\ part' = NoSlice
  /\ page' = 0 /\ nodes' = {} /\ kept' = Nothing
  /\ UNCHANGED <<day, onDisk>>

Discovers ==
  TakeSlice \/ SearchPart \/ NextPage \/ EndPart \/ WriteShard \/ SaveCheckpoint

DiscoveryNext == Discovers \/ KillRun

DiscoverySpec ==
  DiscoveryInit /\ [][DiscoveryNext]_discoveryVars /\ WF_discoveryVars(Discovers)

-----------------------------------------------------------------------------
(* Properties. *)

Discovered == passed = Slices

\* A slice is reported only when it is one day, and of that day the finished
\* discovery has as many results as a search returns, no fewer.
OnlyFullDaysAreCut ==
  \A s \in notes :
    /\ s[1] = s[2]
    /\ Discovered => Cardinality(index \intersect In(s)) = SEARCH_PAGE_CAP

\* What was cut off day d is reported by this run, or its slice was completed
\* by one that has been killed since, and is read back without a word.
IsReported(d) == <<d, d>> \in notes \/ \E s \in reread : d \in Days(s)

\* Slices, bisections, pages, kills and resumptions leave no day of the window
\* out: what a finished discovery has not found lies on a day of which it has
\* as many results as a search returns.  A run reports these days, all of them
\* when it was not resumed; what a killed run was to report is lost.
WindowIsDiscovered ==
  /\ Discovered =>
       \A r \in Results \ index :
         /\ Cardinality(index \intersect In(<<day[r], day[r]>>)) = SEARCH_PAGE_CAP
         /\ IsReported(day[r])
  /\ kills = 0 => reread = {}
  /\ OnlyFullDaysAreCut

\* Nor is anything searched twice: the count of a cohort, which adds the lengths
\* of lists, is the number of its pull requests.
CountsAreDistinct == total = Cardinality(index)

\* However the results are spread, bisection comes to an end.
DiscoveryEnds == <>Discovered
=============================================================================
