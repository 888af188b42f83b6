---------------------------- MODULE UniverseCrawl ----------------------------
(***************************************************************************)
(* One pull of the BondCentral securities master: iter_records pages the   *)
(* feed until it ends, and a page that fails is re-read down a ladder of   *)
(* sizes (100, 10, 1 in the code) so that a record the API cannot          *)
(* serialise costs that record alone.                                      *)
(*                                                                         *)
(* A step is one turn of the loop: a full-size page with every request     *)
(* made on its behalf.  A request's answer is what ThrottledClient.get     *)
(* comes back with after its own retries: "ok", "broken" (an HTTP error or *)
(* a body that is not a JSON object), "refused" (ConnectError,             *)
(* ConnectTimeout) or "hollow", a JSON object with neither data nor        *)
(* pagination_info, which the code takes for an empty last page.  A slice  *)
(* that contains a record in broken never answers "ok"; other requests     *)
(* fail, or come back hollow, when the host does.  Landing the raw page    *)
(* and parsing its items have no influence on the crawl.                   *)
(***************************************************************************)
EXTENDS Integers, FiniteSets, FiniteSetsExt

CONSTANTS
    NumRecords,
    MaxPageSize,          \* _MAX_PAGE_SIZE
    LadderStep,           \* _LADDER_STEP
    MaxSkippedPages,      \* _MAX_SKIPPED_PAGES
    MaxUnreachablePages,  \* _MAX_UNREACHABLE_PAGES
    AssumeEndAfter,       \* failures in a row that end a crawl without totals
    Caps,                 \* values of max_pages tried; NoCap is None
    MaxBroken,            \* bound on the unserialisable records
    MaxFaults,            \* bound on requests of a page gone wrong, but for an outage
    MaxHollow             \* bound on the pages of a pull with a hollow answer

NoCap == 0
Unknown == 0  \* a total the feed has not told

ASSUME CrawlAssumption ==
    /\ {NumRecords, MaxPageSize, LadderStep, MaxSkippedPages,
        MaxUnreachablePages, AssumeEndAfter} \subseteq Nat \ {0}
    /\ LadderStep > 1 /\ MaxPageSize % LadderStep = 0
    /\ AssumeEndAfter <= MaxSkippedPages
    /\ Caps \subseteq Nat

(* The feed is longer than the skip budget: 256 pages against 30.          *)
ASSUME BudgetAssumption == NumRecords > MaxSkippedPages * MaxPageSize

Pages(size) == (NumRecords + size - 1) \div size
NumPages == Pages(MaxPageSize)

(* The bound on pages and failures in a row, which no crawl reaches: it    *)
(* would have run out of skips before.                                     *)
PageBound == NumPages + MaxSkippedPages + 2

Slice(size, page) ==
    {r \in (page - 1) * size + 1 .. page * size : r <= NumRecords}

VARIABLES
    broken,       \* the records the API cannot serialise
    tells,        \* the feed sends total_pages and total_records
    cap,          \* max_pages
    page,
    got,          \* the records yielded
    lost,         \* lost_records
    skipped,      \* the pages counted by skipped_pages
    failures,     \* consecutive_failures
    unreachable,  \* consecutive_unreachable
    knownTotal,   \* known_total_pages
    outcome,      \* "crawling", or how the generator ended
    requests,     \* requests made for the last page
    faulty,       \* pages one of whose requests the host did not answer as it should
    hollow        \* those of them with a request that was answered hollow

feed == <<broken, tells, cap>>
crawlVars == <<feed, page, got, lost, skipped, failures, unreachable, knownTotal,
               outcome, requests, faulty, hollow>>

CrawlInit ==
    /\ broken \in UNION {kSubset(n, 1 .. NumRecords) : n \in 0 .. MaxBroken}
    /\ tells \in BOOLEAN
    /\ cap \in Caps
    /\ page = 1
    /\ got = {} /\ lost = 0 /\ skipped = {}
    /\ failures = 0 /\ unreachable = 0
    /\ knownTotal = Unknown
    /\ outcome = "crawling"
    /\ requests = 0
    /\ faulty = {} /\ hollow = {}

(***************************************************************************)
(* Requests.                                                               *)
(***************************************************************************)
Rungs == {s \in 1 .. MaxPageSize : \E k \in 0 .. MaxPageSize : s * LadderStep^k = MaxPageSize}

(* The ladder goes down to single records: 100, 10, 1 in the code.         *)
ASSUME LadderAssumption ==
    /\ MaxPageSize \in Rungs
    /\ \A s \in Rungs : s >= LadderStep => s % LadderStep = 0 /\ s \div LadderStep \in Rungs
    /\ \A s \in Rungs : s >= LadderStep \/ s = 1

(* The pages of every size that a page may be re-read as, itself included. *)
LadderOf(p) ==
    UNION {{<<s, q>> : q \in (p - 1) * (MaxPageSize \div s) + 1 .. p * (MaxPageSize \div s)}
           : s \in Rungs}

(* What may go wrong with the host during the turn for page p, request by  *)
(* request: a few go wrong, one is refused, which ends the turn, or all    *)
(* fail, but for one that may go wrong in another way.                     *)
Failures == {"broken", "refused", "hollow"}

NoMishap == [request \in {} |-> "broken"]

FewFail(p) ==
    UNION {[requests_ -> Failures \ {"refused"}] :
              requests_ \in UNION {kSubset(n, LadderOf(p)) : n \in 0 .. MaxFaults}}

OneRefused(p) == UNION {[{request} -> {"refused"}] : request \in LadderOf(p)}

Outages(p) ==
    {[request \in LadderOf(p) |-> IF request = other THEN failure ELSE "broken"] :
        other \in LadderOf(p), failure \in Failures}

Mishaps(p) == FewFail(p) \union OneRefused(p) \union Outages(p)

Honest(mishap) == \A request \in DOMAIN mishap : mishap[request] # "hollow"

(* The answer to a request for a page of one size.                         *)
Reply(mishap, size, p) ==
    IF <<size, p>> \in DOMAIN mishap THEN mishap[<<size, p>>]
    ELSE IF Slice(size, p) \intersect broken # {} THEN "broken"
    ELSE "ok"

Splittable(size) == size >= LadderStep /\ size % LadderStep = 0

Raise(err, count) ==
    [err |-> err, items |-> {}, lost |-> 0, more |-> "unknown", total |-> Unknown,
     asked |-> count]

(* What _fetch_page brings and its callers read out of it; more is unknown *)
(* when the answer has no has_next.                                        *)
FetchPage(answer, size, p) ==
    CASE answer = "ok" ->
           [err |-> "none", items |-> Slice(size, p), lost |-> 0,
            more |-> IF p * size < NumRecords THEN "yes" ELSE "no",
            total |-> IF tells THEN NumRecords ELSE Unknown, asked |-> 1]
      [] answer = "hollow" -> Raise("none", 1)
      [] OTHER -> Raise(answer, 1)

(***************************************************************************)
(* The ladder.                                                             *)
(***************************************************************************)
(* A page to be recovered, its own request having failed.                  *)
NothingRead == Raise("none", 1)

(* Mutant: only the last slice's total is kept, and a lost one has none.   *)
JoinSlice_LastTotal(page_, slice, size, isLast) ==
    IF slice.err = "refused"
    THEN [page_ EXCEPT !.err = "refused", !.asked = @ + slice.asked]
    ELSE [page_ EXCEPT
            !.items = @ \union slice.items,
            !.lost  = @ + (IF slice.err = "none" THEN slice.lost ELSE size),
            !.total = slice.total,
            !.more  = IF isLast THEN slice.more ELSE @,
            !.asked = @ + slice.asked]

(* One turn of _recover_page's loop: what a slice adds to the page.        *)
JoinSlice(page_, slice, size, isLast) ==
    IF slice.err = "refused"
    THEN [page_ EXCEPT !.err = "refused", !.asked = @ + slice.asked]
    ELSE [page_ EXCEPT
            !.items = @ \union slice.items,
            !.lost  = @ + (IF slice.err = "none" THEN slice.lost ELSE size),
            !.total = IF slice.total = Unknown THEN @ ELSE slice.total,
            !.more  = IF isLast THEN slice.more ELSE @,
            !.asked = @ + slice.asked]

(* Mutant: with the last slice lost, the crawl is taken to have ended.     *)
Summarise_LostTailEnds(acc, size, p) ==
    CASE acc.err # "none" -> Raise(acc.err, acc.asked)
      [] acc.err = "none" /\ acc.items = {} -> Raise("broken", acc.asked)
      [] OTHER -> [acc EXCEPT !.more = IF @ = "unknown" THEN "no" ELSE @]

(* What a recovered page reports; a page of which nothing was read fails   *)
(* with its own error.  When the last slice is lost the record count says  *)
(* whether there is a next page.                                           *)
Summarise(acc, size, p) ==
    CASE acc.err # "none" -> Raise(acc.err, acc.asked)
      [] acc.err = "none" /\ acc.items = {} -> Raise("broken", acc.asked)
      [] OTHER ->
           [acc EXCEPT !.more =
               IF @ # "unknown" THEN @
               ELSE IF acc.total = Unknown \/ p < Pages(size) THEN "yes" ELSE "no"]

(* The slices of a page that failed, joined one after the other: what has  *)
(* been read after the i-th of them, up to one the host refuses            *)
(* (_recover_page).                                                        *)
SlicesRead(slices, size, p) ==
    LET sub   == size \div LadderStep
        first == (p - 1) * LadderStep + 1
        upTo[i \in 0 .. LadderStep] ==
          IF i = 0 THEN NothingRead
          ELSE LET acc == upTo[i - 1] IN
               IF acc.err # "none" THEN acc
               ELSE JoinSlice(acc, slices[first + i - 1], sub, i = LadderStep)
    IN upTo

(* A page of one size, given the pages of the next size down; bail is      *)
(* "not feed_alive" (_page_items).                                         *)
ReadPage(mishap, slices, size, p, bail) ==
    LET direct == FetchPage(Reply(mishap, size, p), size, p)
        first  == Reply(mishap, size \div LadderStep, (p - 1) * LadderStep + 1)
    IN IF direct.err # "broken" \/ ~Splittable(size) THEN direct
       ELSE IF bail /\ first = "broken" THEN Raise("broken", 2)
       ELSE Summarise(SlicesRead(slices, size, p)[LadderStep], size, p)

(* The pages of every size, each re-read as pages of the next size down.   *)
Ladder(mishap) ==
    LET read[size \in 1 .. MaxPageSize] ==
          [p \in Nat |-> ReadPage(mishap, read[size \div LadderStep], size, p, FALSE)]
    IN read

(* A full-size page, with the whole ladder under it.                       *)
PageItems(mishap, fullPage, feedAlive) ==
    ReadPage(mishap, Ladder(mishap)[MaxPageSize \div LadderStep], MaxPageSize, fullPage,
             ~feedAlive)

(***************************************************************************)
(* The crawl.                                                              *)
(***************************************************************************)
(* Mutants: the ladder is always walked to the end; a failing first slice  *)
(* always counts as an outage.                                             *)
FeedAlive_Always == TRUE
FeedAlive_Never == FALSE

FeedAlive == failures = 0 /\ got # {}

Bounded(n) == IF n <= PageBound THEN n ELSE PageBound

NextPage == page' = Bounded(page + 1)

EndsAtCap == cap # NoCap /\ page >= cap

(* The page was read, perhaps in slices and with losses; one that does not *)
(* say that another follows is the last.                                   *)
KeepPage(result) ==
    /\ result.err = "none"
    /\ got' = got \union result.items
    /\ lost' = lost + result.lost
    /\ failures' = 0 /\ unreachable' = 0
    /\ knownTotal' = IF result.total = Unknown THEN knownTotal ELSE Pages(MaxPageSize)
    /\ IF result.more # "yes" \/ EndsAtCap
       THEN outcome' = "exhausted" /\ UNCHANGED page
       ELSE NextPage /\ UNCHANGED outcome
    /\ UNCHANGED skipped

TooManyUnreachable == unreachable' >= MaxUnreachablePages

(* Mutant: any number of pages may be skipped.                             *)
TooManySkipped_Never == FALSE

TooManySkipped == Cardinality(skipped') > MaxSkippedPages

(* Mutant: guessed before anything was read, too.                          *)
EndAssumed_FromPageOne == knownTotal = Unknown /\ failures' >= AssumeEndAfter

(* The end of a feed that tells no totals can only be guessed.             *)
EndAssumed == knownTotal = Unknown /\ failures' >= AssumeEndAfter /\ got # {}

SkipPage(result) ==
    /\ result.err # "none"
    /\ skipped' = skipped \union {page}
    /\ failures' = Bounded(failures + 1)
    /\ unreachable' = IF result.err = "refused" THEN unreachable + 1 ELSE 0
    /\ CASE TooManyUnreachable \/ TooManySkipped ->
              outcome' = "aborted" /\ UNCHANGED page
         [] ~TooManyUnreachable /\ ~TooManySkipped /\ EndAssumed ->
              outcome' = "assumedEnd" /\ UNCHANGED page
         [] OTHER ->
              IF (knownTotal # Unknown /\ page >= knownTotal) \/ EndsAtCap
              THEN outcome' = "exhausted" /\ UNCHANGED page
              ELSE NextPage /\ UNCHANGED outcome
    /\ UNCHANGED <<got, lost, knownTotal>>

(* What a turn may bring, given what goes wrong during it.                 *)
Results(mishaps) == {PageItems(mishap, page, FeedAlive) : mishap \in mishaps}

Turn(result) ==
    /\ KeepPage(result) \/ SkipPage(result)
    /\ requests' = result.asked
    /\ UNCHANGED feed

(* The host answers every request as it should.                            *)
QuietTurn ==
    /\ outcome = "crawling"
    /\ \E result \in Results({NoMishap}) : Turn(result)
    /\ UNCHANGED <<faulty, hollow>>

(* Some of them fail.                                                      *)
FaultyTurn ==
    /\ outcome = "crawling"
    /\ \E result \in Results({mishap \in Mishaps(page) \ {NoMishap} : Honest(mishap)}) :
          Turn(result)
    /\ faulty' = faulty \union {page}
    /\ UNCHANGED hollow

(* Some of them, perhaps among others that fail, are answered hollow.      *)
HollowTurn ==
    /\ outcome = "crawling"
    /\ Cardinality(hollow) < MaxHollow
    /\ \E result \in Results({mishap \in Mishaps(page) : ~Honest(mishap)}) : Turn(result)
    /\ faulty' = faulty \union {page}
    /\ hollow' = hollow \union {page}

CrawlNext == QuietTurn \/ FaultyTurn \/ HollowTurn

CrawlSpec == CrawlInit /\ [][CrawlNext]_crawlVars

(* The loop does not wait for anyone: a request ends at the latest with    *)
(* the client's timeout.                                                   *)
CrawlFairSpec == CrawlSpec /\ WF_crawlVars(CrawlNext)

-----------------------------------------------------------------------------
PageOf(r) == (r + MaxPageSize - 1) \div MaxPageSize

(* The generator returned normally, having been told the feed had ended,   *)
(* and not by a hollow answer, which tells nothing.                        *)
WholeFeedRead == outcome = "exhausted" /\ cap = NoCap /\ page \notin hollow

Missing == (1 .. NumRecords) \ got

(* A pull that ends normally accounts for every record: it was yielded, it *)
(* is on a page counted as skipped, or it is among the records counted as  *)
(* lost.  In particular no lost tail, no recovered page and no failed last *)
(* page ends the crawl before the feed does (iter_records, _recover_page). *)
(* Exempt are the records of a page with a hollow answer: the code does    *)
(* not count what such an answer leaves out (_page_items).                 *)
EveryRecordCounted ==
    WholeFeedRead =>
        Cardinality({r \in Missing : PageOf(r) \notin skipped \union hollow}) <= lost

(* While the host answers, the ladder loses exactly the records that the   *)
(* API cannot serialise, wherever in its page such a record stands.  The   *)
(* code gives up that exactness in two places only: page one, and a page   *)
(* whose predecessor was skipped, where a failing first slice is taken for *)
(* an outage (_page_items, feed_alive).                                    *)
LadderLosesOnlyBroken ==
    WholeFeedRead =>
        \A r \in Missing : \/ r \in broken
                           \/ PageOf(r) \in faulty
                           \/ PageOf(r) = 1
                           \/ PageOf(r) - 1 \in skipped

(* An outage fails loudly: without max_pages, no pull ends normally        *)
(* without a record, however the failures begin and end, so an outage is   *)
(* not stored as an empty snapshot (iter_records, assumed_end_of_feed).    *)
(* The only way to an empty snapshot is a page answered hollow.            *)
NoEmptySnapshot ==
    outcome \in {"exhausted", "assumedEnd"} /\ cap = NoCap => got # {} \/ page \in hollow

(* The end of the feed is guessed only while its length is unknown: once   *)
(* anything was read of a feed that tells totals, be it a recovered page   *)
(* that lost its last slice, the crawl knows where it ends.                *)
EndGuessedOnlyBlind == tells => outcome # "assumedEnd"

(* An outage costs at most two requests per page from its second page on,  *)
(* whatever the ladder would do with a broken window (_recover_page,       *)
(* bail_on_first); a hollow first slice is no failure, and the ladder is   *)
(* walked.                                                                 *)
OutageIsCheap ==
    failures >= 2 /\ unreachable = 0 /\ Max(skipped) <= NumPages /\ Max(skipped) \notin hollow
        => requests <= 2

(* Every pull ends, however long the feed keeps failing and even if it     *)
(* never tells how long it is (_MAX_SKIPPED_PAGES).                        *)
PullEnds == <>(outcome # "crawling")
=============================================================================
