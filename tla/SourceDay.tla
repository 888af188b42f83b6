----------------------------- MODULE SourceDay -----------------------------
(***************************************************************************)
(* One day of one source, from its publication to the warehouse: the       *)
(* requests of a run with their retries, the lake a body lands in, the     *)
(* verdict, the audit row and the keyed upsert, night after night.         *)
(*                                                                         *)
(* The feeds that publish a day at a time and those that show what is      *)
(* current (SEBI's calendar, NSE's live pages, RBI's index) share the      *)
(* machine.  Which of a window of days a night tries is DateSeries'; here  *)
(* the day is inside the window.                                           *)
(***************************************************************************)
EXTENDS Connectors, CcilTape, AuctionRelease

CONSTANTS
    Tapes,          \* the tapes CCIL may publish for the day
    Releases,       \* the full results RBI may publish
    MaxRetries,     \* retries of one request
    MaxFaults       \* crashes, and answers that are not what the source has

ASSUME BoundsAssumption == MaxRetries \in Nat /\ MaxFaults \in Nat

(* CcilTape says what may be on a tape, AuctionRelease in a release.       *)
ASSUME TapesAssumption == \A tape \in Tapes : IsTape(tape)
ASSUME ReleasesAssumption == \A release \in Releases : IsRelease(release)

VARIABLES
    feed,       \* the connector; it never changes
    day,        \* how far the source's day has come
    lake,       \* the body landed for the day, if the connector reads it back
    run,        \* the run under way, or how the last one ended
    audit,      \* the audit row of the day
    stored,     \* what the warehouse holds of each artifact
    content,    \* the tape or the release the last run loaded
    faults

vars == <<feed, day, lake, run, audit, stored, content, faults>>

Runs == INSTANCE IngestionRuns

-----------------------------------------------------------------------------
(* The source.                                                             *)

Snapshots == {"sebi", "nse", "rbi"}

(* BSE's tape can be read while it grows; NSE's reporting closes half an   *)
(* hour before the close its connector waits for.                          *)
Stages ==
    CASE feed = "bse"  -> <<"unpublished", "session", "settled">>
      [] feed = "nse"  -> <<"session", "closed", "settled">>
      [] feed = "sebi" -> <<"settled">>
      [] OTHER         -> <<"unpublished", "settled">>

(* What each source answers for a day it has not published.                *)
Unpublished ==
    CASE feed \in {"nse_cbm", "nse_cbr"} -> "404" [] feed = "fbil" -> "500" [] OTHER -> "norows"

Answer(ask) ==
    CASE ask # "page" /\ day = "unpublished" -> Unpublished
      [] ask # "page" /\ day = "session" -> "part"
      [] OTHER -> "all"

FaultAnswers ==
    Statuses \cup {"html", "foreign", "norows"} \cup (IF feed \in {"bse", "fbil", "nse"} THEN {"corrupt"} ELSE {})

(* A run ends within the hour: the day moves at most once in it.           *)
Publish ==
    /\ ~run.advanced
    /\ \E i \in 1..Len(Stages) - 1 : day = Stages[i] /\ day' = Stages[i + 1]
    /\ run' = [run EXCEPT !.advanced = run.on]
    /\ UNCHANGED <<feed, lake, audit, stored, content, faults>>

-----------------------------------------------------------------------------
(* A run: which of its requests are left, the attempts at the first of     *)
(* them, the bodies so far, the verdict and the answer it was made of.     *)

NoBody == "none"
NoContent == <<>>
Got(asks, body) == [ask \in asks |-> body]

Idle == [on |-> FALSE, left |-> {}, attempt |-> 0, got |-> Got({}, NoBody), reprimed |-> FALSE,
         advanced |-> FALSE, verdict |-> "none", cause |-> NoBody]

(* The press releases are asked for to date the auctions, and again for    *)
(* the results unless the first time was answered.                         *)
Details == {"release1", "release2"}
Asks ==
    CASE feed = "ccil" -> <<"page", "day">>
      [] feed = "nse"  -> <<"page", "seg1", "seg2">>
      [] feed = "rbi"  -> <<"index", "release1", "release2", "release1", "release2">>
      [] OTHER         -> <<"day">>

Begin ==
    /\ ~run.on
    /\ run' = IF lake \in Connector(feed).served
              THEN [Idle EXCEPT !.on = TRUE, !.got = Got({"day"}, lake),
                                !.verdict = Outcome(feed, lake), !.cause = lake]
              ELSE [Idle EXCEPT !.on = TRUE, !.left = DOMAIN Asks, !.verdict = "success"]
    /\ content' = NoContent
    /\ UNCHANGED <<feed, day, lake, audit, stored, faults>>

(* A mutant: a skip passes for a day that was processed, and is not tried  *)
(* again.                                                                  *)
Due_Processed == feed \in Snapshots \/ audit.status \notin {"success", "skipped"}

(* A night tries a day that has not loaded, and what is current every      *)
(* time.  NSE's live pages are pulled by hand: its nights are the operator *)
(* coming back.                                                            *)
Due == feed \in Snapshots \/ audit.status # "success"
Night == Due /\ Begin
Rerun == ~Due /\ Begin          \* an operator's

(* The next request is answered, by the source or by a fault.              *)
NextAsk == Asks[Min(run.left)]
Answered(answer) ==
    /\ run.on /\ run.left # {}
    /\ \/ answer = Answer(NextAsk) /\ faults' = faults
       \/ /\ answer \in FaultAnswers \ {Answer(NextAsk)}
          /\ faults < MaxFaults /\ faults' = faults + 1

Retries(answer) == Retryable(answer, Connector(feed).no_retry) /\ run.attempt < MaxRetries

Retry(answer) ==
    /\ Answered(answer) /\ Retries(answer)
    /\ run' = [run EXCEPT !.attempt = @ + 1]
    /\ UNCHANGED <<feed, day, lake, audit, stored, content>>

(* CCIL answers expired cookies with a page: they are asked for once more. *)
Challenged(answer) == feed = "ccil" /\ answer = "html" /\ NextAsk = "day" /\ ~run.reprimed

Reprime(answer) ==
    /\ Answered(answer) /\ Challenged(answer)
    /\ run' = [run EXCEPT !.left = DOMAIN Asks, !.attempt = 0, !.reprimed = TRUE]
    /\ UNCHANGED <<feed, day, lake, audit, stored, content>>

(* The artifacts of the first kept over those of the second.               *)
Over(new, old) ==
    [ask \in DOMAIN new \cup DOMAIN old |-> IF ask \in DOMAIN new THEN new[ask] ELSE old[ask]]

(* A press release that cannot be had costs that release; the page that    *)
(* hands out cookies only has to answer.                                   *)
VerdictOn(ask, answer) ==
    CASE ask \in Details -> "success"
      [] ask = "page"    -> IF answer \in Bodies THEN "success" ELSE "failed"
      [] OTHER           -> Verdict(feed, answer)

Take(answer) ==
    /\ Answered(answer) /\ ~Retries(answer) /\ ~Challenged(answer)
    /\ LET got     == IF answer \in Bodies THEN Over(Got({NextAsk}, answer), run.got) ELSE run.got
           verdict == VerdictOn(NextAsk, answer)
           left    == {i \in run.left \ {Min(run.left)} : Asks[i] \notin DOMAIN got}
       IN  run' = [run EXCEPT !.got = got, !.verdict = verdict, !.cause = answer, !.attempt = 0,
                              !.left = IF verdict = "success" THEN left ELSE {}]
    /\ lake' = IF answer \in Connector(feed).served \ Connector(feed).missing THEN answer ELSE lake
    /\ UNCHANGED <<feed, day, audit, stored, content>>

-----------------------------------------------------------------------------
(* The end of a run.                                                       *)

Batch == [ask \in {a \in DOMAIN run.got \ {"page", "index"} : run.got[a] \in {"part", "all"}} |-> run.got[ask]]

(* A mutant: the close waited for is the exchange's.                       *)
InProgress_AtMarketClose == feed = "nse" /\ DOMAIN Batch # {} /\ day = "session"

(* NSE shows today's session and the close has not passed, by the clock    *)
(* after the last request.                                                 *)
InProgress == feed = "nse" /\ DOMAIN Batch # {} /\ day # "settled"

Final ==
    CASE run.verdict # "success" -> run.verdict
      [] run.verdict = "success" /\ (InProgress \/ (feed = "rbi" /\ DOMAIN Batch = {})) -> "skipped"
      [] OTHER -> "success"

(* Each artifact's rows replace those of its key.                          *)
Upserted(batch) == Over(batch, stored)

(* Work and audit row are one transaction; a skip or a failure is written  *)
(* in another, after the work's was rolled back.                           *)
Conclude ==
    /\ run.on /\ run.left = {}
    /\ LET row == [status |-> Final, rows |-> IF Final = "success" /\ DOMAIN Batch # {} THEN 1 ELSE 0]
       IN  audit' = IF Runs!Overwrites(audit, row) THEN row ELSE audit
    /\ stored' = IF Final = "success" THEN Upserted(Batch) ELSE stored
    /\ run' = [Idle EXCEPT !.verdict = Final, !.cause = IF InProgress THEN "part" ELSE run.cause]
    /\ UNCHANGED <<feed, day, lake, faults>>
    /\ content' \in CASE Final = "success" /\ feed = "ccil" -> Tapes
                     [] Final = "success" /\ feed = "rbi"  -> Releases
                     [] OTHER -> {NoContent}

(* What has landed stays; nothing is recorded of the run.                  *)
Crash ==
    /\ run.on /\ faults < MaxFaults
    /\ run' = Idle
    /\ faults' = faults + 1
    /\ UNCHANGED <<feed, day, lake, audit, stored, content>>

-----------------------------------------------------------------------------

(* BSE's lake may hold an empty day from before they were turned away.     *)
Init ==
    /\ feed \in Feeds
    /\ day = Stages[1]
    /\ lake \in {NoBody} \cup IF feed = "bse" THEN {"norows"} ELSE {}
    /\ run = Idle
    /\ audit = Runs!NoRow
    /\ stored = Got({}, NoBody)
    /\ content = NoContent
    /\ faults = 0

Attempt == \E answer \in Bodies \cup Statuses : Retry(answer) \/ Reprime(answer) \/ Take(answer)

Next == Publish \/ Night \/ Rerun \/ Attempt \/ Conclude \/ Crash

Spec == Init /\ [][Next]_vars

(* A night comes, an answer or a timeout comes, a run ends.                *)
Fairness == WF_vars(Night) /\ WF_vars(Attempt) /\ WF_vars(Conclude)
FairSpec == Spec /\ Fairness

-----------------------------------------------------------------------------

(* A day is never a success with nothing in the warehouse: no night would  *)
(* try it again.  NSE's report, FBIL's workbooks and NSE's live pages do   *)
(* let a well-formed body without rows pass (README, divergences).         *)
NoRowlessSuccess ==
    audit.status = "success" /\ feed \notin {"nse_cbr", "fbil", "nse"} => DOMAIN stored # {}

(* A source that is down is not a source without data: a run is a skip     *)
(* only on the answer that source gives for a day it has not published, or *)
(* on a body; never on a layout that changed, nor on CCIL's challenge page.*)
(* NSE's archive tells a foreign file by having no trade, and RBI's        *)
(* releases can all be out of reach.                                       *)
OutageNotHoliday ==
    run.verdict = "skipped" /\ ~run.on /\ feed # "rbi" =>
        /\ run.cause \in Statuses => run.cause = Unpublished
        /\ run.cause = "foreign" => feed = "nse_cbm"
        /\ feed = "ccil" => run.cause = "norows"

(* The lake holds a body that keeps the day from loading, and is believed. *)
Poisoned ==
    \/ feed = "bse" /\ lake \in {"part", "foreign", "html", "corrupt"}
    \/ feed = "nse_cbm" /\ lake \in {"norows", "foreign"}
    \/ feed = "nse_cbr" /\ lake \in {"norows", "foreign"}
    \/ feed = "fbil" /\ lake \in {"norows", "foreign", "corrupt"}

(* Whatever is refused, lost or garbled on the way, a day the source has   *)
(* settled ends up whole in the warehouse, unless a body that is believed  *)
(* landed first.                                                           *)
DataAsks == {Asks[i] : i \in DOMAIN Asks} \ {"page", "index"}
Whole == \A ask \in DataAsks : ask \in DOMAIN stored /\ stored[ask] = "all"
PublishedDayLoads == day = "settled" ~> Whole \/ Poisoned

(* What is kept of CCIL's tape is what the tape says: each trade in one    *)
(* summary, the last price that of the latest priced trade, and of cells   *)
(* that were garbled only what a sovereign can trade at.                   *)
TapeFigures == feed = "ccil" /\ content # NoContent => Summarise(AggregateTrades(content), content)

(* What is kept of an auction is what RBI published of it, security by     *)
(* security, whatever the layout and whichever cells are blank.            *)
FiguresAsPublished ==
    feed = "rbi" /\ content # NoContent => ParseAuctionResults(Page(content)) = AsPublished(content)

(* No part of a session is kept as its summary.                            *)
SessionSummaryWhole == feed = "nse" => \A ask \in DOMAIN stored : stored[ask] = "all"
=============================================================================
