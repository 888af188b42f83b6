-------------------------- MODULE SourceDayProofs --------------------------
(***************************************************************************)
(* Proofs about SourceDay: for every feed, any number of retries, crashes, *)
(* refused, lost and garbled answers, and whatever is published, a success *)
(* is backed by rows, an outage is not a holiday, and no part of a session *)
(* is kept as its summary; the figures kept of a tape are the tape's, and  *)
(* those of an auction what its release says.                              *)
(***************************************************************************)
EXTENDS SourceDay, IngestionRunsLemmas, FiniteSetTheorems

(***************************************************************************)
(* The invariant.                                                          *)
(***************************************************************************)
AskNames == {"day", "page", "index", "seg1", "seg2", "release1", "release2"}
Gots == UNION {[asks -> Bodies] : asks \in SUBSET AskNames}
Causes == {NoBody} \cup Bodies \cup Statuses

RunType ==
    [on : BOOLEAN, left : SUBSET (1..5), attempt : Nat, got : Gots, reprimed : BOOLEAN,
     advanced : BOOLEAN, verdict : {"none", "success", "skipped", "failed"}, cause : Causes]

TypeOK ==
    /\ feed \in Feeds
    /\ day \in {"unpublished", "session", "closed", "settled"}
    /\ lake \in {NoBody} \cup Bodies
    /\ run \in RunType
    /\ audit \in Runs!Row
    /\ stored \in Gots
    /\ content \in Tapes \cup Releases \cup {NoContent}
    /\ faults \in Nat

(* What is left is asked in order and only while nothing has gone wrong;   *)
(* between runs nothing is held.                                           *)
RunWellFormed ==
    /\ run.left \subseteq DOMAIN Asks
    /\ run.left # {} => run.on /\ run.verdict = "success"
    /\ run.on => run.verdict # "none"
    /\ ~run.on => run.got = Got({}, NoBody)

(* The feeds whose connectors let a body without rows pass.                *)
Lenient == {"nse_cbr", "fbil", "nse"}

(* While all is well, the day is still to be asked for, or was answered    *)
(* with rows.                                                              *)
Delivered ==
    run.on /\ run.verdict = "success" /\ feed \notin Lenient \cup {"rbi"} =>
        /\ "day" \in DOMAIN run.got => run.got["day"] \in {"part", "all"}
        /\ "day" \in DOMAIN run.got \/ \E i \in run.left : Asks[i] = "day"

(* A skip has the cause that a day not published has, while the run lasts  *)
(* and after.                                                              *)
SkipExplained ==
    run.verdict = "skipped" /\ feed # "rbi" =>
        /\ run.cause \in Statuses => run.cause = Unpublished
        /\ run.cause = "foreign" => feed = "nse_cbm"
        /\ feed = "ccil" => run.cause = "norows"

(* A part of NSE's session that a run holds was taken while it lasted, and *)
(* the run ends before the session is settled.                             *)
PartIsFresh ==
    feed = "nse" /\ (\E ask \in DOMAIN run.got : run.got[ask] = "part") =>
        day = "session" \/ (day = "closed" /\ run.advanced)

IInv ==
    /\ TypeOK
    /\ RunWellFormed
    /\ Delivered
    /\ SkipExplained
    /\ PartIsFresh
    /\ NoRowlessSuccess
    /\ SessionSummaryWhole

(***************************************************************************)
(* The operators.                                                          *)
(***************************************************************************)

(* What the connectors have in common, and what only some of them do.      *)
LEMMA ConnectorFacts ==
    ASSUME NEW f \in Feeds
    PROVE  /\ Connector(f).served \subseteq Bodies
           /\ Connector(f).empty \subseteq Bodies
           /\ Connector(f).unnoticed \subseteq Bodies
           /\ Connector(f).missing \subseteq Bodies \cup Statuses
           /\ Connector(f).served # {} => f \in {"bse", "nse_cbm", "nse_cbr", "fbil"}
           /\ Connector(f).unnoticed # {} => f \in {"nse_cbr", "fbil", "nse"}
           /\ "foreign" \in Connector(f).empty \cup Connector(f).missing => f = "nse_cbm"
           /\ f = "nse" => Connector(f).empty = {} /\ Connector(f).missing = {}
           /\ f = "ccil" => Connector(f).empty = {"norows"} /\ Connector(f).missing = {}
           /\ "403" \notin Connector(f).missing
           /\ "503" \notin Connector(f).missing
           /\ "reset" \notin Connector(f).missing
           /\ "404" \in Connector(f).missing => f \in {"nse_cbm", "nse_cbr"}
           /\ "500" \in Connector(f).missing => f = "fbil"
<1> USE DEF Connector, Opens, Bodies, Statuses
<1>1. CASE f = "bse"
  BY <1>1 DEF Bse
<1>2. CASE f = "nse_cbm"
  BY <1>2 DEF NseCbm
<1>3. CASE f = "nse_cbr"
  BY <1>3 DEF NseBondReport
<1>4. CASE f = "fbil"
  BY <1>4 DEF Fbil
<1>5. CASE f = "ccil"
  BY <1>5 DEF Ccil
<1>6. CASE f = "cdsl"
  BY <1>6 DEF Cdsl
<1>7. CASE f = "sebi"
  BY <1>7 DEF Sebi
<1>8. CASE f = "nse"
  BY <1>8 DEF Nse
<1>9. CASE f = "rbi"
  BY <1>9 DEF RbiIndex
<1> QED BY <1>1, <1>2, <1>3, <1>4, <1>5, <1>6, <1>7, <1>8, <1>9 DEF Feeds

(* Over keeps the first's, and the second's where the first has none.      *)
LEMMA OverFacts ==
    ASSUME NEW new \in Gots, NEW old \in Gots
    PROVE  /\ Over(new, old) \in Gots
           /\ DOMAIN Over(new, old) = DOMAIN new \cup DOMAIN old
           /\ \A ask \in DOMAIN new : Over(new, old)[ask] = new[ask]
           /\ \A ask \in DOMAIN old \ DOMAIN new : Over(new, old)[ask] = old[ask]
<1>1. PICK A \in SUBSET AskNames : new \in [A -> Bodies]
  BY DEF Gots
<1>2. PICK B \in SUBSET AskNames : old \in [B -> Bodies]
  BY DEF Gots
<1>3. Over(new, old) \in [A \cup B -> Bodies] /\ A \cup B \in SUBSET AskNames
  BY <1>1, <1>2 DEF Over
<1>4. Over(new, old) \in Gots
  BY <1>3 DEF Gots
<1>5. QED
  BY <1>1, <1>2, <1>4 DEF Over

(* A set of numbers has its least among its members.                       *)
LEMMA MinIsMember ==
    ASSUME NEW S, S \subseteq Nat, S # {}
    PROVE  Min(S) \in S
<1>1. \E d \in S : \A e \in S : d <= e
  BY LeastNatural
<1>2. QED
  BY <1>1 DEF Min

(* The requests of a run, by feed.                                         *)
LEMMA AsksFacts ==
    ASSUME feed \in Feeds
    PROVE  /\ DOMAIN Asks \in SUBSET (1..5)
           /\ \A i \in DOMAIN Asks : Asks[i] \in AskNames
           /\ feed \notin Lenient \cup {"rbi"} => \E i \in DOMAIN Asks : Asks[i] = "day"
           /\ feed \notin Lenient \cup {"rbi"} => \A i \in DOMAIN Asks : Asks[i] \in {"day", "page"}
           /\ feed = "nse" => \A i \in DOMAIN Asks : Asks[i] \in {"page", "seg1", "seg2"}
           /\ feed # "rbi" => \A i \in DOMAIN Asks : Asks[i] \notin Details
<1>1. CASE feed = "ccil"
  <2>1. Asks = <<"page", "day">>
    BY <1>1 DEF Asks
  <2>2. QED
    BY <1>1, <2>1 DEF AskNames, Lenient, Details
<1>2. CASE feed = "nse"
  <2>1. Asks = <<"page", "seg1", "seg2">>
    BY <1>2 DEF Asks
  <2>2. QED
    BY <1>2, <2>1 DEF AskNames, Lenient, Details
<1>3. CASE feed = "rbi"
  <2>1. Asks = <<"index", "release1", "release2", "release1", "release2">>
    BY <1>3 DEF Asks
  <2>2. QED
    BY <1>3, <2>1 DEF AskNames, Lenient, Details
<1>4. CASE feed \notin {"ccil", "nse", "rbi"}
  <2>1. Asks = <<"day">>
    BY <1>4 DEF Asks
  <2>2. QED
    BY <1>4, <2>1 DEF AskNames, Lenient, Details
<1>5. QED
  BY <1>1, <1>2, <1>3, <1>4

(* The next request is one of those left.                                  *)
LEMMA NextAskFacts ==
    ASSUME TypeOK, RunWellFormed, run.left # {}
    PROVE  /\ Min(run.left) \in run.left
           /\ Min(run.left) \in DOMAIN Asks
           /\ NextAsk = Asks[Min(run.left)]
           /\ NextAsk \in AskNames
<1>1. run.left \subseteq Nat
  BY DEF TypeOK, RunType
<1>2. Min(run.left) \in run.left
  BY <1>1, MinIsMember
<1>3. QED
  BY <1>2, AsksFacts DEF TypeOK, RunWellFormed, NextAsk

(* A source answers a request with a part only while the session lasts,    *)
(* and no fault looks like one.                                            *)
LEMMA AnsweredFacts ==
    ASSUME NEW answer, Answered(answer)
    PROVE  /\ answer = "part" => NextAsk # "page" /\ day = "session"
           /\ answer \in Bodies \cup Statuses
           /\ faults \in Nat => faults' \in Nat
<1>1. answer = Answer(NextAsk) \/ answer \in FaultAnswers
  BY DEF Answered
<1>2. /\ Answer(NextAsk) \in {"404", "500", "norows", "part", "all"}
      /\ Answer(NextAsk) = "part" => NextAsk # "page" /\ day = "session"
  BY DEF Answer, Unpublished
<1>3. FaultAnswers \subseteq (Bodies \cup Statuses) \ {"part"}
  BY DEF FaultAnswers, Bodies, Statuses
<1>4. {"404", "500", "norows", "part", "all"} \subseteq Bodies \cup Statuses
  BY DEF Bodies, Statuses
<1>5. faults \in Nat => faults' \in Nat
  BY DEF Answered
<1>6. QED
  BY <1>1, <1>2, <1>3, <1>4, <1>5

(* What a verdict says of the answer it was made on.                       *)
LEMMA VerdictFacts ==
    ASSUME feed \in Feeds, NEW answer \in Bodies \cup Statuses
    PROVE  /\ Verdict(feed, answer) \in {"success", "skipped", "failed"}
           /\ Verdict(feed, answer) = "success" /\ feed \notin Lenient => answer \in {"part", "all"}
           /\ Verdict(feed, answer) = "skipped" =>
                /\ answer \in Statuses => answer = Unpublished
                /\ answer = "foreign" => feed = "nse_cbm"
                /\ feed = "ccil" => answer = "norows"
<1> DEFINE c == Connector(feed)
<1>1. /\ c.unnoticed # {} => feed \in Lenient
      /\ c.empty \subseteq Bodies
      /\ "foreign" \in c.empty \cup c.missing => feed = "nse_cbm"
      /\ feed = "ccil" => c.empty = {"norows"} /\ c.missing = {}
      /\ "403" \notin c.missing /\ "503" \notin c.missing /\ "reset" \notin c.missing
      /\ "404" \in c.missing => feed \in {"nse_cbm", "nse_cbr"}
      /\ "500" \in c.missing => feed = "fbil"
  BY ConnectorFacts DEF Lenient
<1>2. /\ feed \in {"nse_cbm", "nse_cbr"} => Unpublished = "404"
      /\ feed = "fbil" => Unpublished = "500"
  BY DEF Unpublished
<1>3. Verdict(feed, answer) =
        IF answer \in c.missing THEN "skipped"
        ELSE IF answer \in Statuses THEN "failed"
        ELSE IF answer \in {"all", "part"} \cup c.unnoticed THEN "success"
        ELSE IF answer \in c.empty THEN "skipped" ELSE "failed"
  BY DEF Verdict, Outcome
<1> HIDE DEF c
<1>4. answer \in Statuses => answer \in {"403", "404", "500", "503", "reset"} /\ answer \notin Bodies
  BY DEF Statuses, Bodies
<1>5. QED
  BY <1>1, <1>2, <1>3, <1>4

(* The same of a body read back from the lake.                             *)
LEMMA OutcomeFacts ==
    ASSUME feed \in Feeds, NEW body \in Connector(feed).served
    PROVE  /\ body \in Bodies
           /\ feed \notin {"ccil", "nse", "rbi"}
           /\ Outcome(feed, body) \in {"success", "skipped", "failed"}
           /\ Outcome(feed, body) = "success" /\ feed \notin Lenient => body \in {"part", "all"}
           /\ Outcome(feed, body) = "skipped" =>
                body \notin Statuses /\ (body = "foreign" => feed = "nse_cbm")
<1>1. body \in Bodies /\ body \notin Statuses
  BY ConnectorFacts DEF Bodies, Statuses
<1>2. feed \notin {"ccil", "nse", "rbi"}
  BY ConnectorFacts
<1>3. /\ Connector(feed).unnoticed # {} => feed \in Lenient
      /\ "foreign" \in Connector(feed).empty => feed = "nse_cbm"
  BY ConnectorFacts DEF Lenient
<1>4. QED
  BY <1>1, <1>2, <1>3 DEF Outcome

(* Bodies by request, as a run holds them.                                 *)
LEMMA GotFacts ==
    /\ Got({}, NoBody) \in Gots /\ DOMAIN Got({}, NoBody) = {}
    /\ \A ask \in AskNames, body \in Bodies :
        /\ Got({ask}, body) \in Gots /\ DOMAIN Got({ask}, body) = {ask}
        /\ Got({ask}, body)[ask] = body
<1>1. Got({}, NoBody) \in [{} -> Bodies]
  BY DEF Got
<1>2. ASSUME NEW ask \in AskNames, NEW body \in Bodies
      PROVE  Got({ask}, body) \in [{ask} -> Bodies] /\ Got({ask}, body)[ask] = body
  BY DEF Got
<1>3. {} \in SUBSET AskNames /\ \A ask \in AskNames : {ask} \in SUBSET AskNames
  OBVIOUS
<1>4. QED
  BY <1>1, <1>2, <1>3 DEF Gots

(* Between runs nothing is left to ask, and nothing is held.               *)
LEMMA IdleFacts ==
    /\ Idle \in RunType
    /\ ~Idle.on /\ Idle.left = {} /\ Idle.verdict = "none"
    /\ Idle.got = Got({}, NoBody) /\ DOMAIN Idle.got = {}
  BY GotFacts DEF Idle, RunType, Causes

(* What follows from the feed does not change.                             *)
LEMMA SameFeed ==
    ASSUME feed' = feed
    PROVE  Asks' = Asks /\ Unpublished' = Unpublished
  BY DEF Asks, Unpublished

(***************************************************************************)
(* The steps.                                                              *)
(***************************************************************************)

(* Before the first run the invariant holds.                               *)
LEMMA Initially == Init => IInv
<1> SUFFICES ASSUME Init PROVE IInv
  OBVIOUS
<1>1. stored = Got({}, NoBody) /\ run = Idle /\ audit = Runs!NoRow /\ feed \in Feeds
  BY DEF Init
<1>2. day \in {"unpublished", "session", "settled"}
  BY DEF Init, Stages
<1>3. lake \in {NoBody} \cup Bodies
  BY DEF Init, Bodies
<1>4. TypeOK
  BY <1>1, <1>2, <1>3, IdleFacts, GotFacts DEF Init, TypeOK, Runs!Row
<1>5. RunWellFormed /\ Delivered /\ SkipExplained /\ PartIsFresh
  BY <1>1, IdleFacts DEF RunWellFormed, Delivered, SkipExplained, PartIsFresh
<1>6. NoRowlessSuccess /\ SessionSummaryWhole
  BY <1>1, GotFacts DEF NoRowlessSuccess, SessionSummaryWhole, Runs!NoRow
<1>7. QED
  BY <1>4, <1>5, <1>6 DEF IInv

(* The source moves on: a part taken before stays one.                     *)
LEMMA PublishStep == IInv /\ Publish => IInv'
<1> SUFFICES ASSUME IInv, Publish PROVE IInv'
  OBVIOUS
<1>1. /\ ~run.advanced
      /\ run' = [run EXCEPT !.advanced = run.on]
      /\ UNCHANGED <<feed, lake, audit, stored, content, faults>>
  BY DEF Publish
<1>2. run \in RunType
  BY DEF IInv, TypeOK
<1>3. /\ run' \in RunType
      /\ run'.on = run.on /\ run'.left = run.left /\ run'.got = run.got
      /\ run'.verdict = run.verdict /\ run'.cause = run.cause /\ run'.advanced = run.on
  BY <1>1, <1>2 DEF RunType
<1>4. /\ day' \in {"unpublished", "session", "closed", "settled"}
      /\ feed = "nse" => (day = "session" /\ day' = "closed") \/ (day = "closed" /\ day' = "settled")
  BY DEF Publish, Stages
<1>5. Asks' = Asks /\ Unpublished' = Unpublished
  BY <1>1, SameFeed
<1>6. TypeOK'
  BY <1>1, <1>3, <1>4 DEF IInv, TypeOK
<1>7. RunWellFormed' /\ Delivered' /\ SkipExplained'
  BY <1>1, <1>3, <1>5 DEF IInv, RunWellFormed, Delivered, SkipExplained
<1>8. PartIsFresh'
  <2> SUFFICES ASSUME feed = "nse", NEW ask \in DOMAIN run.got, run.got[ask] = "part"
               PROVE  day' = "session" \/ (day' = "closed" /\ run'.advanced)
    BY <1>1, <1>3 DEF PartIsFresh
  <2>1. run.on
    BY IdleFacts DEF IInv, RunWellFormed, TypeOK, RunType
  <2>2. QED
    BY <1>1, <1>3, <1>4, <2>1 DEF IInv, PartIsFresh
<1>9. NoRowlessSuccess' /\ SessionSummaryWhole'
  BY <1>1 DEF IInv, NoRowlessSuccess, SessionSummaryWhole
<1>10. QED
  BY <1>6, <1>7, <1>8, <1>9 DEF IInv

(* A run begins, from the lake or with its requests to make.               *)
LEMMA BeginStep == IInv /\ Begin => IInv'
<1> SUFFICES ASSUME IInv, Begin PROVE IInv'
  OBVIOUS
<1>1. content' = NoContent /\ UNCHANGED <<feed, day, lake, audit, stored, faults>>
  BY DEF Begin
<1>2. Asks' = Asks /\ Unpublished' = Unpublished
  BY <1>1, SameFeed
<1>3. feed \in Feeds
  BY DEF IInv, TypeOK
<1>4. NoRowlessSuccess' /\ SessionSummaryWhole'
  BY <1>1 DEF IInv, NoRowlessSuccess, SessionSummaryWhole
<1>5. run' \in RunType => TypeOK'
  BY <1>1 DEF IInv, TypeOK
<1>6. CASE lake \in Connector(feed).served
  <2>1. run' = [Idle EXCEPT !.on = TRUE, !.got = Got({"day"}, lake),
                            !.verdict = Outcome(feed, lake), !.cause = lake]
    BY <1>6 DEF Begin
  <2>2. /\ lake \in Bodies /\ feed \notin {"ccil", "nse", "rbi"}
        /\ Outcome(feed, lake) \in {"success", "skipped", "failed"}
        /\ Outcome(feed, lake) = "success" /\ feed \notin Lenient => lake \in {"part", "all"}
        /\ Outcome(feed, lake) = "skipped" => lake \notin Statuses /\ (lake = "foreign" => feed = "nse_cbm")
    BY <1>3, <1>6, OutcomeFacts
  <2>3. /\ run'.on /\ run'.left = {} /\ run'.got = Got({"day"}, lake)
        /\ run'.verdict = Outcome(feed, lake) /\ run'.cause = lake
    BY <2>1 DEF Idle
  <2>4. Got({"day"}, lake) \in Gots /\ DOMAIN Got({"day"}, lake) = {"day"} /\ Got({"day"}, lake)["day"] = lake
    BY <2>2, GotFacts DEF AskNames
  <2>5. run' \in RunType
    BY <2>1, <2>2, <2>4, IdleFacts DEF RunType, Causes
  <2>6. RunWellFormed' /\ Delivered'
    BY <1>1, <2>2, <2>3, <2>4 DEF RunWellFormed, Delivered
  <2>7. SkipExplained' /\ PartIsFresh'
    BY <1>1, <2>2, <2>3 DEF SkipExplained, PartIsFresh
  <2>8. QED
    BY <1>4, <1>5, <2>5, <2>6, <2>7 DEF IInv
<1>7. CASE lake \notin Connector(feed).served
  <2>1. run' = [Idle EXCEPT !.on = TRUE, !.left = DOMAIN Asks, !.verdict = "success"]
    BY <1>7 DEF Begin
  <2>2. /\ run'.on /\ run'.left = DOMAIN Asks /\ run'.got = Got({}, NoBody) /\ run'.verdict = "success"
    BY <2>1 DEF Idle
  <2>3. DOMAIN Asks \in SUBSET (1..5)
    BY <1>3, AsksFacts
  <2>4. run' \in RunType
    BY <2>1, <2>3, IdleFacts DEF RunType
  <2>5. RunWellFormed' /\ SkipExplained' /\ PartIsFresh'
    BY <1>1, <1>2, <2>2, GotFacts DEF RunWellFormed, SkipExplained, PartIsFresh
  <2>6. Delivered'
    BY <1>1, <1>2, <1>3, <2>2, GotFacts, AsksFacts DEF Delivered
  <2>7. QED
    BY <1>4, <1>5, <2>4, <2>5, <2>6 DEF IInv
<1>8. QED
  BY <1>6, <1>7

(* A retry changes the attempt only.                                       *)
LEMMA RetryStep == ASSUME IInv, NEW answer, Retry(answer) PROVE IInv'
<1>1. /\ Answered(answer) /\ run' = [run EXCEPT !.attempt = @ + 1]
      /\ UNCHANGED <<feed, day, lake, audit, stored, content>>
  BY DEF Retry
<1>2. run \in RunType /\ faults' \in Nat
  BY <1>1, AnsweredFacts DEF IInv, TypeOK
<1>3. /\ run' \in RunType
      /\ run'.on = run.on /\ run'.left = run.left /\ run'.got = run.got
      /\ run'.verdict = run.verdict /\ run'.cause = run.cause /\ run'.advanced = run.advanced
  BY <1>1, <1>2 DEF RunType
<1>4. Asks' = Asks /\ Unpublished' = Unpublished
  BY <1>1, SameFeed
<1>5. TypeOK'
  BY <1>1, <1>2, <1>3 DEF IInv, TypeOK
<1>6. RunWellFormed' /\ Delivered' /\ SkipExplained' /\ PartIsFresh'
  BY <1>1, <1>3, <1>4 DEF IInv, RunWellFormed, Delivered, SkipExplained, PartIsFresh
<1>7. NoRowlessSuccess' /\ SessionSummaryWhole'
  BY <1>1 DEF IInv, NoRowlessSuccess, SessionSummaryWhole
<1>8. QED
  BY <1>5, <1>6, <1>7 DEF IInv

(* After a challenge everything is asked for again.                        *)
LEMMA ReprimeStep == ASSUME IInv, NEW answer, Reprime(answer) PROVE IInv'
<1>1. /\ Answered(answer)
      /\ run' = [run EXCEPT !.left = DOMAIN Asks, !.attempt = 0, !.reprimed = TRUE]
      /\ UNCHANGED <<feed, day, lake, audit, stored, content>>
  BY DEF Reprime
<1>2. run \in RunType /\ faults' \in Nat /\ feed \in Feeds
  BY <1>1, AnsweredFacts DEF IInv, TypeOK
<1>3. DOMAIN Asks \in SUBSET (1..5)
  BY <1>2, AsksFacts
<1>4. /\ run' \in RunType
      /\ run'.on = run.on /\ run'.left = DOMAIN Asks /\ run'.got = run.got
      /\ run'.verdict = run.verdict /\ run'.cause = run.cause /\ run'.advanced = run.advanced
  BY <1>1, <1>2, <1>3 DEF RunType
<1>5. Asks' = Asks /\ Unpublished' = Unpublished
  BY <1>1, SameFeed
<1>6. TypeOK'
  BY <1>1, <1>2, <1>4 DEF IInv, TypeOK
<1>7. RunWellFormed' /\ SkipExplained' /\ PartIsFresh'
  <2>1. run.on /\ run.left # {}
    BY <1>1 DEF Answered
  <2>2. run.verdict = "success"
    BY <2>1 DEF IInv, RunWellFormed
  <2>3. QED
    BY <1>1, <1>4, <1>5, <2>1, <2>2 DEF IInv, RunWellFormed, SkipExplained, PartIsFresh
<1>8. Delivered'
  BY <1>1, <1>2, <1>4, <1>5, AsksFacts DEF IInv, Delivered
<1>9. NoRowlessSuccess' /\ SessionSummaryWhole'
  BY <1>1 DEF IInv, NoRowlessSuccess, SessionSummaryWhole
<1>10. QED
  BY <1>6, <1>7, <1>8, <1>9 DEF IInv

(* An answer that ends a request.                                          *)
LEMMA TakeStep == ASSUME IInv, NEW answer, Take(answer) PROVE IInv'
<1> DEFINE got == IF answer \in Bodies THEN Over(Got({NextAsk}, answer), run.got) ELSE run.got
           verdict == VerdictOn(NextAsk, answer)
           left == {i \in run.left \ {Min(run.left)} : Asks[i] \notin DOMAIN got}
<1>1. /\ Answered(answer)
      /\ run' = [run EXCEPT !.got = got, !.verdict = verdict, !.cause = answer, !.attempt = 0,
                            !.left = IF verdict = "success" THEN left ELSE {}]
      /\ lake' = IF answer \in Connector(feed).served \ Connector(feed).missing THEN answer ELSE lake
      /\ UNCHANGED <<feed, day, audit, stored, content>>
  BY DEF Take
<1>2. run \in RunType /\ feed \in Feeds /\ TypeOK /\ RunWellFormed
  BY DEF IInv, TypeOK
<1>3. /\ run.on /\ run.left # {} /\ run.verdict = "success"
      /\ answer \in Bodies \cup Statuses /\ faults' \in Nat
      /\ answer = "part" => NextAsk # "page" /\ day = "session"
  BY <1>1, <1>2, AnsweredFacts DEF Answered, RunWellFormed, TypeOK
<1>4. /\ Min(run.left) \in run.left /\ Min(run.left) \in DOMAIN Asks
      /\ NextAsk = Asks[Min(run.left)] /\ NextAsk \in AskNames
  BY <1>2, <1>3, NextAskFacts
<1>5. /\ got \in Gots
      /\ answer \in Bodies => DOMAIN got = {NextAsk} \cup DOMAIN run.got /\ got[NextAsk] = answer
      /\ answer \notin Bodies => got = run.got
      /\ \A ask \in DOMAIN got : ask \in DOMAIN run.got /\ ask # NextAsk => got[ask] = run.got[ask]
      /\ \A ask \in DOMAIN got : ask \in DOMAIN run.got \/ ask = NextAsk
  <2>1. run.got \in Gots
    BY <1>2 DEF RunType
  <2>2. CASE answer \in Bodies
    <3> DEFINE one == Got({NextAsk}, answer)
    <3>1. one \in Gots /\ DOMAIN one = {NextAsk} /\ one[NextAsk] = answer
      BY <1>4, <2>2, GotFacts
    <3>2. got = Over(one, run.got)
      BY <2>2
    <3> HIDE DEF one, got
    <3>3. /\ Over(one, run.got) \in Gots
          /\ DOMAIN Over(one, run.got) = DOMAIN one \cup DOMAIN run.got
          /\ \A ask \in DOMAIN one : Over(one, run.got)[ask] = one[ask]
          /\ \A ask \in DOMAIN run.got \ DOMAIN one : Over(one, run.got)[ask] = run.got[ask]
      BY <2>1, <3>1, OverFacts
    <3>4. QED
      BY <2>2, <3>1, <3>2, <3>3
  <2>3. CASE answer \notin Bodies
    BY <2>1, <2>3
  <2>4. QED
    BY <2>2, <2>3
<1>6. /\ verdict \in {"success", "skipped", "failed"}
      /\ verdict = "success" /\ feed \notin Lenient \cup {"rbi"} /\ NextAsk # "page" => answer \in {"part", "all"}
      /\ verdict = "skipped" =>
            /\ answer \in Statuses => answer = Unpublished
            /\ answer = "foreign" => feed = "nse_cbm"
            /\ feed = "ccil" => answer = "norows"
  <2>1. CASE NextAsk \in Details
    <3>1. feed = "rbi"
      BY <1>2, <1>4, <2>1, AsksFacts
    <3>2. QED
      BY <2>1, <3>1 DEF VerdictOn
  <2>2. CASE NextAsk = "page"
    BY <2>2 DEF VerdictOn, Details
  <2>3. CASE NextAsk \notin Details /\ NextAsk # "page"
    <3>1. verdict = Verdict(feed, answer)
      BY <2>3 DEF VerdictOn
    <3>2. QED
      BY <1>2, <1>3, <3>1, VerdictFacts
  <2>4. QED
    BY <2>1, <2>2, <2>3
<1>7. left \subseteq run.left /\ run.left \subseteq 1..5 /\ run.left \subseteq DOMAIN Asks
  BY <1>2 DEF RunWellFormed, RunType
<1>8. /\ \A i \in run.left : i # Min(run.left) /\ Asks[i] \notin DOMAIN got => i \in left
  OBVIOUS
<1> HIDE DEF got, verdict, left
<1>9. /\ run' \in RunType
      /\ run'.on = run.on /\ run'.got = got /\ run'.verdict = verdict /\ run'.cause = answer
      /\ run'.left = (IF verdict = "success" THEN left ELSE {}) /\ run'.advanced = run.advanced
  BY <1>1, <1>2, <1>3, <1>5, <1>6, <1>7 DEF RunType, Causes
<1>10. Asks' = Asks /\ Unpublished' = Unpublished
  BY <1>1, SameFeed
<1>11. TypeOK'
  <2>1. lake' \in {NoBody} \cup Bodies
    BY <1>1, <1>2, ConnectorFacts DEF TypeOK
  <2>2. QED
    BY <1>1, <1>2, <1>3, <1>9, <2>1 DEF TypeOK
<1>12. RunWellFormed'
  BY <1>3, <1>6, <1>7, <1>9, <1>10 DEF RunWellFormed
<1>13. Delivered'
  <2> SUFFICES ASSUME verdict = "success", feed \notin Lenient \cup {"rbi"}
               PROVE  /\ "day" \in DOMAIN got => got["day"] \in {"part", "all"}
                      /\ "day" \in DOMAIN got \/ \E i \in left : Asks[i] = "day"
    BY <1>1, <1>9, <1>10 DEF Delivered
  <2>1. /\ "day" \in DOMAIN run.got => run.got["day"] \in {"part", "all"}
        /\ "day" \in DOMAIN run.got \/ \E i \in run.left : Asks[i] = "day"
    BY <1>3 DEF IInv, Delivered
  <2>2. NextAsk \in {"day", "page"}
    BY <1>2, <1>4, AsksFacts
  <2>3. CASE NextAsk = "day"
    BY <1>5, <1>6, <2>3 DEF Bodies
  <2>4. CASE NextAsk = "page"
    <3>1. "day" \in DOMAIN got => "day" \in DOMAIN run.got /\ got["day"] = run.got["day"]
      BY <1>5, <2>4
    <3>2. ASSUME NEW i \in run.left, Asks[i] = "day", "day" \notin DOMAIN got
          PROVE  i \in left
      BY <1>4, <1>8, <2>4, <3>2
    <3>3. DOMAIN run.got \subseteq DOMAIN got
      BY <1>5
    <3>4. QED
      BY <2>1, <3>1, <3>2, <3>3
  <2>5. QED
    BY <2>2, <2>3, <2>4
<1>14. SkipExplained'
  BY <1>1, <1>6, <1>9, <1>10 DEF SkipExplained
<1>15. PartIsFresh'
  <2> SUFFICES ASSUME feed = "nse", NEW ask \in DOMAIN got, got[ask] = "part"
               PROVE  day = "session" \/ (day = "closed" /\ run.advanced)
    BY <1>1, <1>9 DEF PartIsFresh
  <2>1. CASE answer \in Bodies /\ ask = NextAsk
    BY <1>3, <1>5, <2>1
  <2>2. CASE ~(answer \in Bodies /\ ask = NextAsk)
    <3>1. ask \in DOMAIN run.got /\ got[ask] = run.got[ask]
      BY <1>5, <2>2
    <3>2. QED
      BY <3>1 DEF IInv, PartIsFresh
  <2>3. QED
    BY <2>1, <2>2
<1>16. NoRowlessSuccess' /\ SessionSummaryWhole'
  BY <1>1 DEF IInv, NoRowlessSuccess, SessionSummaryWhole
<1>17. QED
  BY <1>11, <1>12, <1>13, <1>14, <1>15, <1>16 DEF IInv

(* A crash drops what the run held.                                        *)
LEMMA CrashStep == IInv /\ Crash => IInv'
<1> SUFFICES ASSUME IInv, Crash PROVE IInv'
  OBVIOUS
<1>1. run' = Idle /\ faults' = faults + 1 /\ UNCHANGED <<feed, day, lake, audit, stored, content>>
  BY DEF Crash
<1>2. TypeOK'
  BY <1>1, IdleFacts DEF IInv, TypeOK
<1>3. RunWellFormed' /\ Delivered' /\ SkipExplained' /\ PartIsFresh'
  BY <1>1, IdleFacts DEF RunWellFormed, Delivered, SkipExplained, PartIsFresh
<1>4. NoRowlessSuccess' /\ SessionSummaryWhole'
  BY <1>1 DEF IInv, NoRowlessSuccess, SessionSummaryWhole
<1>5. QED
  BY <1>2, <1>3, <1>4 DEF IInv

(* What a run hands over is what it holds with rows.                       *)
LEMMA BatchFacts ==
    ASSUME TypeOK
    PROVE  /\ Batch \in Gots
           /\ DOMAIN Batch \subseteq DOMAIN run.got
           /\ \A ask \in DOMAIN Batch : Batch[ask] = run.got[ask] /\ Batch[ask] \in {"part", "all"}
           /\ \A ask \in DOMAIN run.got \ {"page", "index"} :
                run.got[ask] \in {"part", "all"} => ask \in DOMAIN Batch
<1>1. PICK A \in SUBSET AskNames : run.got \in [A -> Bodies]
  BY DEF TypeOK, RunType, Gots
<1> DEFINE B == {a \in DOMAIN run.got \ {"page", "index"} : run.got[a] \in {"part", "all"}}
<1>2. Batch = [ask \in B |-> run.got[ask]]
  BY DEF Batch
<1>3. B \subseteq A /\ B \in SUBSET AskNames
  BY <1>1
<1>4. Batch \in [B -> Bodies]
  BY <1>1, <1>2, <1>3
<1>5. Batch \in Gots
  BY <1>3, <1>4 DEF Gots
<1>6. QED
  BY <1>2, <1>5

(* The verdict becomes an audit row, and the batch rows.                   *)
LEMMA ConcludeStep == IInv /\ Conclude => IInv'
<1> SUFFICES ASSUME IInv, Conclude PROVE IInv'
  OBVIOUS
<1> DEFINE row == [status |-> Final, rows |-> IF Final = "success" /\ DOMAIN Batch # {} THEN 1 ELSE 0]
           cause == IF InProgress THEN "part" ELSE run.cause
<1>1. /\ run.on /\ run.left = {}
      /\ audit' = IF Runs!Overwrites(audit, row) THEN row ELSE audit
      /\ stored' = IF Final = "success" THEN Over(Batch, stored) ELSE stored
      /\ run' = [Idle EXCEPT !.verdict = Final, !.cause = cause]
      /\ UNCHANGED <<feed, day, lake, faults>>
      /\ content' \in Tapes \cup Releases \cup {NoContent}
  BY DEF Conclude, Upserted
<1>2. TypeOK /\ feed \in Feeds /\ run \in RunType /\ stored \in Gots /\ audit \in Runs!Row
  BY DEF IInv, TypeOK
<1>3. run.verdict \in {"success", "skipped", "failed"}
  BY <1>1, <1>2 DEF IInv, RunWellFormed, RunType
<1>4. /\ Final \in {"success", "skipped", "failed"}
      /\ Final = "success" => run.verdict = "success" /\ ~InProgress /\ (feed = "rbi" => DOMAIN Batch # {})
      /\ Final = "skipped" /\ feed # "rbi" => run.verdict = "skipped" \/ InProgress
  BY <1>3 DEF Final
<1>5. row \in Runs!Row /\ row.status = Final
  BY <1>4 DEF Runs!Row, Runs!Status
<1>6. cause \in Causes
  BY <1>2 DEF RunType, Causes, Bodies
<1>7. /\ Batch \in Gots
      /\ DOMAIN Batch \subseteq DOMAIN run.got
      /\ \A ask \in DOMAIN Batch : Batch[ask] = run.got[ask] /\ Batch[ask] \in {"part", "all"}
      /\ \A ask \in DOMAIN run.got \ {"page", "index"} :
            run.got[ask] \in {"part", "all"} => ask \in DOMAIN Batch
  BY <1>2, BatchFacts
<1>8. /\ Over(Batch, stored) \in Gots
      /\ DOMAIN Over(Batch, stored) = DOMAIN Batch \cup DOMAIN stored
      /\ \A ask \in DOMAIN Batch : Over(Batch, stored)[ask] = Batch[ask]
      /\ \A ask \in DOMAIN stored \ DOMAIN Batch : Over(Batch, stored)[ask] = stored[ask]
  BY <1>2, <1>7, OverFacts
<1>9. Runs!Overwrites(audit, row) \/ audit' = audit
  BY <1>1
<1>10. Final = "success" => audit' = row
  BY <1>1, <1>5 DEF Runs!Overwrites
<1> HIDE DEF row, cause
<1>11. /\ run' \in RunType /\ ~run'.on /\ run'.left = {} /\ run'.got = Got({}, NoBody)
       /\ run'.verdict = Final /\ run'.cause = cause
  BY <1>1, <1>4, <1>6, IdleFacts DEF RunType
<1>12. Asks' = Asks /\ Unpublished' = Unpublished
  BY <1>1, SameFeed
<1>13. TypeOK'
  BY <1>1, <1>2, <1>5, <1>8, <1>11 DEF TypeOK
<1>14. RunWellFormed' /\ Delivered' /\ PartIsFresh'
  BY <1>1, <1>11, GotFacts DEF RunWellFormed, Delivered, PartIsFresh
<1>15. SkipExplained'
  <2> SUFFICES ASSUME Final = "skipped", feed # "rbi"
               PROVE  /\ cause \in Statuses => cause = Unpublished
                      /\ cause = "foreign" => feed = "nse_cbm"
                      /\ feed = "ccil" => cause = "norows"
    BY <1>1, <1>11, <1>12 DEF SkipExplained
  <2>1. CASE InProgress
    BY <2>1 DEF InProgress, cause, Statuses
  <2>2. CASE ~InProgress
    BY <1>4, <2>2 DEF IInv, SkipExplained, cause
  <2>3. QED
    BY <2>1, <2>2
<1>16. NoRowlessSuccess'
  <2> SUFFICES ASSUME audit'.status = "success", feed \notin Lenient
               PROVE  DOMAIN stored' # {}
    BY <1>1 DEF NoRowlessSuccess, Lenient
  <2>1. CASE Final = "success"
    <3>1. DOMAIN Batch # {}
      <4>1. CASE feed = "rbi"
        BY <1>4, <2>1, <4>1
      <4>2. CASE feed # "rbi"
        <5>1. "day" \in DOMAIN run.got /\ run.got["day"] \in {"part", "all"}
          BY <1>1, <1>4, <2>1, <4>2 DEF IInv, Delivered
        <5>2. QED
          BY <1>7, <5>1
      <4>3. QED
        BY <4>1, <4>2
    <3>2. QED
      BY <1>1, <1>8, <2>1, <3>1
  <2>2. CASE Final # "success"
    <3>1. audit.status = "success"
      BY <1>1, <1>5, <2>2
    <3>2. QED
      BY <1>1, <2>2, <3>1 DEF IInv, NoRowlessSuccess, Lenient
  <2>3. QED
    BY <2>1, <2>2
<1>17. SessionSummaryWhole'
  <2> SUFFICES ASSUME feed = "nse", NEW ask \in DOMAIN stored'
               PROVE  stored'[ask] = "all"
    BY <1>1 DEF SessionSummaryWhole
  <2>1. CASE Final = "success" /\ ask \in DOMAIN Batch
    <3>1. day = "settled"
      BY <1>4, <2>1 DEF InProgress
    <3>2. run.got[ask] # "part"
      BY <1>7, <2>1, <3>1 DEF IInv, PartIsFresh
    <3>3. QED
      BY <1>1, <1>7, <1>8, <2>1, <3>2
  <2>2. CASE ~(Final = "success" /\ ask \in DOMAIN Batch)
    BY <1>1, <1>8, <2>2 DEF IInv, SessionSummaryWhole
  <2>3. QED
    BY <2>1, <2>2
<1>18. QED
  BY <1>13, <1>14, <1>15, <1>16, <1>17 DEF IInv

(***************************************************************************)
(* The theorems.                                                           *)
(***************************************************************************)

(* Each step keeps the invariant.                                          *)
LEMMA NextStep == IInv /\ [Next]_vars => IInv'
<1> SUFFICES ASSUME IInv, [Next]_vars PROVE IInv'
  OBVIOUS
<1>1. CASE Publish
  BY <1>1, PublishStep
<1>2. CASE Night \/ Rerun
  BY <1>2, BeginStep DEF Night, Rerun
<1>3. CASE Attempt
  BY <1>3, RetryStep, ReprimeStep, TakeStep DEF Attempt
<1>4. CASE Conclude
  BY <1>4, ConcludeStep
<1>5. CASE Crash
  BY <1>5, CrashStep
<1>6. CASE UNCHANGED vars
  <2>1. Asks' = Asks /\ Unpublished' = Unpublished
    BY <1>6, SameFeed DEF vars
  <2>2. TypeOK' /\ RunWellFormed' /\ Delivered' /\ SkipExplained' /\ PartIsFresh'
    BY <1>6, <2>1 DEF vars, IInv, TypeOK, RunWellFormed, Delivered, SkipExplained, PartIsFresh
  <2>3. NoRowlessSuccess' /\ SessionSummaryWhole'
    BY <1>6 DEF vars, IInv, NoRowlessSuccess, SessionSummaryWhole
  <2>4. QED
    BY <2>2, <2>3 DEF IInv
<1>7. QED
  BY <1>1, <1>2, <1>3, <1>4, <1>5, <1>6 DEF Next

(* The invariant of a day's runs holds in every reachable state.           *)
THEOREM DayInductive == Spec => []IInv
<1>1. QED
  BY Initially, NextStep, PTL DEF Spec

(* Every variable keeps its type, whatever a source answers.               *)
THEOREM DayTypeCorrect == Spec => []TypeOK
<1>1. IInv => TypeOK
  BY DEF IInv
<1>2. QED
  BY <1>1, DayInductive, PTL

(* For every feed whose connector tells a body without rows, and for any   *)
(* number of faults: a day is a success only with something in the         *)
(* warehouse (the skip in place of an empty batch in the connectors and in *)
(* RbiAuctionResultPipeline).                                              *)
THEOREM SuccessHasRows == Spec => []NoRowlessSuccess
<1>1. IInv => NoRowlessSuccess
  BY DEF IInv
<1>2. QED
  BY <1>1, DayInductive, PTL

(* For any number of faults: an answer other than the one that a source    *)
(* gives for a day not published is never recorded as a skip (the statuses *)
(* each connector turns into DataUnavailable).                             *)
THEOREM OutagesAreFailures == Spec => []OutageNotHoliday
<1>1. IInv => OutageNotHoliday
  BY DEF IInv, SkipExplained, OutageNotHoliday
<1>2. QED
  BY <1>1, DayInductive, PTL

(* For any number of pulls, retries and crashes: what is stored of an NSE  *)
(* session is its summary, never a part of it (the refusal at the end of   *)
(* NseSource.fetch_trades).                                                *)
THEOREM PartsAreNotKept == Spec => []SessionSummaryWhole
<1>1. IInv => SessionSummaryWhole
  BY DEF IInv
<1>2. QED
  BY <1>1, DayInductive, PTL

(***************************************************************************)
(* The figures of a tape.                                                  *)
(***************************************************************************)
CredibleYield(ytm) == ytm = Blank \/ ytm \in YtmMin .. YtmImplausible

(* Whatever stands in the two cells: a yield that is kept is one that a    *)
(* sovereign can have, a price kept outside STRIPS is not the size of a    *)
(* yield, no figure is made up, and a pair that was not garbled is left    *)
(* alone (_repair_price_yield).                                            *)
THEOREM RepairIsCredible ==
    ASSUME NEW price \in Int, NEW ytm \in Int, NEW deep \in BOOLEAN
    PROVE  LET kept == RepairPriceYield(price, ytm, deep)
           IN  /\ CredibleYield(kept.ytm)
               /\ ~deep /\ kept.price > 0 => kept.price >= PriceMinParSegment
               /\ {kept.price, kept.ytm} \subseteq {price, ytm, Blank}
               /\ price >= PriceMinParSegment /\ ytm \in YtmMin .. YtmImplausible
                    => kept = [price |-> price, ytm |-> ytm]
<1> USE DEF CredibleYield, Blank, YtmMin, YtmImplausible, PriceMinParSegment,
            YieldSized, Credible
<1>1. CASE ytm > YtmImplausible /\ YieldSized(price)
  BY <1>1 DEF RepairPriceYield
<1>2. CASE ytm > YtmImplausible /\ ~YieldSized(price)
  BY <1>2 DEF RepairPriceYield
<1>3. CASE ~(ytm > YtmImplausible) /\ ~deep /\ YieldSized(price)
  BY <1>3 DEF RepairPriceYield
<1>4. CASE ~(ytm > YtmImplausible) /\ ~(~deep /\ YieldSized(price))
  BY <1>4 DEF RepairPriceYield
<1>5. QED
  BY <1>1, <1>2, <1>3, <1>4

(* A face times a figure within bounds is within the bounds times the face. *)
LEMMA Weighted ==
    ASSUME NEW face \in Nat, NEW figure \in Int, NEW bound \in Int
    PROVE  /\ face * figure \in Int /\ face * bound \in Int
           /\ figure >= bound => face * figure >= face * bound
           /\ figure <= bound => face * figure <= face * bound
<1>1. face * figure \in Int /\ face * bound \in Int
  OBVIOUS
<1>2. figure >= bound => face * (figure - bound) >= 0
  OBVIOUS
<1>3. figure <= bound => face * (bound - figure) >= 0
  OBVIOUS
<1>4. /\ face * (figure - bound) = face * figure - face * bound
      /\ face * (bound - figure) = face * bound - face * figure
  OBVIOUS
<1>5. QED
  BY <1>1, <1>2, <1>3, <1>4

(* The fold goes row by row: what Groups returns after the last row comes  *)
(* of the empty accumulators by one step for each row.                     *)
Fold(tape, g) ==
    /\ g[0] = [isin \in Traded(tape) |-> EmptyAgg]
    /\ \A i \in 0 .. Len(tape) - 1 :
        g[i + 1] = IF tape[i + 1].well_formed
                   THEN [g[i] EXCEPT ![tape[i + 1].isin] = Add(@, ParseRow(tape[i + 1]))]
                   ELSE g[i]

LEMMA GroupsFold ==
    ASSUME NEW tape \in Seq(TapeRow)
    PROVE  \E g : Fold(tape, g) /\ Groups(tape) = g[Len(tape)]
<1>1. Len(tape) \in Nat
  OBVIOUS
<1> DEFINE none == [isin \in Traded(tape) |-> EmptyAgg]
           Step(groups, i) ==
             IF tape[i].well_formed
             THEN [groups EXCEPT ![tape[i].isin] = Add(@, ParseRow(tape[i]))]
             ELSE groups
           Grown(n, f) == f = [i \in 0 .. n |-> IF i = 0 THEN none ELSE Step(f[i - 1], i)]
           S == {n \in Nat : \E f : Grown(n, f)}
           R == CHOOSE f : Grown(Len(tape), f)
<1>2. Groups(tape) = R[Len(tape)]
  BY DEF Groups
<1> HIDE DEF Step, none
<1>3. 0 \in S
  <2>1. Grown(0, [i \in 0 .. 0 |-> none])
    OBVIOUS
  <2>2. QED
    BY <2>1
<1>4. ASSUME NEW n \in Nat, n \in S PROVE n + 1 \in S
  <2>1. PICK f : Grown(n, f)
    BY <1>4
  <2> DEFINE g == [i \in 0 .. n + 1 |-> IF i = n + 1 THEN Step(f[n], n + 1) ELSE f[i]]
             h == [i \in 0 .. n + 1 |-> IF i = 0 THEN none ELSE Step(g[i - 1], i)]
  <2>2. \A i \in 0 .. n : g[i] = f[i] /\ f[i] = IF i = 0 THEN none ELSE Step(f[i - 1], i)
    BY <2>1
  <2>3. g[n + 1] = Step(f[n], n + 1) /\ g[n] = f[n]
    OBVIOUS
  <2>4. g = [i \in 0 .. n + 1 |-> g[i]]
    OBVIOUS
  <2> HIDE DEF g
  <2>5. ASSUME NEW i \in 0 .. n + 1
        PROVE  g[i] = IF i = 0 THEN none ELSE Step(g[i - 1], i)
    <3>1. CASE i = n + 1
      BY <2>3, <3>1
    <3>2. CASE i = 0
      BY <2>2, <3>2
    <3>3. CASE i \in 1 .. n
      <4>1. i \in 0 .. n /\ i - 1 \in 0 .. n /\ i # 0
        BY <3>3
      <4>2. QED
        BY <2>2, <4>1
    <3>4. QED
      BY <3>1, <3>2, <3>3
  <2>6. g = h
    BY <2>4, <2>5
  <2>7. Grown(n + 1, g)
    BY <2>6
  <2> HIDE DEF Grown
  <2>8. QED
    BY <2>7
<1>5. Len(tape) \in S
  <2> HIDE DEF S
  <2>1. 0 .. Len(tape) \subseteq S
    BY <1>1, <1>3, <1>4, UpToInduction
  <2>2. QED
    BY <1>1, <2>1
<1>6. Grown(Len(tape), R)
  BY <1>5
<1> HIDE DEF R
<1>7. R[0] = none /\ \A i \in 1 .. Len(tape) : R[i] = Step(R[i - 1], i)
  BY <1>1, <1>6
<1>8. ASSUME NEW i \in 0 .. Len(tape) - 1 PROVE R[i + 1] = Step(R[i], i + 1)
  <2>1. i + 1 \in 1 .. Len(tape) /\ i + 1 - 1 = i
    BY <1>1
  <2>2. QED
    BY <1>7, <2>1
<1>9. Fold(tape, R)
  BY <1>7, <1>8 DEF Fold, Step, none
<1>10. QED
  BY <1>2, <1>9

(* What the parser keeps of a row that is a trade.                         *)
LEMMA ParsedRow ==
    ASSUME NEW row \in TapeRow, row.well_formed
    PROVE  LET p == ParseRow(row)
           IN  /\ row.isin \in STRING /\ p.isin = row.isin
               /\ p.desc = row.desc /\ p.desc \in STRING
               /\ p.face \in Int /\ p.price \in Int /\ p.ytm \in Int
               /\ p.time = row.time /\ p.time \in Int /\ p.time >= Untimed
               /\ CredibleYield(p.ytm)
               /\ ~IsStrip(row) /\ p.price > 0 => p.price >= PriceMinParSegment
<1> DEFINE deep == IsStrip(row)
           kept == RepairPriceYield(row.price, row.ytm, deep)
           p == ParseRow(row)
<1>1. row # Malformed
  BY DEF Malformed
<1>2. row \in [well_formed : {TRUE}, isin : STRING, desc : STRING, face : Int, price : Int,
               ytm : Int, time : Nat \cup {Untimed}]
  BY <1>1 DEF TapeRow
<1>3. p = [row EXCEPT !.price = kept.price, !.ytm = kept.ytm]
  BY DEF ParseRow, IsStrip
<1>4. row.price \in Int /\ row.ytm \in Int /\ deep \in BOOLEAN
  BY <1>2 DEF IsStrip
<1> HIDE DEF kept, p, deep
<1>5. /\ p.isin = row.isin /\ p.desc = row.desc /\ p.face = row.face /\ p.time = row.time
      /\ p.price = kept.price /\ p.ytm = kept.ytm
  BY <1>2, <1>3
<1>6. /\ CredibleYield(kept.ytm)
      /\ ~deep /\ kept.price > 0 => kept.price >= PriceMinParSegment
      /\ {kept.price, kept.ytm} \subseteq {row.price, row.ytm, Blank}
  BY <1>4, RepairIsCredible DEF kept
<1>7. kept.price \in Int /\ kept.ytm \in Int
  BY <1>4, <1>6 DEF Blank
<1>8. row.time \in Int /\ row.time >= Untimed
  BY <1>2 DEF Untimed
<1>9. row.isin \in STRING /\ row.desc \in STRING /\ row.face \in Int
  BY <1>2
<1>10. QED
  BY <1>5, <1>6, <1>7, <1>8, <1>9 DEF p, deep

(* The sums that an average price, and those that an average yield, is the *)
(* quotient of.                                                            *)
PriceSums(agg) ==
    /\ agg.total_face \in Int /\ agg.px_num \in Int
    /\ agg.px_num >= PriceMinParSegment * agg.total_face

YieldSums(agg) ==
    /\ agg.yld_face \in Int /\ agg.yld_num \in Int
    /\ agg.yld_num >= YtmMin * agg.yld_face
    /\ agg.yld_num <= YtmImplausible * agg.yld_face

(* One more trade keeps them credible, a garbled one too once it is        *)
(* repaired (_Agg.add).                                                    *)
LEMMA AddPrice ==
    ASSUME NEW agg, NEW p, PriceSums(agg), p.face \in Int, p.price \in Int,
           p.price > 0 => p.price >= PriceMinParSegment
    PROVE  PriceSums(Add(agg, p))
<1> DEFINE prices == IF Priced(p) THEN p.face ELSE 0
           paid == prices * p.price
<1>1. /\ Add(agg, p).total_face = agg.total_face + prices
      /\ Add(agg, p).px_num = agg.px_num + paid
  BY DEF Add
<1>2. prices \in Nat /\ (prices # 0 => p.price >= PriceMinParSegment)
  BY DEF Priced
<1> HIDE DEF prices
<1>3. paid \in Int /\ paid >= PriceMinParSegment * prices
  <2>1. CASE prices = 0
    BY <2>1 DEF PriceMinParSegment
  <2>2. CASE prices # 0
    BY <2>2, <1>2, Weighted DEF PriceMinParSegment
  <2>3. QED
    BY <2>1, <2>2
<1> HIDE DEF paid
<1>4. /\ agg.total_face \in Int /\ agg.px_num \in Int
      /\ agg.px_num >= 40 * agg.total_face /\ paid >= 40 * prices
  BY <1>3 DEF PriceSums, PriceMinParSegment
<1>5. /\ agg.px_num + paid \in Int /\ agg.total_face + prices \in Int
      /\ agg.px_num + paid >= 40 * (agg.total_face + prices)
  BY <1>2, <1>3, <1>4
<1>6. QED
  BY <1>1, <1>5 DEF PriceSums, PriceMinParSegment

(* The same of the yields, which have a denominator of their own.          *)
LEMMA AddYield ==
    ASSUME NEW agg, NEW p, YieldSums(agg), p.face \in Int, p.ytm \in Int, CredibleYield(p.ytm)
    PROVE  YieldSums(Add(agg, p))
<1> DEFINE yields == IF (Priced(p) /\ p.ytm # Blank) \/ YieldOnly(p) THEN p.face ELSE 0
           yielded == yields * p.ytm
<1>1. /\ Add(agg, p).yld_face = agg.yld_face + yields
      /\ Add(agg, p).yld_num = agg.yld_num + yielded
  BY DEF Add
<1>2. yields \in Nat /\ (yields # 0 => p.ytm \in YtmMin .. YtmImplausible)
  BY DEF Priced, YieldOnly, CredibleYield
<1> HIDE DEF yields
<1>3. /\ yielded \in Int /\ yielded >= YtmMin * yields
      /\ yielded <= YtmImplausible * yields
  <2>1. CASE yields = 0
    BY <2>1 DEF YtmMin, YtmImplausible
  <2>2. CASE yields # 0
    BY <2>2, <1>2, Weighted DEF YtmMin, YtmImplausible
  <2>3. QED
    BY <2>1, <2>2
<1> HIDE DEF yielded
<1>4. /\ agg.yld_face \in Int /\ agg.yld_num \in Int
      /\ agg.yld_num >= (-20) * agg.yld_face /\ agg.yld_num <= 40 * agg.yld_face
      /\ yielded >= (-20) * yields /\ yielded <= 40 * yields
  BY <1>3 DEF YieldSums, YtmMin, YtmImplausible
<1>5. /\ agg.yld_num + yielded \in Int /\ agg.yld_face + yields \in Int
      /\ agg.yld_num + yielded >= (-20) * (agg.yld_face + yields)
      /\ agg.yld_num + yielded <= 40 * (agg.yld_face + yields)
  BY <1>2, <1>3, <1>4
<1>6. QED
  BY <1>1, <1>5 DEF YieldSums, YtmMin, YtmImplausible

(* The trades of a security among the first n rows, and those of them that *)
(* the last price may come from.                                           *)
SoFar(tape, isin, n) == {i \in TradesOf(tape, isin) : i <= n}

LatestOf(tape, trades) ==
    {i \in trades : Priced(ParseRow(tape[i])) /\ \A j \in trades : Priced(ParseRow(tape[j])) =>
        tape[j].time < tape[i].time \/ (tape[j].time = tape[i].time /\ j <= i)}

(* What an accumulator holds of the trades added so far.  Its description  *)
(* is one of theirs; its last price is that of the latest; its prices are  *)
(* credible as long as none of them is of a strip.                         *)
Described(agg, tape, trades) ==
    /\ agg.desc = "" => \A i \in trades : tape[i].desc = ""
    /\ agg.desc # "" => \E i \in trades : tape[i].desc = agg.desc

LastQuoted(agg, tape, trades) ==
    \/ /\ \A i \in trades : ~Priced(ParseRow(tape[i]))
       /\ agg.total_face = 0 /\ agg.ltp = Blank /\ agg.last_key = Untimed
    \/ \E i \in LatestOf(tape, trades) :
         /\ agg.ltp = ParseRow(tape[i]).price /\ agg.lty = ParseRow(tape[i]).ytm
         /\ agg.last_key = tape[i].time

AccountsFor(agg, tape, trades) ==
    /\ agg.count = Cardinality(trades)
    /\ Described(agg, tape, trades)
    /\ LastQuoted(agg, tape, trades)
    /\ (\A i \in trades : ~IsStrip(tape[i])) => PriceSums(agg)
    /\ YieldSums(agg)

(* Of no trades the empty accumulator.                                     *)
LEMMA NothingAdded ==
    ASSUME NEW tape
    PROVE  AccountsFor(EmptyAgg, tape, {})
<1>1. PriceSums(EmptyAgg) /\ YieldSums(EmptyAgg)
  BY DEF PriceSums, YieldSums, EmptyAgg, PriceMinParSegment, YtmMin, YtmImplausible
<1>2. EmptyAgg.count = Cardinality({})
  BY FS_EmptySet DEF EmptyAgg
<1>3. Described(EmptyAgg, tape, {}) /\ LastQuoted(EmptyAgg, tape, {})
  BY DEF Described, LastQuoted, EmptyAgg
<1>4. QED
  BY <1>1, <1>2, <1>3 DEF AccountsFor

(* Of one trade more, later in the file, the accumulator it is added to.   *)
LEMMA TradeAdded ==
    ASSUME NEW tape \in Seq(TapeRow), NEW agg, NEW n \in DOMAIN tape, NEW trades,
           tape[n].well_formed,
           trades \subseteq DOMAIN tape, \A i \in trades : tape[i].well_formed /\ i < n,
           AccountsFor(agg, tape, trades)
    PROVE  AccountsFor(Add(agg, ParseRow(tape[n])), tape, trades \cup {n})
<1> DEFINE row == tape[n]
           p == ParseRow(row)
           new == Add(agg, p)
           all == trades \cup {n}
<1>1. \A i \in all : tape[i] \in TapeRow /\ tape[i].well_formed /\ i \in Nat /\ i <= n
  OBVIOUS
<1>2. /\ p.face \in Int /\ p.price \in Int /\ p.ytm \in Int /\ p.desc = row.desc
      /\ p.time = row.time /\ p.time \in Int /\ p.time >= Untimed /\ CredibleYield(p.ytm)
      /\ ~IsStrip(row) /\ p.price > 0 => p.price >= PriceMinParSegment
  BY <1>1, ParsedRow
<1>3. \A i \in all : tape[i].time \in Int /\ tape[i].time >= Untimed
  BY <1>1, ParsedRow
<1>4. /\ new.desc = IF agg.desc # "" THEN agg.desc ELSE p.desc
      /\ new.count = agg.count + 1
      /\ new.total_face = agg.total_face + (IF Priced(p) THEN p.face ELSE 0)
      /\ new.last_key = IF Priced(p) /\ p.time >= agg.last_key THEN p.time ELSE agg.last_key
      /\ new.ltp = IF Priced(p) /\ p.time >= agg.last_key THEN p.price ELSE agg.ltp
      /\ new.lty = IF Priced(p) /\ p.time >= agg.last_key THEN p.ytm ELSE agg.lty
  BY DEF Add
<1> HIDE DEF p, row, new
<1>5. new.count = Cardinality(all)
  <2>1. IsFiniteSet(trades)
    <3>1. Len(tape) \in Int /\ 1 \in Int /\ trades \subseteq 1 .. Len(tape)
      OBVIOUS
    <3>2. IsFiniteSet(1 .. Len(tape))
      BY <3>1, FS_Interval
    <3>3. QED
      BY <3>1, <3>2, FS_Subset
  <2>2. n \notin trades
    BY <1>1
  <2>3. Cardinality(all) = Cardinality(trades) + 1
    BY <2>1, <2>2, FS_AddElement
  <2>4. QED
    BY <1>4, <2>3 DEF AccountsFor
<1>6. Described(new, tape, all)
  BY <1>2, <1>4 DEF AccountsFor, Described, row
<1>7. LastQuoted(new, tape, all)
  <2>1. CASE ~Priced(p)
    <3>1. new.total_face = agg.total_face + 0 /\ new.last_key = agg.last_key
          /\ new.ltp = agg.ltp /\ new.lty = agg.lty
      BY <1>4, <2>1
    <3>2. CASE \A i \in trades : ~Priced(ParseRow(tape[i]))
      <4>1. LatestOf(tape, trades) = {}
        BY <3>2 DEF LatestOf
      <4>2. agg.total_face = 0 /\ agg.ltp = Blank /\ agg.last_key = Untimed
        BY <4>1 DEF AccountsFor, LastQuoted
      <4>3. \A i \in all : ~Priced(ParseRow(tape[i]))
        BY <2>1, <3>2 DEF p, row
      <4>4. QED
        BY <3>1, <4>2, <4>3 DEF LastQuoted
    <3>3. CASE \E i \in trades : Priced(ParseRow(tape[i]))
      <4>1. PICK i \in LatestOf(tape, trades) :
               /\ agg.ltp = ParseRow(tape[i]).price /\ agg.lty = ParseRow(tape[i]).ytm
               /\ agg.last_key = tape[i].time
        BY <3>3 DEF AccountsFor, LastQuoted
      <4>2. i \in LatestOf(tape, all)
        BY <2>1, <4>1 DEF LatestOf, p, row
      <4>3. QED
        BY <3>1, <4>1, <4>2 DEF LastQuoted
    <3>4. QED
      BY <3>2, <3>3
  <2>2. CASE Priced(p) /\ p.time >= agg.last_key
    <3>1. n \in LatestOf(tape, all)
      <4>1. ASSUME NEW j \in all, Priced(ParseRow(tape[j]))
            PROVE  tape[j].time < tape[n].time \/ (tape[j].time = tape[n].time /\ j <= n)
        <5>1. CASE j = n
          BY <5>1
        <5>2. CASE j \in trades
          <6>1. PICK i \in LatestOf(tape, trades) : agg.last_key = tape[i].time
            BY <4>1, <5>2 DEF AccountsFor, LastQuoted
          <6>2. tape[j].time <= tape[i].time /\ i \in all
            BY <1>3, <4>1, <5>2, <6>1 DEF LatestOf
          <6>3. tape[i].time <= tape[n].time
            BY <1>2, <1>3, <2>2, <6>1, <6>2 DEF row
          <6>4. tape[j].time <= tape[n].time /\ j <= n
            BY <1>1, <1>3, <6>2, <6>3
          <6>5. QED
            BY <1>3, <6>4
        <5>3. QED
          BY <5>1, <5>2
      <4>2. QED
        BY <2>2, <4>1 DEF LatestOf, p, row
    <3>2. new.ltp = p.price /\ new.lty = p.ytm /\ new.last_key = tape[n].time
      BY <1>2, <1>4, <2>2 DEF row
    <3>3. QED
      BY <3>1, <3>2 DEF LastQuoted, p, row
  <2>3. CASE Priced(p) /\ ~(p.time >= agg.last_key)
    <3>1. agg.last_key # Untimed
      BY <1>2, <2>3
    <3>2. PICK i \in LatestOf(tape, trades) :
             /\ agg.ltp = ParseRow(tape[i]).price /\ agg.lty = ParseRow(tape[i]).ytm
             /\ agg.last_key = tape[i].time
      BY <3>1 DEF AccountsFor, LastQuoted
    <3>3. i \in trades
      BY <3>2 DEF LatestOf
    <3>4. tape[n].time < tape[i].time
      BY <1>2, <1>3, <2>3, <3>2, <3>3 DEF row
    <3>5. i \in LatestOf(tape, all)
      BY <3>2, <3>4 DEF LatestOf
    <3>6. QED
      BY <1>4, <2>3, <3>2, <3>5 DEF LastQuoted
  <2>4. QED
    BY <2>1, <2>2, <2>3
<1>8. (\A i \in all : ~IsStrip(tape[i])) => PriceSums(new)
  <2>1. HAVE \A i \in all : ~IsStrip(tape[i])
  <2>2. PriceSums(agg) /\ ~IsStrip(row)
    BY <2>1 DEF AccountsFor, row
  <2>3. QED
    BY <1>2, <2>2, AddPrice DEF new
<1>9. YieldSums(new)
  BY <1>2, AddYield DEF AccountsFor, new
<1>10. QED
  BY <1>5, <1>6, <1>7, <1>8, <1>9 DEF AccountsFor, new, p, row

(* After the last row each accumulator has the trades of its security.     *)
LEMMA GroupsAccount ==
    ASSUME NEW tape \in Seq(TapeRow), NEW isin \in Traded(tape)
    PROVE  AccountsFor(Groups(tape)[isin], tape, TradesOf(tape, isin))
<1>1. PICK g : Fold(tape, g) /\ Groups(tape) = g[Len(tape)]
  BY GroupsFold
<1> DEFINE Good(n) == /\ g[n] = [t \in Traded(tape) |-> g[n][t]]
                      /\ AccountsFor(g[n][isin], tape, SoFar(tape, isin, n))
           S == {n \in 0 .. Len(tape) : Good(n)}
<1>2. Len(tape) \in Nat /\ DOMAIN tape = 1 .. Len(tape)
  OBVIOUS
<1>3. 0 \in S
  <2>1. SoFar(tape, isin, 0) = {}
    BY DEF SoFar, TradesOf
  <2>2. g[0] = [t \in Traded(tape) |-> EmptyAgg] /\ g[0][isin] = EmptyAgg
    BY <1>1 DEF Fold
  <2>3. AccountsFor(g[0][isin], tape, SoFar(tape, isin, 0))
    BY <2>1, <2>2, NothingAdded
  <2>4. QED
    BY <1>2, <2>2, <2>3
<1>4. ASSUME NEW n \in 0 .. Len(tape), n < Len(tape) /\ n \in S PROVE n + 1 \in S
  <2> DEFINE row == tape[n + 1]
             here == SoFar(tape, isin, n)
  <2>1. n \in 0 .. Len(tape) - 1 /\ n + 1 \in 0 .. Len(tape) /\ n + 1 \in DOMAIN tape
    BY <1>2, <1>4
  <2>2. g[n + 1] = IF row.well_formed THEN [g[n] EXCEPT ![row.isin] = Add(@, ParseRow(row))]
                   ELSE g[n]
    BY <1>1, <2>1 DEF Fold
  <2>3. Good(n)
    BY <1>4
  <2>4. SoFar(tape, isin, n + 1) =
          IF row.well_formed /\ row.isin = isin THEN here \cup {n + 1} ELSE here
    BY <1>2, <2>1 DEF SoFar, TradesOf
  <2>5. /\ here \subseteq DOMAIN tape
        /\ \A i \in here : tape[i].well_formed /\ i < n + 1
    BY <1>2 DEF SoFar, TradesOf
  <2> HIDE DEF here, row
  <2>6. g[n + 1] = [t \in Traded(tape) |-> g[n + 1][t]]
    BY <2>2, <2>3
  <2>7. CASE row.well_formed /\ row.isin = isin
    <3>1. g[n + 1][isin] = Add(g[n][isin], ParseRow(row))
      BY <2>2, <2>3, <2>7
    <3>2. AccountsFor(Add(g[n][isin], ParseRow(row)), tape, here \cup {n + 1})
      BY <2>1, <2>3, <2>5, <2>7, TradeAdded DEF here, row
    <3>3. QED
      BY <2>1, <2>4, <2>6, <2>7, <3>1, <3>2
  <2>8. CASE ~(row.well_formed /\ row.isin = isin)
    <3>1. g[n + 1][isin] = g[n][isin]
      BY <2>2, <2>3, <2>8
    <3>2. QED
      BY <2>1, <2>3, <2>4, <2>6, <2>8, <3>1 DEF here
  <2>9. QED
    BY <2>7, <2>8
<1>5. Len(tape) \in S
  <2> HIDE DEF S
  <2>1. 0 .. Len(tape) \subseteq S
    BY <1>2, <1>3, <1>4, UpToInduction
  <2>2. QED
    BY <1>2, <2>1
<1>6. SoFar(tape, isin, Len(tape)) = TradesOf(tape, isin)
  BY <1>2 DEF SoFar, TradesOf
<1>7. QED
  BY <1>1, <1>5, <1>6

(* Whatever CCIL prints, the summaries are those of the tape               *)
(* (aggregate_trades_with_stats).                                          *)
THEOREM TapeSummarised ==
    ASSUME NEW tape, IsTape(tape)
    PROVE  Summarise(AggregateTrades(tape), tape)
<1>1. tape \in Seq(TapeRow) /\ StripsAgree(tape)
  BY DEF IsTape
<1> DEFINE summaries == AggregateTrades(tape)
<1>2. DOMAIN summaries = Traded(tape)
  BY DEF AggregateTrades
<1>3. ASSUME NEW isin \in Traded(tape)
      PROVE  /\ summaries[isin].no_of_trades = Cardinality(TradesOf(tape, isin))
             /\ \/ /\ LatestPriced(tape, isin) = {}
                   /\ summaries[isin].trade_value = 0 /\ summaries[isin].ltp = Blank
                \/ \E i \in LatestPriced(tape, isin) :
                     /\ summaries[isin].ltp = ParseRow(tape[i]).price
                     /\ summaries[isin].lty = ParseRow(tape[i]).ytm
             /\ summaries[isin].segment # "STRIPS" =>
                  summaries[isin].px_num >= PriceMinParSegment * summaries[isin].trade_value
             /\ summaries[isin].yld_num >= YtmMin * summaries[isin].yld_face
             /\ summaries[isin].yld_num <= YtmImplausible * summaries[isin].yld_face
  <2> DEFINE agg == Groups(tape)[isin]
             trades == TradesOf(tape, isin)
  <2>1. AccountsFor(agg, tape, trades)
    BY <1>1, GroupsAccount
  <2>2. summaries[isin] = ToRecord(agg, isin)
    BY DEF AggregateTrades
  <2> HIDE DEF agg, summaries
  <2>3. /\ summaries[isin].segment = InstrumentSegment(agg.desc, isin)
        /\ summaries[isin].no_of_trades = agg.count
        /\ summaries[isin].trade_value = agg.total_face /\ summaries[isin].px_num = agg.px_num
        /\ summaries[isin].yld_face = agg.yld_face /\ summaries[isin].yld_num = agg.yld_num
        /\ summaries[isin].ltp = agg.ltp /\ summaries[isin].lty = agg.lty
    BY <2>2 DEF ToRecord
  <2>4. LatestPriced(tape, isin) = LatestOf(tape, trades)
    BY DEF LatestPriced, PricedTrades, LatestOf
  <2>5. \A i \in trades : tape[i].isin = isin /\ tape[i] \in TapeRow /\ tape[i].well_formed
    BY <1>1 DEF TradesOf
  <2>6. ASSUME InstrumentSegment(agg.desc, isin) # "STRIPS", NEW i \in trades
        PROVE  ~IsStrip(tape[i])
    <3>1. CASE tape[i].desc = ""
      BY <2>5, <3>1 DEF IsStrip, InstrumentSegment
    <3>2. CASE tape[i].desc # ""
      <4>1. agg.desc # ""
        BY <2>1, <3>2 DEF AccountsFor, Described
      <4>2. PICK j \in trades : tape[j].desc = agg.desc
        BY <2>1, <4>1 DEF AccountsFor, Described
      <4>3. IsStrip(tape[i]) <=> IsStrip(tape[j])
        BY <1>1, <3>2, <4>1, <4>2 DEF StripsAgree
      <4>4. ~IsStrip(tape[j])
        BY <2>5, <2>6, <4>2 DEF IsStrip
      <4>5. QED
        BY <4>3, <4>4
    <3>3. QED
      BY <3>1, <3>2
  <2>7. InstrumentSegment(agg.desc, isin) # "STRIPS" => PriceSums(agg)
    BY <2>1, <2>6 DEF AccountsFor
  <2>8. \/ /\ LatestPriced(tape, isin) = {} /\ agg.total_face = 0 /\ agg.ltp = Blank
        \/ \E i \in LatestPriced(tape, isin) :
             /\ agg.ltp = ParseRow(tape[i]).price /\ agg.lty = ParseRow(tape[i]).ytm
    BY <2>1, <2>4 DEF AccountsFor, LastQuoted, LatestOf
  <2>9. agg.count = Cardinality(trades) /\ YieldSums(agg)
    BY <2>1 DEF AccountsFor
  <2>10. QED
    BY <2>3, <2>7, <2>8, <2>9 DEF PriceSums, YieldSums
<1>4. QED
  BY <1>2, <1>3 DEF Summarise

(* The content that a run loads is of its feed.                            *)
LEMMA ContentIsTape == Spec => [](feed = "ccil" => content \in Tapes \cup {NoContent})
<1> DEFINE Kept == feed = "ccil" => content \in Tapes \cup {NoContent}
<1>1. Init => Kept
  BY DEF Init
<1>2. Kept /\ [Next]_vars => Kept'
  <2> SUFFICES ASSUME Kept, [Next]_vars PROVE Kept'
    OBVIOUS
  <2>1. CASE Publish \/ Crash \/ Attempt
    BY <2>1 DEF Publish, Crash, Attempt, Retry, Reprime, Take
  <2>2. CASE Night \/ Rerun
    BY <2>2 DEF Night, Rerun, Begin
  <2>3. CASE Conclude
    <3>1. CASE Final = "success" /\ feed = "ccil"
      BY <2>3, <3>1 DEF Conclude
    <3>2. CASE feed # "ccil"
      BY <2>3, <3>2 DEF Conclude
    <3>3. CASE Final # "success"
      BY <2>3, <3>3 DEF Conclude
    <3>4. QED
      BY <3>1, <3>2, <3>3
  <2>4. CASE UNCHANGED vars
    BY <2>4 DEF vars
  <2>5. QED
    BY <2>1, <2>2, <2>3, <2>4 DEF Next
<1>3. QED
  BY <1>1, <1>2, PTL DEF Spec

(* What is kept of CCIL's tape is what the tape says, on every day that a  *)
(* run loads (fetch_trades).                                               *)
THEOREM FiguresOfTape == Spec => []TapeFigures
<1>1. (feed = "ccil" => content \in Tapes \cup {NoContent}) => TapeFigures
  BY TapesAssumption, TapeSummarised DEF TapeFigures
<1>2. QED
  BY <1>1, ContentIsTape, PTL

(***************************************************************************)
(* The figures of a release: how a row is aligned.                         *)
(***************************************************************************)

(* A continuation row holds its cells under the securities, whatever cells *)
(* stand before them (_trailing).                                          *)
THEOREM ContinuationAligned ==
    ASSUME NEW S, NEW lead \in Seq(S), NEW cells \in Seq(S)
    PROVE  Trailing(lead \o cells, Len(cells)) = cells
<1>1. /\ Len(lead \o cells) = Len(lead) + Len(cells)
      /\ Len(lead) \in Nat /\ Len(cells) \in Nat
      /\ \A i \in 1 .. Len(cells) : (lead \o cells)[Len(lead) + i] = cells[i]
  OBVIOUS
<1>2. Trailing(lead \o cells, Len(cells))
        = SubSeq(lead \o cells, Len(lead) + 1, Len(lead) + Len(cells))
  BY <1>1 DEF Trailing
<1>3. /\ Len(SubSeq(lead \o cells, Len(lead) + 1, Len(lead) + Len(cells))) = Len(cells)
      /\ \A i \in 1 .. Len(cells) :
            SubSeq(lead \o cells, Len(lead) + 1, Len(lead) + Len(cells))[i] = cells[i]
  BY <1>1
<1>4. QED
  BY <1>2, <1>3

(* Numbering and blanks before a row's label move none of its cells, and   *)
(* the cells after the label are those of the securities, in their order   *)
(* (_data_values, _row_label).                                             *)
THEOREM RowAligned ==
    ASSUME NEW S, NEW head \in Seq(S), NEW label \in S, NEW values \in Seq(S),
           \A i \in DOMAIN head : head[i].kind \in {"blank", "roman"},
           label.kind \notin {"blank", "roman"}
    PROVE  /\ RowLabel(head \o <<label>> \o values) = label.word
           /\ DataValues(head \o <<label>> \o values, Len(values)) = values
<1> DEFINE row == head \o <<label>> \o values
           n == Len(head)
<1>1. /\ n \in Nat /\ Len(values) \in Nat /\ DOMAIN row = 1 .. n + 1 + Len(values)
      /\ \A i \in 1 .. n : row[i] = head[i]
      /\ row[n + 1] = label
      /\ \A i \in 1 .. Len(values) : row[n + 1 + i] = values[i]
  OBVIOUS
<1> HIDE DEF row, n
<1>2. \A i \in 1 .. n : row[i].kind \in {"blank", "roman"}
  BY <1>1 DEF n
<1>3. n + 1 \in DataStart(row) /\ \A i \in DataStart(row) : n + 1 <= i
  <2>1. n + 1 \in DOMAIN row
    BY <1>1
  <2>2. ASSUME NEW i \in DOMAIN row, i <= n
        PROVE  row[i].kind \in {"blank", "roman"}
    BY <2>2, <1>1, <1>2
  <2>3. QED
    BY <2>1, <2>2, <1>1 DEF DataStart
<1>4. LabelAt(row) = n + 1
  <2>1. DataStart(row) \subseteq Nat
    BY <1>1 DEF DataStart
  <2>2. QED
    BY <2>1, <1>1, <1>3 DEF LabelAt
<1>5. RowLabel(row) = label.word
  BY <1>1, <1>3, <1>4 DEF RowLabel
<1>6. DataValues(row, Len(values)) = [i \in 1 .. Len(values) |-> values[i]]
  BY <1>1, <1>4 DEF DataValues
<1>7. QED
  BY <1>5, <1>6 DEF row

(***************************************************************************)
(* The figures of a release: what a walk of its tables comes to.           *)
(***************************************************************************)

(* What the cells of a release are.                                        *)
LEMMA CellFacts ==
    /\ Empty.kind = "blank" /\ Roman.kind = "roman"
    /\ \A w : /\ Label(w).kind = "label" /\ Label(w).word = w
              /\ Named(w).kind = "name" /\ Named(w).word = w
              /\ Caption(w).kind = "caption" /\ Caption(w).word = w
    /\ \A n : /\ n = NoFigure => Figure(n).kind = "blank" /\ Paren(n).kind = "blank"
              /\ n # NoFigure => /\ Figure(n).kind = "figure" /\ Figure(n).figure = n
                                 /\ Paren(n).kind = "paren" /\ Paren(n).figure = n
<1>1. Empty.kind = "blank" /\ Roman.kind = "roman"
  BY DEF Empty, Roman, Cell
<1>2. ASSUME NEW w
      PROVE  /\ Label(w).kind = "label" /\ Label(w).word = w
             /\ Named(w).kind = "name" /\ Named(w).word = w
             /\ Caption(w).kind = "caption" /\ Caption(w).word = w
  BY DEF Label, Named, Caption, Cell
<1>3. ASSUME NEW n
      PROVE  /\ n = NoFigure => Figure(n).kind = "blank" /\ Paren(n).kind = "blank"
             /\ n # NoFigure => /\ Figure(n).kind = "figure" /\ Figure(n).figure = n
                                /\ Paren(n).kind = "paren" /\ Paren(n).figure = n
  <2>1. CASE n = NoFigure
    BY <1>1, <2>1 DEF Figure, Paren
  <2>2. CASE n # NoFigure
    BY <2>2 DEF Figure, Paren, Cell
  <2>3. QED
    BY <2>1, <2>2
<1>4. QED
  BY <1>1, <1>2, <1>3

(* The rows of a release: their label, the cells after it, and that they   *)
(* continue no row.                                                        *)
Heads == {<<>>, <<Roman>>}

(* A labelled row shows its label and the cells after it, and is none that *)
(* continues another (_row_label, _data_values).                           *)
LEMMA LabelledRow ==
    ASSUME NEW n \in Nat, NEW head \in Heads, NEW label, NEW values,
           values = [i \in 1 .. n |-> values[i]]
    PROVE  /\ RowLabel(Labelled(head, label, values)) = label
           /\ DataValues(Labelled(head, label, values), n) = values
           /\ ~Continues(Labelled(head, label, values))
<1> DEFINE S == {Roman, Label(label)} \cup {values[i] : i \in 1 .. n}
           row == Labelled(head, label, values)
<1>0. Label(label) \in S /\ Roman \in S
  OBVIOUS
<1>2. values \in [1 .. n -> S]
  OBVIOUS
<1> HIDE DEF S
<1>1. head \in Seq(S)
  <2>1. CASE head = <<>>
    BY <2>1
  <2>2. CASE head = <<Roman>>
    BY <1>0, <2>2
  <2>3. QED
    BY <2>1, <2>2 DEF Heads
<1>3. values \in Seq(S) /\ Len(values) = n
  BY <1>2
<1>4. \A i \in DOMAIN head : head[i].kind \in {"blank", "roman"}
  BY CellFacts DEF Heads
<1>5. Label(label).kind = "label" /\ Label(label).word = label
  BY CellFacts
<1>6. RowLabel(row) = label /\ DataValues(row, Len(values)) = values
  BY <1>0, <1>1, <1>3, <1>4, <1>5, RowAligned DEF Labelled
<1>7. Len(head) + 1 \in DOMAIN row /\ row[Len(head) + 1] = Label(label)
  BY <1>0, <1>1, <1>3 DEF Labelled
<1>8. ~Continues(row)
  BY <1>5, <1>7 DEF Continues
<1>9. QED
  BY <1>3, <1>6, <1>8

(* The securities of a table are in a list.                               *)
Listed(s) == \E n \in Nat : DOMAIN s = 1 .. n

(* The accumulator of a walk that has come to the fields D.                *)
Shown(s, p, D) == [i \in DOMAIN s |-> [f \in Fields |-> IF f \in D THEN p[s[i]][f] ELSE NoFigure]]
At(s, p, D, section, pending) ==
    [fields |-> Shown(s, p, D), section |-> section, pending |-> pending]

(* One field more.                                                         *)
Also(D, field) == D \cup {field}

(* Writing the cells of a field shows it.                                  *)
LEMMA WrittenShown ==
    ASSUME NEW s, NEW p, NEW D, NEW field \in Fields, NEW kind, NEW cells, DOMAIN cells = DOMAIN s,
           \A i \in DOMAIN s : /\ p[s[i]][field] = NoFigure => cells[i].kind # kind
                               /\ p[s[i]][field] # NoFigure =>
                                    cells[i].kind = kind /\ cells[i].figure = p[s[i]][field]
    PROVE  Written(Shown(s, p, D), cells, field, kind) = Shown(s, p, Also(D, field))
<1> DEFINE old == Shown(s, p, D)
           new == Written(old, cells, field, kind)
           shown == Shown(s, p, Also(D, field))
<1>0. field # "none"
  BY DEF Fields
<1>1. /\ DOMAIN old = DOMAIN s /\ new = [i \in DOMAIN s |-> new[i]]
      /\ shown = [i \in DOMAIN s |-> shown[i]]
  BY DEF Shown, Written
<1>2. ASSUME NEW i \in DOMAIN s
      PROVE  new[i] = shown[i]
  <2> DEFINE was == old[i]
             will == shown[i]
  <2>1. /\ was = [f \in Fields |-> IF f \in D THEN p[s[i]][f] ELSE NoFigure]
        /\ will = [f \in Fields |-> IF f \in Also(D, field) THEN p[s[i]][f] ELSE NoFigure]
    BY DEF Shown, Also
  <2>2. new[i] = IF cells[i].kind = kind THEN [was EXCEPT ![field] = cells[i].figure] ELSE was
    BY <1>0, <1>1 DEF Written
  <2> HIDE DEF old, new, shown, was, will
  <2>3. CASE p[s[i]][field] = NoFigure
    BY <2>1, <2>2, <2>3 DEF will, Also
  <2>4. CASE p[s[i]][field] # NoFigure
    BY <2>1, <2>2, <2>4 DEF will, Also
  <2>5. QED
    BY <2>3, <2>4
<1> HIDE DEF old, new, shown
<1>3. QED
  BY <1>1, <1>2 DEF new, shown, old

(* What the accumulator shows of each security.                            *)
LEMMA ShownFacts ==
    ASSUME NEW n \in Nat, NEW s, DOMAIN s = 1 .. n, NEW p, NEW D
    PROVE  /\ Len(Shown(s, p, D)) = n /\ DOMAIN Shown(s, p, D) = 1 .. n
           /\ \A i \in 1 .. n : \A f \in Fields :
                Shown(s, p, D)[i][f] = IF f \in D THEN p[s[i]][f] ELSE NoFigure
<1> DEFINE shown == Shown(s, p, D)
           S == {shown[i] : i \in 1 .. n}
<1>1. shown = [i \in 1 .. n |-> [f \in Fields |-> IF f \in D THEN p[s[i]][f] ELSE NoFigure]]
  BY DEF Shown, Also
<1>2. shown \in [1 .. n -> S]
  <2>1. shown = [i \in 1 .. n |-> shown[i]]
    BY <1>1
  <2> HIDE DEF shown
  <2>2. QED
    BY <2>1
<1> HIDE DEF S
<1>3. Len(shown) = n /\ DOMAIN shown = 1 .. n
  BY <1>2
<1>4. QED
  BY <1>1, <1>3

(* A row of figures, a heading, a row that is neither, and the yields      *)
(* below a price: what each makes of the walk.                             *)

(* A row of figures shows them in its field; one that is a heading as well *)
(* opens its section only if it has no figure (parse_auction_results).     *)
LEMMA PrintedRow ==
    ASSUME NEW s, Listed(s), NEW p, NEW D, NEW section, NEW pending,
           NEW head \in Heads, NEW label, NEW field \in Fields, FieldFor(label, section) = field
    PROVE  /\ (\E i \in DOMAIN s : p[s[i]][field] # NoFigure) \/ label \notin Headings =>
                WalkRow(At(s, p, D, section, pending), Printed(head, label, s, p, field))
                  = At(s, p, Also(D, field), section,
                        PendingAfter(field, Shown(s, p, Also(D, field))[1]))
           /\ (\A i \in DOMAIN s : p[s[i]][field] = NoFigure) /\ label \in Headings =>
                WalkRow(At(s, p, D, section, pending), Printed(head, label, s, p, field))
                  = At(s, p, Also(D, field), SectionFor(label), "none")
<1>n. PICK n \in Nat : DOMAIN s = 1 .. n
  BY DEF Listed
<1> USE <1>n
<1> DEFINE values == [i \in DOMAIN s |-> Figure(p[s[i]][field])]
           row == Printed(head, label, s, p, field)
           acc == At(s, p, D, section, pending)
           new == WalkRow(acc, row)
           shown == Also(D, field)
           wrote == \E i \in 1 .. n : p[s[i]][field] # NoFigure
<1>0. field # "none"
  BY DEF Fields
<1>1. values = [i \in 1 .. n |-> values[i]] /\ row = Labelled(head, label, values)
      /\ DOMAIN values = 1 .. n
  BY DEF Printed
<1>2. \A i \in 1 .. n : values[i] = Figure(p[s[i]][field])
  OBVIOUS
<1> HIDE DEF values, row
<1>3. RowLabel(row) = label /\ DataValues(row, n) = values /\ ~Continues(row)
  BY <1>1, LabelledRow
<1>4. acc.fields = Shown(s, p, D) /\ acc.section = section /\ acc.pending = pending
      /\ Len(acc.fields) = n
  BY ShownFacts DEF At
<1>5. (\E i \in DOMAIN values : values[i].kind = "figure") <=> wrote
  BY <1>1, <1>2, CellFacts
<1>6. Written(acc.fields, values, field, "figure") = Shown(s, p, shown)
  <2>1. \A i \in DOMAIN s : /\ p[s[i]][field] = NoFigure => values[i].kind # "figure"
                            /\ p[s[i]][field] # NoFigure =>
                                  values[i].kind = "figure" /\ values[i].figure = p[s[i]][field]
    BY <1>2, CellFacts
  <2>2. QED
    BY <1>1, <1>4, <2>1, WrittenShown
<1> HIDE DEF acc, shown, wrote
<1>7. new = IF ~wrote /\ label \in Headings
            THEN [acc EXCEPT !.section = SectionFor(label), !.pending = "none"]
            ELSE [acc EXCEPT !.fields = Shown(s, p, shown),
                             !.pending = PendingAfter(field, Shown(s, p, shown)[1])]
  <2>1. CASE ~wrote /\ label \in Headings
    BY <1>0, <1>3, <1>4, <1>5, <2>1 DEF WalkRow
  <2>2. CASE wrote \/ label \notin Headings
    BY <1>0, <1>3, <1>4, <1>5, <1>6, <2>2 DEF WalkRow
  <2>3. QED
    BY <2>1, <2>2
<1> HIDE DEF new
<1>8. ~wrote => Shown(s, p, D) = Shown(s, p, shown)
  <2>1. HAVE ~wrote
  <2>2. \A i \in 1 .. n : p[s[i]][field] = NoFigure
    BY <2>1 DEF wrote
  <2>3. ASSUME NEW i \in DOMAIN s
        PROVE  [f \in Fields |-> IF f \in D THEN p[s[i]][f] ELSE NoFigure]
                 = [f \in Fields |-> IF f \in shown THEN p[s[i]][f] ELSE NoFigure]
    BY <2>2 DEF shown, Also
  <2>4. QED
    BY <2>3 DEF Shown, Also
<1>9. acc = [fields |-> Shown(s, p, D), section |-> section, pending |-> pending]
  BY DEF acc, At
<1>10. ~wrote /\ label \in Headings => new = At(s, p, shown, SectionFor(label), "none")
  BY <1>7, <1>8, <1>9 DEF At
<1>11. wrote \/ label \notin Headings =>
         new = At(s, p, shown, section, PendingAfter(field, Shown(s, p, shown)[1]))
  BY <1>7, <1>9 DEF At
<1>12. QED
  BY <1>10, <1>11 DEF new, acc, row, shown, wrote

(* A heading without figures opens its section.                            *)
LEMMA HeadingRow ==
    ASSUME NEW s, Listed(s), NEW p, NEW D, NEW section, NEW pending,
           NEW head \in Heads, NEW label \in Headings
    PROVE  WalkRow(At(s, p, D, section, pending), Heading(head, label, s))
             = At(s, p, D, SectionFor(label), "none")
<1>n. PICK n \in Nat : DOMAIN s = 1 .. n
  BY DEF Listed
<1> USE <1>n
<1> DEFINE values == [i \in DOMAIN s |-> Empty]
           row == Heading(head, label, s)
           acc == At(s, p, D, section, pending)
<1>1. values = [i \in 1 .. n |-> values[i]] /\ row = Labelled(head, label, values)
  BY DEF Heading
<1>2. \A i \in DOMAIN values : values[i].kind = "blank"
  BY CellFacts
<1> HIDE DEF values, row
<1>3. RowLabel(row) = label /\ DataValues(row, n) = values /\ ~Continues(row)
  BY <1>1, LabelledRow
<1>4. Len(acc.fields) = n
  BY ShownFacts DEF At
<1>5. acc = [fields |-> Shown(s, p, D), section |-> section, pending |-> pending]
  BY DEF At
<1> HIDE DEF acc
<1>6. WalkRow(acc, row) = [acc EXCEPT !.section = SectionFor(label), !.pending = "none"]
  BY <1>2, <1>3, <1>4 DEF WalkRow
<1>7. QED
  BY <1>5, <1>6 DEF At, acc, row

(* A row that is neither a field nor a heading is passed over, and so is   *)
(* one whose figures are of no field here.                                 *)
LEMMA OtherRow ==
    ASSUME NEW acc, NEW row, ~Continues(row), RowLabel(row) \notin Headings,
           FieldFor(RowLabel(row), acc.section) = "none"
    PROVE  WalkRow(acc, row) = acc
BY DEF WalkRow

(* A row of figures that have no field here changes nothing.               *)
LEMMA NoiseRow ==
    ASSUME NEW s, Listed(s), NEW acc, NEW label, label \notin Headings,
           FieldFor(label, acc.section) = "none"
    PROVE  WalkRow(acc, Noise(label, s)) = acc
<1>n. PICK n \in Nat : DOMAIN s = 1 .. n
  BY DEF Listed
<1> USE <1>n
<1> DEFINE values == [i \in DOMAIN s |-> Figure(<<"", "">>)]
<1>1. values = [i \in 1 .. n |-> values[i]] /\ Noise(label, s) = Labelled(<<>>, label, values)
  BY DEF Noise
<1> HIDE DEF values
<1>2. RowLabel(Noise(label, s)) = label /\ ~Continues(Noise(label, s))
  BY <1>1, LabelledRow DEF Heads
<1>3. QED
  BY <1>2, OtherRow

(* The yields in parentheses under a price are shown in the field the price*)
(* left pending; if all of them are blank there is nothing to show         *)
(* (_trailing).                                                            *)
LEMMA BelowRow ==
    ASSUME NEW s, Listed(s), s # <<>>, NEW p, NEW D, NEW section,
           NEW field \in Fields, NEW lead \in Seq({Empty})
    PROVE  \E pending : WalkRow(At(s, p, D, section, field), Below(lead, s, p, field))
                          = At(s, p, Also(D, field), section, pending)
<1>n. PICK n \in Nat : DOMAIN s = 1 .. n
  BY DEF Listed
<1> USE <1>n
<1> DEFINE values == [i \in DOMAIN s |-> Paren(p[s[i]][field])]
           row == Below(lead, s, p, field)
           acc == At(s, p, D, section, field)
           S == {Empty} \cup {values[i] : i \in 1 .. n}
<1>0. field # "none"
  BY DEF Fields
<1>1. row = lead \o values /\ \A i \in 1 .. n : values[i] = Paren(p[s[i]][field])
  BY DEF Below
<1>2. values \in [1 .. n -> S] /\ Empty \in S /\ DOMAIN values = 1 .. n
  OBVIOUS
<1> HIDE DEF S, values, row
<1>3. values \in Seq(S) /\ Len(values) = n /\ lead \in Seq(S)
  BY <1>2
<1>4. Trailing(row, n) = values
  BY <1>1, <1>3, ContinuationAligned
<1>5. /\ DOMAIN row = 1 .. Len(lead) + n /\ Len(lead) \in Nat
      /\ \A i \in 1 .. Len(lead) : row[i] = Empty
      /\ \A i \in 1 .. n : row[Len(lead) + i] = values[i]
  <2>1. Len(lead) \in Nat /\ \A i \in 1 .. Len(lead) : lead[i] = Empty
    <3>1. \A i \in 1 .. Len(lead) : lead[i] \in {Empty}
      OBVIOUS
    <3>2. QED
      BY <3>1
  <2>2. /\ DOMAIN (lead \o values) = 1 .. Len(lead) + n
        /\ \A i \in 1 .. Len(lead) : (lead \o values)[i] = lead[i]
        /\ \A i \in 1 .. n : (lead \o values)[Len(lead) + i] = values[i]
    BY <1>3
  <2>3. QED
    BY <1>1, <2>1, <2>2
<1>6. \A i \in DOMAIN row : row[i].kind \in {"blank", "paren"}
  <2>1. TAKE i \in DOMAIN row
  <2>2. CASE i <= Len(lead)
    BY <1>5, <2>2, CellFacts
  <2>3. CASE i > Len(lead)
    <3>1. i - Len(lead) \in 1 .. n /\ Len(lead) + (i - Len(lead)) = i
      BY <1>5, <2>3
    <3>2. QED
      BY <1>1, <1>5, <3>1, CellFacts
  <2>4. QED
    BY <1>5, <2>2, <2>3
<1>7. /\ acc.fields = Shown(s, p, D) /\ acc.section = section /\ acc.pending = field
      /\ Len(acc.fields) = n
      /\ acc = [fields |-> Shown(s, p, D), section |-> section, pending |-> field]
  BY ShownFacts DEF At
<1> HIDE DEF acc
<1>8. Written(acc.fields, values, field, "paren") = Shown(s, p, Also(D, field))
  <2>1. \A i \in DOMAIN s : /\ p[s[i]][field] = NoFigure => values[i].kind # "paren"
                            /\ p[s[i]][field] # NoFigure =>
                                  values[i].kind = "paren" /\ values[i].figure = p[s[i]][field]
    BY <1>1, CellFacts
  <2>2. QED
    BY <1>2, <1>7, <2>1, WrittenShown
<1>9. CASE ~IsBlankRow(row)
  <2>1. Continues(row)
    BY <1>6, <1>9 DEF Continues
  <2>2. WalkRow(acc, row) = [acc EXCEPT !.fields = Shown(s, p, Also(D, field)), !.pending = "none"]
    BY <1>4, <1>7, <1>8, <2>1 DEF WalkRow
  <2>3. WalkRow(acc, row) = At(s, p, Also(D, field), section, "none")
    BY <1>7, <2>2 DEF At
  <2>4. QED
    BY <2>3 DEF acc, row
<1>10. CASE IsBlankRow(row)
  <2>1. DataStart(row) = {}
    BY <1>10 DEF IsBlankRow, IsBlank, DataStart
  <2>2. RowLabel(row) = "" /\ ~Continues(row)
    BY <1>10, <2>1 DEF RowLabel, Continues
  <2>3. "" \notin Headings /\ FieldFor("", section) = "none"
    BY DEF Headings, Percentages, FieldFor, DirectField, SubRow, SubRowField
  <2>4. WalkRow(acc, row) = acc
    BY <1>7, <2>2, <2>3, OtherRow
  <2>5. \A i \in 1 .. n : p[s[i]][field] = NoFigure
    <3>1. TAKE i \in 1 .. n
    <3>2. values[i].kind = "blank"
      <4>1. Len(lead) + i \in DOMAIN row /\ row[Len(lead) + i] = values[i]
        BY <1>5
      <4>2. QED
        BY <1>10, <4>1 DEF IsBlankRow, IsBlank
    <3>3. QED
      BY <1>1, <3>2, CellFacts
  <2>6. Shown(s, p, D) = Shown(s, p, Also(D, field))
    <3>1. ASSUME NEW i \in DOMAIN s
          PROVE  [f \in Fields |-> IF f \in D THEN p[s[i]][f] ELSE NoFigure]
                   = [f \in Fields |-> IF f \in Also(D, field) THEN p[s[i]][f] ELSE NoFigure]
      BY <2>5 DEF Also
    <3>2. QED
      BY <3>1 DEF Shown, Also
  <2>7. QED
    BY <1>7, <2>4, <2>6 DEF At, acc, row
<1>11. QED
  BY <1>9, <1>10

(* What the labels of a release stand for: a field of their own, in every  *)
(* section; a field in the section of the row; nothing.                    *)
Directly(label, field) == \A section : FieldFor(label, section) = field

(* The field of each label of a release, in the sections where it is       *)
(* printed.                                                                *)
LEMMA LabelFields ==
    /\ Directly("notified amount", "notified_amount_cr")
    /\ Directly("cut-off price", "cut_off_price") /\ Directly("cut-off yield", "cut_off_yield")
    /\ Directly("weighted average price", "wavg_price")
    /\ Directly("weighted average yield", "wavg_yield")
    /\ \A label \in Percentages : Directly(label, "partial_allotment_pct")
    /\ FieldFor("(i) number", "received") = "bids_received_count"
    /\ FieldFor("(ii) amount", "accepted") = "bids_accepted_amount_cr"
    /\ FieldFor("(i) percentage", "partial") = "partial_allotment_pct"
    /\ FieldFor("(i) number", "none") = "none" /\ FieldFor("(ii) amount", "none") = "none"
    /\ FieldFor("(ii) number", "partial") = "none"
    /\ Directly("(bids)", "none") /\ Directly("percentage", "none")
    /\ Directly("(iii) partial allotment percentage", "none")
    /\ Directly("(amount in crore)", "none") /\ Directly("auction results", "none")
<1>1. \A label \in Percentages : Directly(label, "partial_allotment_pct")
  BY DEF Directly, FieldFor, DirectField, Percentages
<1>2. /\ Directly("notified amount", "notified_amount_cr")
      /\ Directly("cut-off price", "cut_off_price") /\ Directly("cut-off yield", "cut_off_yield")
      /\ Directly("weighted average price", "wavg_price")
      /\ Directly("weighted average yield", "wavg_yield")
  BY DEF Directly, FieldFor, DirectField, Percentages
<1>3. /\ FieldFor("(i) number", "received") = "bids_received_count"
      /\ FieldFor("(ii) amount", "accepted") = "bids_accepted_amount_cr"
      /\ FieldFor("(i) percentage", "partial") = "partial_allotment_pct"
  BY DEF FieldFor, DirectField, Percentages, SubRow, SubRowField
<1>4. /\ FieldFor("(i) number", "none") = "none" /\ FieldFor("(ii) amount", "none") = "none"
      /\ FieldFor("(ii) number", "partial") = "none"
  BY DEF FieldFor, DirectField, Percentages, SubRow, SubRowField
<1>5. /\ Directly("(bids)", "none") /\ Directly("percentage", "none")
      /\ Directly("(iii) partial allotment percentage", "none")
      /\ Directly("(amount in crore)", "none") /\ Directly("auction results", "none")
  BY DEF Directly, FieldFor, DirectField, Percentages, SubRow, SubRowField
<1>6. QED
  BY <1>1, <1>2, <1>3, <1>4, <1>5

(* Which labels are headings, and the section each of them opens.          *)
LEMMA LabelSections ==
    /\ \A label \in {"notified amount", "cut-off price", "cut-off yield", "weighted average price",
                     "weighted average yield", "(i) number", "(ii) amount", "(i) percentage",
                     "(ii) number", "(bids)", "percentage", "(iii) partial allotment percentage",
                     "(amount in crore)", "auction results"} : label \notin Headings
    /\ {"competitive bids received", "competitive bids accepted", "non-competitive bids received",
        "non-competitive bids accepted"} \subseteq Headings /\ Percentages \subseteq Headings
    /\ SectionFor("competitive bids received") = "received"
    /\ SectionFor("competitive bids accepted") = "accepted"
    /\ SectionFor("non-competitive bids received") = "none"
    /\ SectionFor("non-competitive bids accepted") = "none"
    /\ \A label \in Percentages : SectionFor(label) = "partial"
    /\ "partial allotment percentage of competitive bids" \in Percentages
    /\ "partial allotment percentage of non-competitive bids" \in Percentages
BY DEF Headings, Percentages, SectionFor

(* The walk has come to the fields D in a section.                         *)
Come(acc, s, p, D, section) == \E pending : acc = At(s, p, D, section, pending)

(* A row of figures adds its field to what the walk has come to, in the    *)
(* section it is in.                                                       *)
LEMMA FigureRow ==
    ASSUME NEW s, Listed(s), NEW p, NEW D, NEW section, NEW acc,
           Come(acc, s, p, D, section),
           NEW head \in Heads, NEW label, NEW field \in Fields, FieldFor(label, section) = field,
           label \notin Headings
    PROVE  Come(WalkRow(acc, Printed(head, label, s, p, field)), s, p, Also(D, field), section)
<1>1. PICK pending : acc = At(s, p, D, section, pending)
  BY DEF Come
<1>2. WalkRow(At(s, p, D, section, pending), Printed(head, label, s, p, field))
        = At(s, p, Also(D, field), section,
                        PendingAfter(field, Shown(s, p, Also(D, field))[1]))
  BY PrintedRow
<1>3. QED
  BY <1>1, <1>2 DEF Come

(* A percentage row adds its field whether or not it opens a section.      *)
LEMMA PercentageRow ==
    ASSUME NEW s, Listed(s), NEW p, NEW D, NEW section, NEW acc,
           Come(acc, s, p, D, section),
           NEW head \in Heads, NEW label, NEW field \in Fields, FieldFor(label, section) = field
    PROVE  \E left :
             Come(WalkRow(acc, Printed(head, label, s, p, field)), s, p, Also(D, field), left)
<1> DEFINE wrote == \E i \in DOMAIN s : p[s[i]][field] # NoFigure
           shown == Also(D, field)
<1>1. PICK pending : acc = At(s, p, D, section, pending)
  BY DEF Come
<1> DEFINE new == WalkRow(At(s, p, D, section, pending), Printed(head, label, s, p, field))
<1>2. /\ wrote \/ label \notin Headings =>
            new = At(s, p, shown, section, PendingAfter(field, Shown(s, p, shown)[1]))
      /\ ~wrote /\ label \in Headings => new = At(s, p, shown, SectionFor(label), "none")
  BY PrintedRow
<1> HIDE DEF wrote, new, shown
<1>3. \E left : Come(new, s, p, shown, left)
  BY <1>2 DEF Come
<1>4. QED
  BY <1>1, <1>3 DEF new, shown

(* A heading takes the walk to its section, from any other.                *)
LEMMA SectionRow ==
    ASSUME NEW s, Listed(s), NEW p, NEW D, NEW section, NEW acc,
           Come(acc, s, p, D, section), NEW head \in Heads, NEW label \in Headings
    PROVE  Come(WalkRow(acc, Heading(head, label, s)), s, p, D, SectionFor(label))
BY HeadingRow DEF Come

(* A row without a field here leaves the walk where it is.                 *)
LEMMA PassedRow ==
    ASSUME NEW s, Listed(s), NEW p, NEW D, NEW section, NEW acc,
           Come(acc, s, p, D, section), NEW label, label \notin Headings,
           FieldFor(label, section) = "none"
    PROVE  Come(WalkRow(acc, Noise(label, s)), s, p, D, section)
<1>1. acc.section = section
  BY DEF Come, At
<1>2. QED
  BY <1>1, NoiseRow

(* A price and the yields below it add both fields, whatever cells stand   *)
(* before the yields and whichever are blank.                              *)
LEMMA PairedRows ==
    ASSUME NEW s, Listed(s), s # <<>>, NEW p, NEW D, NEW section, NEW acc,
           Come(acc, s, p, D, section), NEW head \in Heads, NEW label, NEW price, NEW yield,
           \/ price = "cut_off_price" /\ yield = "cut_off_yield"
           \/ price = "wavg_price" /\ yield = "wavg_yield",
           yield \notin D, FieldFor(label, section) = price, label \notin Headings,
           NEW lead \in Seq({Empty})
    PROVE  Come(WalkRow(WalkRow(acc, Printed(head, label, s, p, price)), Below(lead, s, p, yield)),
                s, p, Also(Also(D, price), yield), section)
<1> DEFINE shown == Also(D, price)
           next == WalkRow(acc, Printed(head, label, s, p, price))
<1>1. price \in Fields /\ yield \in Fields /\ yield \notin shown
  BY DEF Fields, Also
<1>2. Shown(s, p, shown)[1][yield] = NoFigure
  <2>1. PICK n \in Nat : DOMAIN s = 1 .. n
    BY DEF Listed
  <2>2. n > 0
    BY <2>1
  <2>3. QED
    BY <1>1, <2>1, <2>2, ShownFacts
<1>3. PendingAfter(price, Shown(s, p, shown)[1]) = yield
  BY <1>2 DEF PendingAfter
<1>4. next = At(s, p, shown, section, yield)
  <2>1. PICK pending : acc = At(s, p, D, section, pending)
    BY DEF Come
  <2>2. WalkRow(At(s, p, D, section, pending), Printed(head, label, s, p, price))
          = At(s, p, shown, section, PendingAfter(price, Shown(s, p, shown)[1]))
    BY <1>1, PrintedRow
  <2>3. QED
    BY <1>3, <2>1, <2>2
<1> HIDE DEF next, shown
<1>5. \E pending : WalkRow(next, Below(lead, s, p, yield))
                     = At(s, p, Also(shown, yield), section, pending)
  BY <1>1, <1>4, BelowRow
<1>6. QED
  BY <1>5 DEF Come, next, shown

(* A row above the figures: its label is that of its first caption or name.*)
LEMMA TopRow ==
    ASSUME NEW cells, NEW m \in Nat, DOMAIN cells = 1 .. m, NEW k \in 1 .. m,
           cells[k].kind \in {"caption", "name"}, \A j \in 1 .. k - 1 : cells[j].kind = "blank"
    PROVE  RowLabel(cells) = cells[k].word /\ ~Continues(cells)
<1>1. k \in DataStart(cells) /\ DataStart(cells) \subseteq Nat
  BY DEF DataStart
<1>2. \A i \in DataStart(cells) : k <= i
  <2>1. ASSUME NEW i \in DataStart(cells), i < k PROVE FALSE
    BY <2>1 DEF DataStart
  <2>2. QED
    BY <1>1, <2>1
<1>3. LabelAt(cells) = k
  BY <1>1, <1>2 DEF LabelAt
<1>4. QED
  BY <1>1, <1>3 DEF RowLabel, Continues

(* The row of the securities: what names it holds.                         *)
Top(c, s) == <<c>> \o Names(s)

(* The names stand one cell after the first.                               *)
LEMMA NamesFacts ==
    ASSUME NEW n \in Nat, NEW s, DOMAIN s = 1 .. n, NEW c
    PROVE  /\ DOMAIN Top(c, s) = 1 .. n + 1 /\ Top(c, s)[1] = c
           /\ \A i \in 1 .. n : Top(c, s)[i + 1] = Named(s[i])
<1> DEFINE S == {c} \cup {Named(s[i]) : i \in 1 .. n}
           names == Names(s)
<1>1. names = [i \in 1 .. n |-> Named(s[i])]
  BY DEF Names
<1>2. names \in [1 .. n -> S] /\ c \in S
  BY <1>1
<1> HIDE DEF S, names
<1>3. names \in Seq(S) /\ Len(names) = n
  BY <1>2
<1>4. /\ DOMAIN (<<c>> \o names) = 1 .. n + 1 /\ (<<c>> \o names)[1] = c
      /\ \A i \in 1 .. n : (<<c>> \o names)[i + 1] = names[i]
  BY <1>2, <1>3
<1>5. QED
  BY <1>1, <1>4 DEF names, Top

(* The names of the row of the securities are read in their order, whatever*)
(* stands before them.                                                     *)
LEMMA NamesRead ==
    ASSUME NEW n \in Nat, NEW s, DOMAIN s = 1 .. n, NEW c, c.kind \in {"blank", "caption"}
    PROVE  NamesIn(Top(c, s)) = Names(s)
<1> DEFINE row == Top(c, s)
           names == {i \in DOMAIN row : row[i].kind \notin {"blank", "caption"}}
<1>1. /\ DOMAIN row = 1 .. n + 1 /\ row[1] = c
      /\ \A i \in 1 .. n : row[i + 1] = Named(s[i])
  BY NamesFacts
<1>0. Names(s) = [i \in 1 .. n |-> Named(s[i])]
  BY DEF Names
<1> HIDE DEF row
<1>2. names = 2 .. n + 1
  <2>1. ASSUME NEW i \in 2 .. n + 1
        PROVE  i \in names
    <3>1. i - 1 \in 1 .. n /\ i - 1 + 1 = i
      OBVIOUS
    <3>2. row[i] = Named(s[i - 1])
      BY <1>1, <3>1
    <3>3. QED
      BY <1>1, <3>2, CellFacts
  <2>2. 1 \notin names
    BY <1>1
  <2>3. QED
    BY <1>1, <2>1, <2>2
<1> HIDE DEF names
<1>3. Cardinality(names) = n
  <2>1. Cardinality(2 .. n + 1) = IF 2 > n + 1 THEN 0 ELSE (n + 1) - 2 + 1
    BY FS_Interval
  <2>2. QED
    BY <1>2, <2>1
<1>4. ASSUME NEW k \in 1 .. n
      PROVE  row[CHOOSE i \in names : Cardinality({j \in names : j <= i}) = k] = Named(s[k])
  <2>1. ASSUME NEW i \in names
        PROVE  Cardinality({j \in names : j <= i}) = i - 1
    <3>1. {j \in names : j <= i} = 2 .. i /\ i \in Int /\ i >= 2
      <4>1. i \in 2 .. n + 1
        BY <1>2
      <4>2. {j \in 2 .. n + 1 : j <= i} = 2 .. i
        BY <4>1
      <4>3. QED
        BY <1>2, <4>1, <4>2
    <3>2. Cardinality(2 .. i) = IF 2 > i THEN 0 ELSE i - 2 + 1
      BY <3>1, FS_Interval
    <3>3. Cardinality({j \in names : j <= i}) = Cardinality(2 .. i)
      BY <3>1
    <3>4. QED
      BY <3>1, <3>2, <3>3
  <2>2. k + 1 \in names
    BY <1>2
  <2> DEFINE at == CHOOSE i \in names : Cardinality({j \in names : j <= i}) = k
  <2>3. at \in names /\ Cardinality({j \in names : j <= at}) = k
    <3>1. Cardinality({j \in names : j <= k + 1}) = k
      BY <2>1, <2>2
    <3>2. QED
      BY <2>2, <3>1
  <2> HIDE DEF at
  <2>4. at = k + 1
    BY <1>2, <2>1, <2>3
  <2>5. QED
    BY <1>1, <2>4 DEF at
<1>5. NamesIn(row) =
        [k \in 1 .. n |-> row[CHOOSE i \in names : Cardinality({j \in names : j <= i}) = k]]
  BY <1>3 DEF NamesIn, names
<1>6. QED
  BY <1>0, <1>4, <1>5 DEF row

(* The securities of a table are those named in the row above its first    *)
(* notified amount.                                                        *)
IsNotified(row) == RowLabel(row) = "notified amount"

(* They are read from the last row with a name above the first notified    *)
(* amount (_security_columns).                                             *)
LEMMA ColumnsNamed ==
    ASSUME NEW rows, NEW m \in Nat, DOMAIN rows = 1 .. m, NEW top \in Nat, 1 <= top, top < m,
           NamesIn(rows[top]) # <<>>, IsNotified(rows[top + 1]),
           \A r \in 1 .. top : ~IsNotified(rows[r])
    PROVE  SecurityColumns(rows) = NamesIn(rows[top])
<1> DEFINE notified == {r \in DOMAIN rows : IsNotified(rows[r])}
           above == {r \in DOMAIN rows : NamesIn(rows[r]) # <<>> /\ \A i \in notified : r < i}
<1>0. notified \subseteq 1 .. m /\ above \subseteq 1 .. m /\ top + 1 \in 1 .. m
  OBVIOUS
<1>1. top + 1 \in notified /\ \A i \in notified : top < i
  <2>1. top + 1 \in notified
    BY <1>0
  <2>2. ASSUME NEW i \in 1 .. m, i \in notified PROVE top < i
    <3>1. i \notin 1 .. top
      BY <2>2
    <3>2. QED
      BY <3>1
  <2>3. QED
    BY <1>0, <2>1, <2>2
<1>2. top \in above /\ \A r \in above : r <= top
  <2>1. ASSUME NEW r \in 1 .. m, r \in above PROVE r <= top
    <3>1. r < top + 1
      BY <1>1, <2>1
    <3>2. QED
      BY <3>1
  <2> HIDE DEF notified
  <2>2. QED
    BY <1>0, <1>1, <2>1
<1> HIDE DEF notified, above
<1>3. (CHOOSE r \in above : \A i \in above : i <= r) = top
  <2>1. ASSUME NEW r \in 1 .. m, r <= top, top <= r PROVE r = top
    BY <2>1
  <2>2. QED
    BY <1>0, <1>2, <2>1
<1>4. QED
  BY <1>1, <1>2, <1>3 DEF SecurityColumns, IsNotified, notified, above

(* The figures and the section after each row of a walk.                   *)
Walked(rows, securities, w) ==
    /\ w[0] = [fields |-> [k \in DOMAIN securities |-> NoFields],
               section |-> "none", pending |-> "none"]
    /\ \A i \in 0 .. Len(rows) - 1 : w[i + 1] = WalkRow(w[i], rows[i + 1])

(* The recursive function of Walk exists: there is a walk that starts with *)
(* nothing and takes one step for each row.                                *)
LEMMA WalkFold ==
    ASSUME NEW rows, Len(rows) \in Nat, NEW securities
    PROVE  \E w : /\ Walked(rows, securities, w)
                  /\ Walk(rows, securities) =
                       {[security |-> securities[k].word, figures |-> w[Len(rows)].fields[k]] :
                          k \in {j \in DOMAIN securities : w[Len(rows)].fields[j] # NoFields}}
<1> DEFINE none == [fields |-> [k \in DOMAIN securities |-> NoFields],
                    section |-> "none", pending |-> "none"]
           Step(acc, i) == WalkRow(acc, rows[i])
           Grown(n, f) == f = [i \in 0 .. n |-> IF i = 0 THEN none ELSE Step(f[i - 1], i)]
           S == {n \in Nat : \E f : Grown(n, f)}
           R == CHOOSE f : Grown(Len(rows), f)
<1>2. Walk(rows, securities) =
        {[security |-> securities[k].word, figures |-> R[Len(rows)].fields[k]] :
           k \in {j \in DOMAIN securities : R[Len(rows)].fields[j] # NoFields}}
  BY DEF Walk
<1> HIDE DEF Step, none
<1>3. 0 \in S
  <2>1. Grown(0, [i \in 0 .. 0 |-> none])
    OBVIOUS
  <2>2. QED
    BY <2>1
<1>4. ASSUME NEW n \in Nat, n \in S PROVE n + 1 \in S
  <2>1. PICK f : Grown(n, f)
    BY <1>4
  <2> DEFINE g == [i \in 0 .. n + 1 |-> IF i = n + 1 THEN Step(f[n], n + 1) ELSE f[i]]
             h == [i \in 0 .. n + 1 |-> IF i = 0 THEN none ELSE Step(g[i - 1], i)]
  <2>2. \A i \in 0 .. n : g[i] = f[i] /\ f[i] = IF i = 0 THEN none ELSE Step(f[i - 1], i)
    BY <2>1
  <2>3. g[n + 1] = Step(f[n], n + 1) /\ g[n] = f[n]
    OBVIOUS
  <2>4. g = [i \in 0 .. n + 1 |-> g[i]]
    OBVIOUS
  <2> HIDE DEF g
  <2>5. ASSUME NEW i \in 0 .. n + 1
        PROVE  g[i] = IF i = 0 THEN none ELSE Step(g[i - 1], i)
    <3>1. CASE i = n + 1
      BY <2>3, <3>1
    <3>2. CASE i = 0
      BY <2>2, <3>2
    <3>3. CASE i \in 1 .. n
      <4>1. i \in 0 .. n /\ i - 1 \in 0 .. n /\ i # 0
        BY <3>3
      <4>2. QED
        BY <2>2, <4>1
    <3>4. QED
      BY <3>1, <3>2, <3>3
  <2>6. g = h
    BY <2>4, <2>5
  <2>7. Grown(n + 1, g)
    BY <2>6
  <2> HIDE DEF Grown
  <2>8. QED
    BY <2>7
<1>5. Len(rows) \in S
  <2> HIDE DEF S
  <2>1. 0 .. Len(rows) \subseteq S
    BY <1>3, <1>4, UpToInduction
  <2>2. QED
    BY <2>1
<1>6. Grown(Len(rows), R)
  BY <1>5
<1> HIDE DEF R
<1>7. R[0] = none /\ \A i \in 1 .. Len(rows) : R[i] = Step(R[i - 1], i)
  BY <1>6
<1>8. ASSUME NEW i \in 0 .. Len(rows) - 1 PROVE R[i + 1] = Step(R[i], i + 1)
  <2>1. i + 1 \in 1 .. Len(rows) /\ i + 1 - 1 = i
    OBVIOUS
  <2>2. QED
    BY <1>7, <2>1
<1>9. Walked(rows, securities, R)
  BY <1>7, <1>8 DEF Walked, Step, none
<1>10. QED
  BY <1>2, <1>9

(* The rows above the figures are passed over.                             *)
LEMMA CaptionRow ==
    ASSUME NEW word
    PROVE  RowLabel(<<Caption(word)>>) = word /\ ~Continues(<<Caption(word)>>)
<1> DEFINE row == <<Caption(word)>>
<1>1. DOMAIN row = 1 .. 1 /\ row[1] = Caption(word)
  OBVIOUS
<1> HIDE DEF row
<1>2. \A j \in 1 .. 1 - 1 : row[j].kind = "blank"
  OBVIOUS
<1>3. 1 \in Nat /\ 1 \in 1 .. 1
  OBVIOUS
<1>4. RowLabel(row) = row[1].word /\ ~Continues(row)
  BY <1>1, <1>2, <1>3, TopRow, CellFacts
<1>5. QED
  BY <1>1, <1>4, CellFacts DEF row

(* The row of the securities under a caption is labelled by the caption.   *)
LEMMA TitleRow ==
    ASSUME NEW s, Listed(s), NEW word
    PROVE  /\ RowLabel(Top(Caption(word), s)) = word
           /\ ~Continues(Top(Caption(word), s))
<1> DEFINE row == Top(Caption(word), s)
<1>n. PICK n \in Nat : DOMAIN s = 1 .. n
  BY DEF Listed
<1>1. DOMAIN row = 1 .. n + 1 /\ row[1] = Caption(word)
  BY <1>n, NamesFacts
<1> HIDE DEF row
<1>2. \A j \in 1 .. 1 - 1 : row[j].kind = "blank"
  OBVIOUS
<1>3. n + 1 \in Nat /\ 1 \in 1 .. n + 1
  BY <1>n
<1>4. RowLabel(row) = row[1].word /\ ~Continues(row)
  BY <1>1, <1>2, <1>3, TopRow, CellFacts
<1>5. QED
  BY <1>1, <1>4, CellFacts DEF row

(* The row of the securities of a state table is labelled by the first of  *)
(* them.                                                                   *)
LEMMA StatesRow ==
    ASSUME NEW s, Listed(s), s # <<>>
    PROVE  RowLabel(Top(Empty, s)) = s[1] /\ ~Continues(Top(Empty, s))
<1> DEFINE row == Top(Empty, s)
<1>n. PICK n \in Nat : DOMAIN s = 1 .. n
  BY DEF Listed
<1>0. n > 0
  BY <1>n
<1>1. DOMAIN row = 1 .. n + 1 /\ row[1] = Empty /\ row[1 + 1] = Named(s[1])
  BY <1>n, <1>0, NamesFacts
<1> HIDE DEF row
<1>2. \A j \in 1 .. 2 - 1 : row[j].kind = "blank"
  BY <1>1, CellFacts
<1>3. n + 1 \in Nat /\ 2 \in 1 .. n + 1 /\ row[2] = Named(s[1])
  BY <1>n, <1>0, <1>1
<1>4. RowLabel(row) = row[2].word /\ ~Continues(row)
  BY <1>1, <1>2, <1>3, TopRow, CellFacts
<1>5. QED
  BY <1>3, <1>4, CellFacts DEF row

(* No security is taken for a label.                                       *)
LEMMA NameFields ==
    ASSUME NEW word, IsName(word)
    PROVE  FieldFor(word, "none") = "none" /\ word \notin Headings /\ word # "notified amount"
BY DEF IsName, FieldFor, DirectField, SubRowField

(* A walk of the table of a priced release ends with every field it        *)
(* publishes: row by row, what the walk has come to.                       *)
LEMMA PricedWalk ==
    ASSUME NEW s, Listed(s), s # <<>>, NEW p, NEW lead \in Seq({Empty}),
           NEW securities, DOMAIN securities = DOMAIN s, NEW w, Walked(PricedTable(lead, s, p), securities, w)
    PROVE  w[20].fields = Shown(s, p, PricedFields)
<1>1. /\ w[0] = [fields |-> [k \in DOMAIN securities |-> NoFields],
                 section |-> "none", pending |-> "none"]
      /\ w[1] = WalkRow(w[0], <<Caption("(amount in crore)")>>)
      /\ w[2] = WalkRow(w[1], <<Caption("auction results")>> \o Names(s))
      /\ w[3] = WalkRow(w[2], Printed(<<Roman>>, "notified amount", s, p, "notified_amount_cr"))
      /\ w[4] = WalkRow(w[3], Heading(<<Roman>>, "competitive bids received", s))
      /\ w[5] = WalkRow(w[4], Printed(<<>>, "(i) number", s, p, "bids_received_count"))
      /\ w[6] = WalkRow(w[5], Printed(<<Roman>>, "cut-off price", s, p, "cut_off_price"))
      /\ w[7] = WalkRow(w[6], Below(lead, s, p, "cut_off_yield"))
      /\ w[8] = WalkRow(w[7], Heading(<<Roman>>, "competitive bids accepted", s))
      /\ w[9] = WalkRow(w[8], Printed(<<>>, "(ii) amount", s, p, "bids_accepted_amount_cr"))
      /\ w[10] = WalkRow(w[9], Printed(<<Roman>>, "partial allotment percentage of competitive bids", s, p,
                                        "partial_allotment_pct"))
      /\ w[11] = WalkRow(w[10], Noise("(bids)", s))
      /\ w[12] = WalkRow(w[11], Printed(<<Roman>>, "weighted average price", s, p, "wavg_price"))
      /\ w[13] = WalkRow(w[12], Below(lead, s, p, "wavg_yield"))
      /\ w[14] = WalkRow(w[13], Heading(<<Roman>>, "non-competitive bids received", s))
      /\ w[15] = WalkRow(w[14], Noise("(i) number", s))
      /\ w[16] = WalkRow(w[15], Noise("(ii) amount", s))
      /\ w[17] = WalkRow(w[16], Heading(<<Roman>>, "non-competitive bids accepted", s))
      /\ w[18] = WalkRow(w[17], Noise("(i) number", s))
      /\ w[19] = WalkRow(w[18], Noise("(ii) amount", s))
      /\ w[20] = WalkRow(w[19], Noise("(iii) partial allotment percentage", s))
  <2> DEFINE rows == PricedTable(lead, s, p)
  <2>1. Len(rows) = 20
    BY DEF PricedTable
  <2> HIDE DEF rows
  <2>2. \A i \in 0 .. 19 : w[i + 1] = WalkRow(w[i], rows[i + 1])
    BY <2>1 DEF Walked, rows
  <2>3. /\ w[1] = WalkRow(w[0], rows[1]) /\ w[2] = WalkRow(w[1], rows[2])
        /\ w[3] = WalkRow(w[2], rows[3]) /\ w[4] = WalkRow(w[3], rows[4])
        /\ w[5] = WalkRow(w[4], rows[5]) /\ w[6] = WalkRow(w[5], rows[6])
        /\ w[7] = WalkRow(w[6], rows[7]) /\ w[8] = WalkRow(w[7], rows[8])
        /\ w[9] = WalkRow(w[8], rows[9]) /\ w[10] = WalkRow(w[9], rows[10])
        /\ w[11] = WalkRow(w[10], rows[11]) /\ w[12] = WalkRow(w[11], rows[12])
        /\ w[13] = WalkRow(w[12], rows[13]) /\ w[14] = WalkRow(w[13], rows[14])
        /\ w[15] = WalkRow(w[14], rows[15]) /\ w[16] = WalkRow(w[15], rows[16])
        /\ w[17] = WalkRow(w[16], rows[17]) /\ w[18] = WalkRow(w[17], rows[18])
        /\ w[19] = WalkRow(w[18], rows[19]) /\ w[20] = WalkRow(w[19], rows[20])
    BY <2>2
  <2>4. QED
    BY <2>3 DEF Walked, rows, PricedTable
<1> DEFINE D0 == {}
           D1 == Also(D0, "notified_amount_cr")
           D2 == Also(D1, "bids_received_count")
           D3 == Also(D2, "cut_off_price")
           D4 == Also(D3, "cut_off_yield")
           D5 == Also(D4, "bids_accepted_amount_cr")
           D6 == Also(D5, "partial_allotment_pct")
           D7 == Also(D6, "wavg_price")
           D8 == Also(D7, "wavg_yield")
<1>2. D8 = PricedFields
  BY DEF Also, PricedFields, StateFields, Fields
<1> HIDE DEF D0, D1, D2, D3, D4, D5, D6, D7, D8
<1>3. \A f \in {"notified_amount_cr", "bids_received_count", "cut_off_price", "cut_off_yield",
                "bids_accepted_amount_cr", "partial_allotment_pct", "wavg_price", "wavg_yield"} : f \in Fields
  BY DEF Fields
<1>4. <<>> \in Heads /\ <<Roman>> \in Heads
  BY DEF Heads
<1>5. Come(w[0], s, p, D0, "none")
  <2>1. [k \in DOMAIN s |-> NoFields] = Shown(s, p, D0)
    BY DEF Shown, NoFields, D0
  <2>2. QED
    BY <2>1, <1>1 DEF Come, At
<1>6. Come(w[1], s, p, D0, "none")
  <2>1. /\ FieldFor("(amount in crore)", "none") = "none"
        /\ "(amount in crore)" \notin Headings
    BY LabelFields, LabelSections DEF Directly
  <2>2. w[0].section = "none"
    BY <1>5 DEF Come, At
  <2>3. QED
    BY <1>5, <2>1, <2>2, CaptionRow, OtherRow, <1>1
<1>7. Come(w[2], s, p, D0, "none")
  <2>1. /\ FieldFor("auction results", "none") = "none"
        /\ "auction results" \notin Headings
    BY LabelFields, LabelSections DEF Directly
  <2>2. w[1].section = "none"
    BY <1>6 DEF Come, At
  <2>3. QED
    BY <1>6, <2>1, <2>2, TitleRow, OtherRow, <1>1 DEF Top
<1>8. Come(w[3], s, p, D1, "none")
  <2>1. /\ FieldFor("notified amount", "none") = "notified_amount_cr"
        /\ "notified amount" \notin Headings
    BY LabelFields, LabelSections DEF Directly
  <2>2. QED
    BY <1>7, <1>3, <1>4, <2>1, <1>1, FigureRow DEF D1
<1>9. Come(w[4], s, p, D1, "received")
  <2>1. /\ "competitive bids received" \in Headings
        /\ SectionFor("competitive bids received") = "received"
    BY LabelSections
  <2>2. QED
    BY <1>8, <1>4, <2>1, <1>1, SectionRow
<1>10. Come(w[5], s, p, D2, "received")
  <2>1. /\ FieldFor("(i) number", "received") = "bids_received_count"
        /\ "(i) number" \notin Headings
    BY LabelFields, LabelSections DEF Directly
  <2>2. QED
    BY <1>9, <1>3, <1>4, <2>1, <1>1, FigureRow DEF D2
<1>11. Come(w[7], s, p, D4, "received")
  <2>1. "cut_off_yield" \notin D2
    BY DEF Also, D0, D1, D2
  <2>2. /\ FieldFor("cut-off price", "received") = "cut_off_price"
        /\ "cut-off price" \notin Headings
    BY LabelFields, LabelSections DEF Directly
  <2>3. QED
    BY <1>10, <1>4, <2>1, <2>2, <1>1, PairedRows DEF D3, D4
<1>13. Come(w[8], s, p, D4, "accepted")
  <2>1. /\ "competitive bids accepted" \in Headings
        /\ SectionFor("competitive bids accepted") = "accepted"
    BY LabelSections
  <2>2. QED
    BY <1>11, <1>4, <2>1, <1>1, SectionRow
<1>14. Come(w[9], s, p, D5, "accepted")
  <2>1. /\ FieldFor("(ii) amount", "accepted") = "bids_accepted_amount_cr"
        /\ "(ii) amount" \notin Headings
    BY LabelFields, LabelSections DEF Directly
  <2>2. QED
    BY <1>13, <1>3, <1>4, <2>1, <1>1, FigureRow DEF D5
<1>15. PICK left : Come(w[10], s, p, D6, left)
  <2>1. FieldFor("partial allotment percentage of competitive bids", "accepted") = "partial_allotment_pct"
    BY LabelFields, LabelSections DEF Directly
  <2>2. \E left : Come(WalkRow(w[9], Printed(<<Roman>>, "partial allotment percentage of competitive bids",
                                           s, p, "partial_allotment_pct")),
                       s, p, D6, left)
    BY <1>14, <1>3, <1>4, <2>1, PercentageRow DEF D6
  <2>3. QED
    BY <1>1, <2>2
<1>16. Come(w[11], s, p, D6, left)
  <2>1. FieldFor("(bids)", left) = "none" /\ "(bids)" \notin Headings
    <3>1. Directly("(bids)", "none") /\ "(bids)" \notin Headings
      BY LabelFields, LabelSections
    <3>2. QED
      BY <3>1 DEF Directly
  <2>2. QED
    BY <1>15, <2>1, <1>1, PassedRow
<1>17. Come(w[13], s, p, D8, left)
  <2>1. "wavg_yield" \notin D6
    BY DEF Also, D0, D1, D2, D3, D4, D5, D6
  <2>2. /\ FieldFor("weighted average price", left) = "wavg_price"
        /\ "weighted average price" \notin Headings
    <3>1. /\ Directly("weighted average price", "wavg_price")
          /\ "weighted average price" \notin Headings
      BY LabelFields, LabelSections
    <3>2. QED
      BY <3>1 DEF Directly
  <2>3. QED
    BY <1>16, <1>4, <2>1, <2>2, <1>1, PairedRows DEF D7, D8
<1>19. Come(w[14], s, p, D8, "none")
  <2>1. /\ "non-competitive bids received" \in Headings
        /\ SectionFor("non-competitive bids received") = "none"
    BY LabelSections
  <2>2. QED
    BY <1>17, <1>4, <2>1, <1>1, SectionRow
<1>20. Come(w[15], s, p, D8, "none")
  <2>1. FieldFor("(i) number", "none") = "none" /\ "(i) number" \notin Headings
    BY LabelFields, LabelSections DEF Directly
  <2>2. QED
    BY <1>19, <2>1, <1>1, PassedRow
<1>21. Come(w[16], s, p, D8, "none")
  <2>1. FieldFor("(ii) amount", "none") = "none" /\ "(ii) amount" \notin Headings
    BY LabelFields, LabelSections DEF Directly
  <2>2. QED
    BY <1>20, <2>1, <1>1, PassedRow
<1>22. Come(w[17], s, p, D8, "none")
  <2>1. /\ "non-competitive bids accepted" \in Headings
        /\ SectionFor("non-competitive bids accepted") = "none"
    BY LabelSections
  <2>2. QED
    BY <1>21, <1>4, <2>1, <1>1, SectionRow
<1>23. Come(w[18], s, p, D8, "none")
  <2>1. FieldFor("(i) number", "none") = "none" /\ "(i) number" \notin Headings
    BY LabelFields, LabelSections DEF Directly
  <2>2. QED
    BY <1>22, <2>1, <1>1, PassedRow
<1>24. Come(w[19], s, p, D8, "none")
  <2>1. FieldFor("(ii) amount", "none") = "none" /\ "(ii) amount" \notin Headings
    BY LabelFields, LabelSections DEF Directly
  <2>2. QED
    BY <1>23, <2>1, <1>1, PassedRow
<1>25. Come(w[20], s, p, D8, "none")
  <2>1. /\ FieldFor("(iii) partial allotment percentage", "none") = "none"
        /\ "(iii) partial allotment percentage" \notin Headings
    BY LabelFields, LabelSections DEF Directly
  <2>2. QED
    BY <1>24, <2>1, <1>1, PassedRow
<1>26. QED
  BY <1>2, <1>25 DEF Come, At

(* A walk of the table of a state release ends with every field it         *)
(* publishes.                                                              *)
LEMMA StateWalk ==
    ASSUME NEW s, Listed(s), s # <<>>, NEW p, IsName(s[1]),
           NEW securities, DOMAIN securities = DOMAIN s, NEW w, Walked(StateTable(s, p), securities, w)
    PROVE  w[20].fields = Shown(s, p, StateFields)
<1>1. /\ w[0] = [fields |-> [k \in DOMAIN securities |-> NoFields],
                 section |-> "none", pending |-> "none"]
      /\ w[1] = WalkRow(w[0], <<Empty>> \o Names(s))
      /\ w[2] = WalkRow(w[1], Printed(<<>>, "notified amount", s, p, "notified_amount_cr"))
      /\ w[3] = WalkRow(w[2], Heading(<<>>, "competitive bids received", s))
      /\ w[4] = WalkRow(w[3], Printed(<<>>, "(i) number", s, p, "bids_received_count"))
      /\ w[5] = WalkRow(w[4], Printed(<<>>, "cut-off yield", s, p, "cut_off_yield"))
      /\ w[6] = WalkRow(w[5], Printed(<<>>, "cut-off price", s, p, "cut_off_price"))
      /\ w[7] = WalkRow(w[6], Heading(<<>>, "competitive bids accepted", s))
      /\ w[8] = WalkRow(w[7], Printed(<<>>, "(ii) amount", s, p, "bids_accepted_amount_cr"))
      /\ w[9] = WalkRow(w[8], Heading(<<>>, "partial allotment percentage of competitive bids", s))
      /\ w[10] = WalkRow(w[9], Printed(<<>>, "(i) percentage", s, p, "partial_allotment_pct"))
      /\ w[11] = WalkRow(w[10], Noise("(ii) number", s))
      /\ w[12] = WalkRow(w[11], Heading(<<>>, "non-competitive bids received", s))
      /\ w[13] = WalkRow(w[12], Noise("(i) number", s))
      /\ w[14] = WalkRow(w[13], Noise("(ii) amount", s))
      /\ w[15] = WalkRow(w[14], Heading(<<>>, "non-competitive bids accepted", s))
      /\ w[16] = WalkRow(w[15], Noise("(i) number", s))
      /\ w[17] = WalkRow(w[16], Noise("(ii) amount", s))
      /\ w[18] = WalkRow(w[17], Heading(<<>>, "partial allotment percentage of non-competitive bids", s))
      /\ w[19] = WalkRow(w[18], Noise("percentage", s))
      /\ w[20] = WalkRow(w[19], Printed(<<>>, "weighted average yield", s, p, "wavg_yield"))
  <2> DEFINE rows == StateTable(s, p)
  <2>1. Len(rows) = 20
    BY DEF StateTable
  <2> HIDE DEF rows
  <2>2. \A i \in 0 .. 19 : w[i + 1] = WalkRow(w[i], rows[i + 1])
    BY <2>1 DEF Walked, rows
  <2>3. /\ w[1] = WalkRow(w[0], rows[1]) /\ w[2] = WalkRow(w[1], rows[2])
        /\ w[3] = WalkRow(w[2], rows[3]) /\ w[4] = WalkRow(w[3], rows[4])
        /\ w[5] = WalkRow(w[4], rows[5]) /\ w[6] = WalkRow(w[5], rows[6])
        /\ w[7] = WalkRow(w[6], rows[7]) /\ w[8] = WalkRow(w[7], rows[8])
        /\ w[9] = WalkRow(w[8], rows[9]) /\ w[10] = WalkRow(w[9], rows[10])
        /\ w[11] = WalkRow(w[10], rows[11]) /\ w[12] = WalkRow(w[11], rows[12])
        /\ w[13] = WalkRow(w[12], rows[13]) /\ w[14] = WalkRow(w[13], rows[14])
        /\ w[15] = WalkRow(w[14], rows[15]) /\ w[16] = WalkRow(w[15], rows[16])
        /\ w[17] = WalkRow(w[16], rows[17]) /\ w[18] = WalkRow(w[17], rows[18])
        /\ w[19] = WalkRow(w[18], rows[19]) /\ w[20] = WalkRow(w[19], rows[20])
    BY <2>2
  <2>4. QED
    BY <2>3 DEF Walked, rows, StateTable
<1> DEFINE D0 == {}
           D1 == Also(D0, "notified_amount_cr")
           D2 == Also(D1, "bids_received_count")
           D3 == Also(D2, "cut_off_yield")
           D4 == Also(D3, "cut_off_price")
           D5 == Also(D4, "bids_accepted_amount_cr")
           D6 == Also(D5, "partial_allotment_pct")
           D7 == Also(D6, "wavg_yield")
<1>2. D7 = StateFields
  BY DEF Also, PricedFields, StateFields, Fields
<1> HIDE DEF D0, D1, D2, D3, D4, D5, D6, D7
<1>3. \A f \in {"notified_amount_cr", "bids_received_count", "cut_off_yield", "cut_off_price",
                "bids_accepted_amount_cr", "partial_allotment_pct", "wavg_yield"} : f \in Fields
  BY DEF Fields
<1>4. <<>> \in Heads /\ <<Roman>> \in Heads
  BY DEF Heads
<1>5. Come(w[0], s, p, D0, "none")
  <2>1. [k \in DOMAIN s |-> NoFields] = Shown(s, p, D0)
    BY DEF Shown, NoFields, D0
  <2>2. QED
    BY <2>1, <1>1 DEF Come, At
<1>6. Come(w[1], s, p, D0, "none")
  <2>1. FieldFor(s[1], "none") = "none" /\ s[1] \notin Headings
    BY NameFields
  <2>2. w[0].section = "none"
    BY <1>5 DEF Come, At
  <2>3. QED
    BY <1>5, <2>1, <2>2, StatesRow, OtherRow, <1>1 DEF Top
<1>7. Come(w[2], s, p, D1, "none")
  <2>1. /\ FieldFor("notified amount", "none") = "notified_amount_cr"
        /\ "notified amount" \notin Headings
    BY LabelFields, LabelSections DEF Directly
  <2>2. QED
    BY <1>6, <1>3, <1>4, <2>1, <1>1, FigureRow DEF D1
<1>8. Come(w[3], s, p, D1, "received")
  <2>1. /\ "competitive bids received" \in Headings
        /\ SectionFor("competitive bids received") = "received"
    BY LabelSections
  <2>2. QED
    BY <1>7, <1>4, <2>1, <1>1, SectionRow
<1>9. Come(w[4], s, p, D2, "received")
  <2>1. /\ FieldFor("(i) number", "received") = "bids_received_count"
        /\ "(i) number" \notin Headings
    BY LabelFields, LabelSections DEF Directly
  <2>2. QED
    BY <1>8, <1>3, <1>4, <2>1, <1>1, FigureRow DEF D2
<1>10. Come(w[5], s, p, D3, "received")
  <2>1. /\ FieldFor("cut-off yield", "received") = "cut_off_yield"
        /\ "cut-off yield" \notin Headings
    BY LabelFields, LabelSections DEF Directly
  <2>2. QED
    BY <1>9, <1>3, <1>4, <2>1, <1>1, FigureRow DEF D3
<1>11. Come(w[6], s, p, D4, "received")
  <2>1. /\ FieldFor("cut-off price", "received") = "cut_off_price"
        /\ "cut-off price" \notin Headings
    BY LabelFields, LabelSections DEF Directly
  <2>2. QED
    BY <1>10, <1>3, <1>4, <2>1, <1>1, FigureRow DEF D4
<1>12. Come(w[7], s, p, D4, "accepted")
  <2>1. /\ "competitive bids accepted" \in Headings
        /\ SectionFor("competitive bids accepted") = "accepted"
    BY LabelSections
  <2>2. QED
    BY <1>11, <1>4, <2>1, <1>1, SectionRow
<1>13. Come(w[8], s, p, D5, "accepted")
  <2>1. /\ FieldFor("(ii) amount", "accepted") = "bids_accepted_amount_cr"
        /\ "(ii) amount" \notin Headings
    BY LabelFields, LabelSections DEF Directly
  <2>2. QED
    BY <1>12, <1>3, <1>4, <2>1, <1>1, FigureRow DEF D5
<1>14. Come(w[9], s, p, D5, "partial")
  <2>1. /\ "partial allotment percentage of competitive bids" \in Headings
        /\ SectionFor("partial allotment percentage of competitive bids") = "partial"
    BY LabelSections
  <2>2. QED
    BY <1>13, <1>4, <2>1, <1>1, SectionRow
<1>15. Come(w[10], s, p, D6, "partial")
  <2>1. /\ FieldFor("(i) percentage", "partial") = "partial_allotment_pct"
        /\ "(i) percentage" \notin Headings
    BY LabelFields, LabelSections DEF Directly
  <2>2. QED
    BY <1>14, <1>3, <1>4, <2>1, <1>1, FigureRow DEF D6
<1>16. Come(w[11], s, p, D6, "partial")
  <2>1. FieldFor("(ii) number", "partial") = "none" /\ "(ii) number" \notin Headings
    BY LabelFields, LabelSections DEF Directly
  <2>2. QED
    BY <1>15, <2>1, <1>1, PassedRow
<1>17. Come(w[12], s, p, D6, "none")
  <2>1. /\ "non-competitive bids received" \in Headings
        /\ SectionFor("non-competitive bids received") = "none"
    BY LabelSections
  <2>2. QED
    BY <1>16, <1>4, <2>1, <1>1, SectionRow
<1>18. Come(w[13], s, p, D6, "none")
  <2>1. FieldFor("(i) number", "none") = "none" /\ "(i) number" \notin Headings
    BY LabelFields, LabelSections DEF Directly
  <2>2. QED
    BY <1>17, <2>1, <1>1, PassedRow
<1>19. Come(w[14], s, p, D6, "none")
  <2>1. FieldFor("(ii) amount", "none") = "none" /\ "(ii) amount" \notin Headings
    BY LabelFields, LabelSections DEF Directly
  <2>2. QED
    BY <1>18, <2>1, <1>1, PassedRow
<1>20. Come(w[15], s, p, D6, "none")
  <2>1. /\ "non-competitive bids accepted" \in Headings
        /\ SectionFor("non-competitive bids accepted") = "none"
    BY LabelSections
  <2>2. QED
    BY <1>19, <1>4, <2>1, <1>1, SectionRow
<1>21. Come(w[16], s, p, D6, "none")
  <2>1. FieldFor("(i) number", "none") = "none" /\ "(i) number" \notin Headings
    BY LabelFields, LabelSections DEF Directly
  <2>2. QED
    BY <1>20, <2>1, <1>1, PassedRow
<1>22. Come(w[17], s, p, D6, "none")
  <2>1. FieldFor("(ii) amount", "none") = "none" /\ "(ii) amount" \notin Headings
    BY LabelFields, LabelSections DEF Directly
  <2>2. QED
    BY <1>21, <2>1, <1>1, PassedRow
<1>23. Come(w[18], s, p, D6, "partial")
  <2>1. /\ "partial allotment percentage of non-competitive bids" \in Headings
        /\ SectionFor("partial allotment percentage of non-competitive bids") = "partial"
    BY LabelSections
  <2>2. QED
    BY <1>22, <1>4, <2>1, <1>1, SectionRow
<1>24. Come(w[19], s, p, D6, "partial")
  <2>1. FieldFor("percentage", "partial") = "none" /\ "percentage" \notin Headings
    BY LabelFields, LabelSections DEF Directly
  <2>2. QED
    BY <1>23, <2>1, <1>1, PassedRow
<1>25. Come(w[20], s, p, D7, "partial")
  <2>1. /\ FieldFor("weighted average yield", "partial") = "wavg_yield"
        /\ "weighted average yield" \notin Headings
    BY LabelFields, LabelSections DEF Directly
  <2>2. QED
    BY <1>24, <1>3, <1>4, <2>1, <1>1, FigureRow DEF D7
<1>26. QED
  BY <1>2, <1>25 DEF Come, At

(* A list of empty lists is nothing.                                       *)
LEMMA NothingFlat ==
    ASSUME NEW n \in Nat, NEW seqs, seqs = [i \in 1 .. n |-> <<>>]
    PROVE  FlattenSeq(seqs) = <<>>
<1>1. seqs \in Seq({<<>>}) /\ Len(seqs) = n
  <2>1. seqs \in [1 .. n -> {<<>>}]
    OBVIOUS
  <2>2. QED
    BY <2>1
<1>2. CASE n = 0
  <2>1. seqs = <<>>
    BY <1>1, <1>2
  <2>2. QED
    BY <1>1, <1>2, <2>1 DEF FlattenSeq
<1>3. CASE n > 0
  <2> DEFINE Flat(f) == f = [i \in 1 .. n |-> IF i = 1 THEN seqs[i] ELSE f[i - 1] \o seqs[i]]
             R == CHOOSE f : Flat(f)
             S == {0} \cup {i \in 1 .. n : R[i] = <<>>}
  <2>1. FlattenSeq(seqs) = R[n]
    BY <1>1, <1>3 DEF FlattenSeq
  <2>2. Flat(R)
    <3> DEFINE none == [i \in 1 .. n |-> <<>>]
    <3>1. \A i \in 1 .. n : (IF i = 1 THEN seqs[i] ELSE none[i - 1] \o seqs[i]) = <<>>
      <4>1. TAKE i \in 1 .. n
      <4>2. CASE i = 1
        BY <4>2
      <4>3. CASE i # 1
        <5>1. i - 1 \in 1 .. n
          BY <4>3
        <5>2. none[i - 1] = <<>> /\ seqs[i] = <<>>
          BY <5>1
        <5>3. QED
          BY <4>3, <5>2
      <4>4. QED
        BY <4>2, <4>3
    <3>2. Flat(none)
      BY <3>1
    <3> HIDE DEF Flat, none
    <3>3. QED
      BY <3>2
  <2> HIDE DEF R
  <2>3. \A i \in 0 .. n : i < n /\ i \in S => i + 1 \in S
    <3>1. TAKE i \in 0 .. n
    <3>2. HAVE i < n /\ i \in S
    <3>3. i + 1 \in 1 .. n /\ seqs[i + 1] = <<>>
      BY <3>2
    <3>4. R[i + 1] = IF i + 1 = 1 THEN seqs[i + 1] ELSE R[i + 1 - 1] \o seqs[i + 1]
      BY <2>2, <3>3
    <3>5. CASE i = 0
      BY <3>3, <3>4, <3>5
    <3>6. CASE i # 0
      <4>1. R[i] = <<>> /\ i + 1 - 1 = i /\ i + 1 # 1
        BY <3>2, <3>6
      <4>2. R[i + 1] = <<>> \o <<>>
        BY <3>3, <3>4, <4>1
      <4>3. QED
        BY <3>3, <4>2
    <3>7. QED
      BY <3>5, <3>6
  <2>4. 0 .. n \subseteq S
    <3> HIDE DEF S
    <3>1. 0 \in S
      BY DEF S
    <3>2. QED
      BY <2>3, <3>1, UpToInduction
  <2>5. n \in 0 .. n /\ n # 0
    BY <1>3
  <2>6. QED
    BY <2>1, <2>4, <2>5
<1>4. QED
  BY <1>2, <1>3

(* A table with none inside it has its own rows.                           *)
IsTable(rows) == \E k \in Nat : rows = [i \in 1 .. k |-> rows[i]]

(* Such a table has no row but its own.                                    *)
LEMMA RowsAlone ==
    ASSUME NEW m \in Nat, NEW page, DOMAIN page = 1 .. m, NEW t \in 1 .. m,
           \A u \in 1 .. m : page[u].inside # t,
           IsTable(page[t].rows)
    PROVE  RowsOf(page, t) = page[t].rows
<1> DEFINE rows == page[t].rows
<1>0. PICK k \in Nat : rows = [i \in 1 .. k |-> rows[i]]
  BY DEF IsTable
<1> HIDE DEF rows
<1> DEFINE seqs == [u \in DOMAIN page |-> IF page[u].inside = t THEN page[u].rows ELSE <<>>]
           S == {rows[i] : i \in 1 .. k}
<1>1. seqs = [u \in 1 .. m |-> <<>>]
  OBVIOUS
<1>2. FlattenSeq(seqs) = <<>>
  <2> HIDE DEF seqs
  <2>1. QED
    BY <1>1, NothingFlat
<1>3. rows \in [1 .. k -> S]
  BY <1>0
<1> HIDE DEF S
<1>4. rows \in Seq(S)
  BY <1>3
<1>5. rows \o <<>> = rows
  BY <1>4
<1>6. QED
  BY <1>2, <1>5 DEF RowsOf, rows

(* The rows of the tables.                                                 *)
LEMMA PrintedLabel ==
    ASSUME NEW s, Listed(s), NEW p, NEW head \in Heads, NEW label, NEW field
    PROVE  RowLabel(Printed(head, label, s, p, field)) = label
<1> DEFINE values == [i \in DOMAIN s |-> Figure(p[s[i]][field])]
<1>1. PICK n \in Nat : DOMAIN s = 1 .. n
  BY DEF Listed
<1>2. /\ values = [i \in 1 .. n |-> values[i]]
      /\ Printed(head, label, s, p, field) = Labelled(head, label, values)
  BY <1>1 DEF Printed
<1> HIDE DEF values
<1>3. QED
  BY <1>2, LabelledRow

(* Which rows of a release are labelled a notified amount.                 *)
LEMMA NotifiedRows ==
    ASSUME NEW s, Listed(s), s # <<>>, NEW p
    PROVE  /\ IsNotified(Printed(<<>>, "notified amount", s, p, "notified_amount_cr"))
           /\ IsNotified(Printed(<<Roman>>, "notified amount", s, p, "notified_amount_cr"))
           /\ ~IsNotified(<<Caption("(amount in crore)")>>)
           /\ ~IsNotified(Top(Caption("auction results"), s))
           /\ IsName(s[1]) => ~IsNotified(Top(Empty, s))
<1>1. <<>> \in Heads /\ <<Roman>> \in Heads
  BY DEF Heads
<1>2. /\ RowLabel(Printed(<<>>, "notified amount", s, p, "notified_amount_cr"))
           = "notified amount"
      /\ RowLabel(Printed(<<Roman>>, "notified amount", s, p, "notified_amount_cr"))
           = "notified amount"
  <2>1. \A label, field : /\ RowLabel(Printed(<<>>, label, s, p, field)) = label
                          /\ RowLabel(Printed(<<Roman>>, label, s, p, field)) = label
    BY <1>1, PrintedLabel
  <2>2. QED
    BY <2>1
<1>3. RowLabel(<<Caption("(amount in crore)")>>) = "(amount in crore)"
  BY CaptionRow
<1>4. RowLabel(Top(Caption("auction results"), s)) = "auction results"
  BY TitleRow
<1>5. IsName(s[1]) => RowLabel(Top(Empty, s)) # "notified amount"
  BY StatesRow, NameFields
<1>6. QED
  BY <1>2, <1>3, <1>4, <1>5 DEF IsNotified

(* What is read of the row of the securities.                              *)
LEMMA NamesTop ==
    ASSUME NEW s, Listed(s), s # <<>>, NEW c, c.kind \in {"blank", "caption"}
    PROVE  NamesIn(Top(c, s)) = Names(s) /\ Names(s) # <<>>
<1>1. PICK n \in Nat : DOMAIN s = 1 .. n
  BY DEF Listed
<1>2. NamesIn(Top(c, s)) = Names(s)
  BY <1>1, NamesRead
<1>3. 1 \in DOMAIN Names(s)
  BY <1>1 DEF Names
<1>4. QED
  BY <1>2, <1>3

(* The table of a priced release names its securities and mentions a       *)
(* notified amount.                                                        *)
LEMMA PricedTop ==
    ASSUME NEW s, Listed(s), s # <<>>, NEW p, NEW lead
    PROVE  /\ IsTable(PricedTable(lead, s, p)) /\ Len(PricedTable(lead, s, p)) = 20
           /\ \E i \in DOMAIN PricedTable(lead, s, p) : IsNotified(PricedTable(lead, s, p)[i])
           /\ SecurityColumns(PricedTable(lead, s, p)) = Names(s)
<1> DEFINE rows == PricedTable(lead, s, p)
<1>1. rows = [i \in 1 .. 20 |-> rows[i]] /\ Len(rows) = 20 /\ DOMAIN rows = 1 .. 20
  BY DEF PricedTable
<1>2. /\ /\ rows[1] = <<Caption("(amount in crore)")>>
      /\ rows[2] = Top(Caption("auction results"), s)
      /\ rows[3] = Printed(<<Roman>>, "notified amount", s, p, "notified_amount_cr")
  BY DEF PricedTable, Top
<1> HIDE DEF rows
<1>3. IsNotified(rows[3])
  BY <1>2, NotifiedRows
<1>4. ~IsNotified(rows[1])
  BY <1>2, NotifiedRows
<1>5. ~IsNotified(rows[2])
  BY <1>2, NotifiedRows
<1>6. NamesIn(rows[2]) = Names(s) /\ Names(s) # <<>>
  <2>1. Caption("auction results").kind = "caption"
    BY CellFacts
  <2>2. NamesIn(Top(Caption("auction results"), s)) = Names(s) /\ Names(s) # <<>>
    <3>1. ASSUME NEW c, c.kind = "caption"
          PROVE  NamesIn(Top(c, s)) = Names(s) /\ Names(s) # <<>>
      BY <3>1, NamesTop
    <3>2. QED
      BY <2>1, <3>1
  <2>3. QED
    BY <1>2, <2>2
<1>7. SecurityColumns(rows) = Names(s)
  <2>1. \A r \in 1 .. 2 : ~IsNotified(rows[r])
    BY <1>4, <1>5
  <2>2. IsNotified(rows[2 + 1]) /\ 2 \in Nat /\ 20 \in Nat /\ 1 <= 2 /\ 2 < 20
    BY <1>3
  <2>3. SecurityColumns(rows) = NamesIn(rows[2])
    BY <1>1, <1>6, <2>1, <2>2, ColumnsNamed
  <2>4. QED
    BY <1>6, <2>3
<1>8. QED
  <2>1. IsTable(rows)
    <3>1. 20 \in Nat
      OBVIOUS
    <3>2. QED
      BY <1>1, <3>1 DEF IsTable
  <2>2. \E i \in DOMAIN rows : IsNotified(rows[i])
    BY <1>1, <1>3
  <2>3. QED
    BY <1>1, <1>7, <2>1, <2>2 DEF rows

(* So does each table of a state release.                                  *)
LEMMA StateTop ==
    ASSUME NEW s, Listed(s), s # <<>>, IsName(s[1]), NEW p
    PROVE  /\ IsTable(StateTable(s, p)) /\ Len(StateTable(s, p)) = 20
           /\ \E i \in DOMAIN StateTable(s, p) : IsNotified(StateTable(s, p)[i])
           /\ SecurityColumns(StateTable(s, p)) = Names(s)
<1> DEFINE rows == StateTable(s, p)
<1>1. rows = [i \in 1 .. 20 |-> rows[i]] /\ Len(rows) = 20 /\ DOMAIN rows = 1 .. 20
  BY DEF StateTable
<1>2. /\ rows[1] = Top(Empty, s)
      /\ rows[2] = Printed(<<>>, "notified amount", s, p, "notified_amount_cr")
  BY DEF StateTable, Top
<1> HIDE DEF rows
<1>3. IsNotified(rows[2])
  BY <1>2, NotifiedRows
<1>4. ~IsNotified(rows[1])
  BY <1>2, NotifiedRows
<1>6. NamesIn(rows[1]) = Names(s) /\ Names(s) # <<>>
  <2>1. NamesIn(Top(Empty, s)) = Names(s) /\ Names(s) # <<>>
    BY CellFacts, NamesTop
  <2>2. QED
    BY <1>2, <2>1
<1>7. SecurityColumns(rows) = Names(s)
  <2>1. \A r \in 1 .. 1 : ~IsNotified(rows[r])
    BY <1>4
  <2>2. IsNotified(rows[1 + 1]) /\ 1 \in Nat /\ 20 \in Nat /\ 1 <= 1 /\ 1 < 20
    BY <1>3
  <2>3. SecurityColumns(rows) = NamesIn(rows[1])
    BY <1>1, <1>6, <2>1, <2>2, ColumnsNamed
  <2>4. QED
    BY <1>6, <2>3
<1>8. QED
  <2>1. IsTable(rows)
    <3>1. 20 \in Nat
      OBVIOUS
    <3>2. QED
      BY <1>1, <3>1 DEF IsTable
  <2>2. \E i \in DOMAIN rows : IsNotified(rows[i])
    BY <1>1, <1>3
  <2>3. QED
    BY <1>1, <1>7, <2>1, <2>2 DEF rows

(* The records of the securities of one table.                             *)
RecordsOf(s, p) ==
    {[security |-> s[k], figures |-> p[s[k]]] : k \in {j \in DOMAIN s : p[s[j]] # NoFields}}

Only(s, p, F) ==
    \A i \in DOMAIN s : p[s[i]] = [f \in Fields |-> IF f \in F THEN p[s[i]][f] ELSE NoFigure]

(* A walk that ends with the fields published yields a record for each     *)
(* security that has a figure.                                             *)
LEMMA WalkRecords ==
    ASSUME NEW rows, Len(rows) = 20, NEW s, NEW p, NEW F, Only(s, p, F),
           \A w : Walked(rows, Names(s), w) => w[20].fields = Shown(s, p, F)
    PROVE  Walk(rows, Names(s)) = RecordsOf(s, p)
<1>1. DOMAIN Names(s) = DOMAIN s /\ \A k \in DOMAIN s : Names(s)[k] = Named(s[k])
  BY DEF Names
<1>2. \A k \in DOMAIN s : Shown(s, p, F)[k] = p[s[k]]
  BY DEF Shown, Only
<1>3. Len(rows) \in Nat
  OBVIOUS
<1>4. PICK w : /\ Walked(rows, Names(s), w)
               /\ Walk(rows, Names(s)) =
                    {[security |-> Names(s)[k].word, figures |-> w[Len(rows)].fields[k]] :
                       k \in {j \in DOMAIN Names(s) : w[Len(rows)].fields[j] # NoFields}}
  BY <1>3, WalkFold
<1>5. w[Len(rows)].fields = Shown(s, p, F)
  BY <1>4
<1>6. \A k \in DOMAIN s : Names(s)[k].word = s[k] /\ w[Len(rows)].fields[k] = p[s[k]]
  BY <1>1, <1>2, <1>5, CellFacts
<1>7. QED
  BY <1>1, <1>4, <1>6 DEF RecordsOf

(* So does that of a priced table.                                         *)
LEMMA PricedRecords ==
    ASSUME NEW s, Listed(s), s # <<>>, NEW p, Only(s, p, PricedFields), NEW lead \in Seq({Empty})
    PROVE  Walk(PricedTable(lead, s, p), Names(s)) = RecordsOf(s, p)
<1> DEFINE rows == PricedTable(lead, s, p)
<1>1. Len(rows) = 20
  BY PricedTop
<1>2. DOMAIN Names(s) = DOMAIN s
  BY DEF Names
<1>3. \A w : Walked(rows, Names(s), w) => w[20].fields = Shown(s, p, PricedFields)
  BY <1>2, PricedWalk
<1> HIDE DEF rows
<1>4. Walk(rows, Names(s)) = RecordsOf(s, p)
  BY <1>1, <1>3, WalkRecords
<1>5. QED
  BY <1>4 DEF rows

(* So does that of a state table.                                          *)
LEMMA StateRecords ==
    ASSUME NEW s, Listed(s), s # <<>>, IsName(s[1]), NEW p, Only(s, p, StateFields)
    PROVE  Walk(StateTable(s, p), Names(s)) = RecordsOf(s, p)
<1> DEFINE rows == StateTable(s, p)
<1>1. Len(rows) = 20
  BY StateTop
<1>2. DOMAIN Names(s) = DOMAIN s
  BY DEF Names
<1>3. \A w : Walked(rows, Names(s), w) => w[20].fields = Shown(s, p, StateFields)
  BY <1>2, StateWalk
<1> HIDE DEF rows
<1>4. Walk(rows, Names(s)) = RecordsOf(s, p)
  BY <1>1, <1>3, WalkRecords
<1>5. QED
  BY <1>4 DEF rows

(* What is published, group by group.                                      *)
LayoutFields(release) == IF release.layout = "priced" THEN PricedFields ELSE StateFields

(* Each group of a release is a list of names of which the fields of its   *)
(* layout are published, and no other.                                     *)
LEMMA GroupFacts ==
    ASSUME NEW release, IsRelease(release)
    PROVE  /\ Len(release.groups) \in Nat \ {0} /\ DOMAIN release.groups = 1 .. Len(release.groups)
           /\ \A g \in DOMAIN release.groups :
                /\ Listed(release.groups[g]) /\ release.groups[g] # <<>>
                /\ IsName(release.groups[g][1])
                /\ Only(release.groups[g], Published(release), LayoutFields(release))
<1> DEFINE groups == release.groups
           p == Published(release)
           fields == LayoutFields(release)
<1>1. groups \in Seq(Seq(STRING)) /\ groups # <<>>
  BY DEF IsRelease
<1>2. Len(groups) \in Nat \ {0} /\ DOMAIN groups = 1 .. Len(groups)
  BY <1>1
<1>3. ASSUME NEW g \in DOMAIN groups
      PROVE  /\ Listed(groups[g]) /\ groups[g] # <<>> /\ IsName(groups[g][1])
             /\ \A i \in DOMAIN groups[g] : groups[g][i] \in DOMAIN p
  <2>1. groups[g] \in Seq(STRING)
    BY <1>1
  <2>2. groups[g] # <<>> /\ \A i \in DOMAIN groups[g] : IsName(groups[g][i])
    BY DEF IsRelease
  <2>3. Len(groups[g]) \in Nat /\ DOMAIN groups[g] = 1 .. Len(groups[g])
    BY <2>1
  <2>4. 1 \in DOMAIN groups[g]
    BY <2>1, <2>2, <2>3
  <2>5. DOMAIN p = UNION {ToSet(group) : group \in ToSet(groups)}
    BY DEF Published
  <2>6. /\ groups[g] \in ToSet(groups)
        /\ \A i \in DOMAIN groups[g] : groups[g][i] \in ToSet(groups[g])
    BY DEF ToSet
  <2>7. QED
    BY <2>2, <2>3, <2>4, <2>5, <2>6 DEF Listed
<1>4. ASSUME NEW t \in DOMAIN p
      PROVE  p[t] = [f \in Fields |-> IF f \in fields THEN p[t][f] ELSE NoFigure]
  <2>1. p[t] = [f \in Fields |-> IF f \in fields /\ <<t, f>> \notin release.missing
                                 THEN <<t, f>> ELSE NoFigure]
    BY DEF Published, LayoutFields
  <2> HIDE DEF p, fields
  <2>2. QED
    BY <2>1
<1>5. QED
  BY <1>2, <1>3, <1>4 DEF Only

(* What a release says is what it says of the securities of each of its    *)
(* groups.                                                                 *)
LEMMA PublishedByGroup ==
    ASSUME NEW release, IsRelease(release)
    PROVE  AsPublished(release) =
             UNION {RecordsOf(release.groups[g], Published(release)) : g \in DOMAIN release.groups}
<1> DEFINE groups == release.groups
           p == Published(release)
<1>1. DOMAIN p = UNION {ToSet(group) : group \in ToSet(groups)}
  BY DEF Published
<1>2. \A t : t \in DOMAIN p <=>
        \E g \in DOMAIN groups : \E i \in DOMAIN groups[g] : t = groups[g][i]
  BY <1>1 DEF ToSet
<1> HIDE DEF p
<1>3. \A t \in DOMAIN p : p[t] # NoFields =>
        \E g \in DOMAIN groups : [security |-> t, figures |-> p[t]] \in RecordsOf(groups[g], p)
  BY <1>2 DEF RecordsOf
<1>4. \A g \in DOMAIN groups : \A r \in RecordsOf(groups[g], p) :
        \E t \in DOMAIN p : p[t] # NoFields /\ r = [security |-> t, figures |-> p[t]]
  BY <1>2 DEF RecordsOf
<1>5. AsPublished(release) =
        {[security |-> t, figures |-> p[t]] : t \in {u \in DOMAIN p : p[u] # NoFields}}
  BY DEF AsPublished, p
<1>6. QED
  BY <1>3, <1>4, <1>5 DEF p

(* A table mentions a notified amount if one of its rows does.             *)
LEMMA MentionsFacts ==
    ASSUME NEW page, NEW t, NEW rows, RowsOf(page, t) = rows,
           \E i \in DOMAIN rows : IsNotified(rows[i])
    PROVE  Mentions(page, t)
BY DEF Mentions, IsNotified

(* A release of one table.                                                 *)
LEMMA PricedParsed ==
    ASSUME NEW release, IsRelease(release), release.layout = "priced"
    PROVE  ParseAuctionResults(Page(release)) = AsPublished(release)
<1> DEFINE s == release.groups[1]
           p == Published(release)
           rows == PricedTable(release.lead, s, p)
           page == Page(release)
<1>1. /\ DOMAIN release.groups = {1} /\ Listed(s) /\ s # <<>> /\ Only(s, p, PricedFields)
      /\ release.lead \in Seq({Empty})
  <2>1. Len(release.groups) = 1 /\ release.lead \in Seq({Empty})
    BY DEF IsRelease
  <2>2. LayoutFields(release) = PricedFields
    BY DEF LayoutFields
  <2>3. DOMAIN release.groups = {1}
    BY <2>1, GroupFacts
  <2>4. QED
    BY <2>1, <2>2, <2>3, GroupFacts
<1>2. DOMAIN page = 1 .. 1 /\ page[1].inside = 0 /\ page[1].rows = rows
  BY DEF Page
<1>3. /\ IsTable(rows) /\ \E i \in DOMAIN rows : IsNotified(rows[i])
      /\ SecurityColumns(rows) = Names(s)
  BY <1>1, PricedTop
<1>4. Walk(rows, Names(s)) = RecordsOf(s, p)
  BY <1>1, PricedRecords
<1> HIDE DEF s, p, rows, page
<1>5. RowsOf(page, 1) = rows
  <2>1. /\ 1 \in Nat /\ 1 \in 1 .. 1
        /\ \A u \in 1 .. 1 : page[u].inside # 1
    BY <1>2
  <2>2. QED
    BY <1>2, <1>3, <2>1, RowsAlone
<1>6. ResultTables(page) = {1}
  <2>1. Mentions(page, 1)
    BY <1>3, <1>5, MentionsFacts
  <2>2. \A u \in DOMAIN page : page[u].inside # 1
    BY <1>2
  <2>3. QED
    BY <1>2, <2>1, <2>2 DEF ResultTables
<1>7. ParseAuctionResults(page) = RecordsOf(s, p)
  <2>1. ParseAuctionResults(page) = Walk(RowsOf(page, 1), SecurityColumns(RowsOf(page, 1)))
    BY <1>6 DEF ParseAuctionResults
  <2>2. QED
    BY <1>3, <1>4, <1>5, <2>1
<1>8. AsPublished(release) = RecordsOf(s, p)
  <2>1. AsPublished(release) = UNION {RecordsOf(release.groups[g], p) : g \in {1}}
    BY <1>1, PublishedByGroup DEF p
  <2>2. QED
    BY <2>1 DEF s
<1>9. QED
  BY <1>7, <1>8 DEF page

(* A release of a table for each group, in a table around them all.        *)
LEMMA StateParsed ==
    ASSUME NEW release, IsRelease(release), release.layout = "state"
    PROVE  ParseAuctionResults(Page(release)) = AsPublished(release)
<1> DEFINE groups == release.groups
           n == Len(groups)
           p == Published(release)
           page == Page(release)
           Rows(g) == StateTable(groups[g], p)
<1>1. /\ n \in Nat \ {0} /\ DOMAIN groups = 1 .. n
      /\ \A g \in 1 .. n : /\ Listed(groups[g]) /\ groups[g] # <<>> /\ IsName(groups[g][1])
                           /\ Only(groups[g], p, StateFields)
  <2>1. LayoutFields(release) = StateFields
    BY DEF LayoutFields
  <2>2. QED
    BY <2>1, GroupFacts
<1>2. /\ DOMAIN page = 1 .. n + 1 /\ page[1].inside = 0
      /\ \A g \in 1 .. n : page[g + 1].inside = 1 /\ page[g + 1].rows = Rows(g)
  <2> DEFINE outer == [inside |-> 0, rows |-> <<<<Caption("(amount in crore)")>>>>]
             inner == [g \in DOMAIN groups |-> [inside |-> 1, rows |-> Rows(g)]]
             S == {outer} \cup {inner[g] : g \in 1 .. n}
  <2>1. page = <<outer>> \o inner
    BY DEF Page
  <2>2. /\ outer.inside = 0
        /\ \A g \in 1 .. n : inner[g].inside = 1 /\ inner[g].rows = Rows(g)
    BY <1>1
  <2>3. inner \in [1 .. n -> S] /\ outer \in S
    BY <1>1
  <2> HIDE DEF page, outer, inner, S
  <2>4. inner \in Seq(S) /\ Len(inner) = n
    BY <1>1, <2>3
  <2>5. /\ DOMAIN page = 1 .. n + 1 /\ page[1] = outer
        /\ \A g \in 1 .. n : page[g + 1] = inner[g]
    BY <1>1, <2>1, <2>3, <2>4
  <2>6. QED
    BY <2>2, <2>5
<1> HIDE DEF p, page
<1>3. ASSUME NEW g \in 1 .. n
      PROVE  /\ RowsOf(page, g + 1) = Rows(g) /\ SecurityColumns(Rows(g)) = Names(groups[g])
             /\ Mentions(page, g + 1)
             /\ Walk(Rows(g), Names(groups[g])) = RecordsOf(groups[g], p)
  <2> DEFINE s == groups[g]
             rows == Rows(g)
  <2>1. Listed(s) /\ s # <<>> /\ IsName(s[1]) /\ Only(s, p, StateFields)
    BY <1>1
  <2>2. /\ IsTable(rows) /\ \E i \in DOMAIN rows : IsNotified(rows[i])
        /\ SecurityColumns(rows) = Names(s)
    BY <2>1, StateTop
  <2>3. Walk(rows, Names(s)) = RecordsOf(s, p)
    BY <2>1, StateRecords
  <2>4. page[g + 1].rows = rows
    BY <1>2
  <2> HIDE DEF s, rows
  <2>5. RowsOf(page, g + 1) = rows
    <3>1. n + 1 \in Nat /\ g + 1 \in 1 .. n + 1
      BY <1>1
    <3>2. \A u \in 1 .. n + 1 : page[u].inside # g + 1
      <4>1. TAKE u \in 1 .. n + 1
      <4>2. CASE u = 1
        BY <1>2, <4>2
      <4>3. CASE u # 1
        <5>1. u - 1 \in 1 .. n /\ u - 1 + 1 = u
          BY <1>1, <4>3
        <5>2. page[u].inside = 1
          BY <1>2, <5>1
        <5>3. QED
          BY <5>2
      <4>4. QED
        BY <4>2, <4>3
    <3>3. QED
      BY <1>2, <2>2, <2>4, <3>1, <3>2, RowsAlone
  <2>6. Mentions(page, g + 1)
    BY <2>2, <2>5, MentionsFacts
  <2>7. QED
    BY <2>2, <2>3, <2>5, <2>6 DEF s, rows
<1> HIDE DEF n, groups
<1>4. ResultTables(page) = {g + 1 : g \in 1 .. n}
  <2>1. 1 \notin ResultTables(page)
    <3>1. 1 \in 1 .. n /\ 1 + 1 \in DOMAIN page
      BY <1>1, <1>2
    <3>2. page[1 + 1].inside = 1 /\ Mentions(page, 1 + 1)
      BY <1>2, <1>3, <3>1
    <3>3. QED
      BY <3>1, <3>2 DEF ResultTables
  <2>2. ASSUME NEW g \in 1 .. n
        PROVE  g + 1 \in ResultTables(page)
    <3>1. \A u \in DOMAIN page : page[u].inside # g + 1
      <4>1. TAKE u \in DOMAIN page
      <4>2. CASE u = 1
        BY <1>2, <4>2
      <4>3. CASE u # 1
        <5>1. u - 1 \in 1 .. n /\ u - 1 + 1 = u
          BY <1>1, <1>2, <4>3
        <5>2. page[u].inside = 1
          BY <1>2, <5>1
        <5>3. QED
          BY <5>2
      <4>4. QED
        BY <4>2, <4>3
    <3>2. g + 1 \in DOMAIN page /\ Mentions(page, g + 1)
      BY <1>1, <1>2, <1>3
    <3>3. QED
      BY <3>1, <3>2 DEF ResultTables
  <2>3. ASSUME NEW t \in ResultTables(page)
        PROVE  \E g \in 1 .. n : t = g + 1
    <3>1. t \in 1 .. n + 1 /\ t # 1
      BY <1>2, <2>1 DEF ResultTables
    <3>2. t - 1 \in 1 .. n /\ t = t - 1 + 1
      BY <1>1, <3>1
    <3>3. QED
      BY <3>2
  <2>4. QED
    BY <2>2, <2>3
<1>5. \A g \in 1 .. n : Walk(RowsOf(page, g + 1), SecurityColumns(RowsOf(page, g + 1)))
                          = RecordsOf(groups[g], p)
  BY <1>3 DEF groups
<1>6. ParseAuctionResults(page) = UNION {RecordsOf(groups[g], p) : g \in 1 .. n}
  <2> DEFINE Parsed(t) == Walk(RowsOf(page, t), SecurityColumns(RowsOf(page, t)))
  <2>1. ParseAuctionResults(page) = UNION {Parsed(t) : t \in ResultTables(page)}
    BY DEF ParseAuctionResults
  <2>2. \A g \in 1 .. n : Parsed(g + 1) = RecordsOf(groups[g], p)
    BY <1>5
  <2> HIDE DEF Parsed
  <2>3. \A r : r \in ParseAuctionResults(page) <=> \E g \in 1 .. n : r \in Parsed(g + 1)
    BY <1>4, <2>1
  <2>4. QED
    BY <2>2, <2>3
<1>7. QED
  BY <1>1, <1>6, PublishedByGroup DEF page, p, groups

(* Whatever RBI publishes, in either layout, of however many securities,   *)
(* with whichever cells blank, the parser returns what the release says    *)
(* (parse_auction_results).                                                *)
THEOREM ReleaseParsed ==
    ASSUME NEW release, IsRelease(release)
    PROVE  ParseAuctionResults(Page(release)) = AsPublished(release)
BY PricedParsed, StateParsed DEF IsRelease

(* The release that a run loads is one of those published.                 *)
LEMMA ContentIsRelease == Spec => [](feed = "rbi" => content \in Releases \cup {NoContent})
<1> DEFINE Kept == feed = "rbi" => content \in Releases \cup {NoContent}
<1>1. Init => Kept
  BY DEF Init
<1>2. Kept /\ [Next]_vars => Kept'
  <2> SUFFICES ASSUME Kept, [Next]_vars PROVE Kept'
    OBVIOUS
  <2>1. CASE Publish \/ Crash \/ Attempt
    BY <2>1 DEF Publish, Crash, Attempt, Retry, Reprime, Take
  <2>2. CASE Night \/ Rerun
    BY <2>2 DEF Night, Rerun, Begin
  <2>3. CASE Conclude
    <3>1. CASE Final = "success" /\ feed = "rbi"
      BY <2>3, <3>1 DEF Conclude
    <3>2. CASE feed # "rbi"
      BY <2>3, <3>2 DEF Conclude
    <3>3. CASE Final # "success"
      BY <2>3, <3>3 DEF Conclude
    <3>4. QED
      BY <3>1, <3>2, <3>3
  <2>4. CASE UNCHANGED vars
    BY <2>4 DEF vars
  <2>5. QED
    BY <2>1, <2>2, <2>3, <2>4 DEF Next
<1>3. QED
  BY <1>1, <1>2, PTL DEF Spec

(* What is kept of an auction is what RBI published of it.                 *)
THEOREM FiguresOfRelease == Spec => []FiguresAsPublished
<1>1. (feed = "rbi" => content \in Releases \cup {NoContent}) => FiguresAsPublished
  BY ReleasesAssumption, ReleaseParsed DEF FiguresAsPublished
<1>2. QED
  BY <1>1, ContentIsRelease, PTL
=============================================================================
