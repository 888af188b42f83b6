----------------------------- MODULE Connectors -----------------------------
(***************************************************************************)
(* What each connector makes of an answer of its source.  A body is told   *)
(* apart by what is in it, and an answer with another status than 200, or  *)
(* none at all, by its status:                                             *)
(*                                                                         *)
(*   "all", "part"   the day's rows, or those of a session in progress     *)
(*   "norows"        well formed, without a row                            *)
(*   "foreign"       well formed, with rows of which none parses           *)
(*   "html"          a challenge or an error page, served with 200         *)
(*   "corrupt"       JSON or a workbook that cannot be decoded             *)
(*   "reset"         no answer: a timeout, a connection reset              *)
(***************************************************************************)
EXTENDS Integers, Sequences

Bodies == {"all", "part", "norows", "foreign", "html", "corrupt"}
Statuses == {"403", "404", "500", "503", "reset"}

(* What the HTTP client tries again, unless the caller opts a status out.  *)
Retryable(answer, no_retry) == answer \in {"500", "503", "reset"} \ no_retry

(***************************************************************************)
(* A connector, as the answers it                                          *)
(*   no_retry   does not want retried,                                     *)
(*   missing    takes for a day not published, and does not land,          *)
(*   served     serves back from the lake once landed,                     *)
(*   empty      takes for a day not published when it parses them,         *)
(*   unnoticed  lets pass although nothing was parsed of them.             *)
(* Every other answer without rows is a failure.  Of RBI, the index is     *)
(* meant: it has no rows when it lists no full result.  An FBIL workbook   *)
(* is foreign without an ISIN header; rows under it that are no securities *)
(* count for none.                                                         *)
(***************************************************************************)
Opens == [no_retry |-> {}, missing |-> {}, served |-> {}, empty |-> {}, unnoticed |-> {}]

Bse == [Opens EXCEPT !.missing = {"norows"}, !.served = Bodies \ {"norows"}, !.empty = {"html", "corrupt"}]
NseCbm == [Opens EXCEPT !.missing = {"404", "html"}, !.served = Bodies, !.empty = {"norows", "foreign"}]
NseBondReport == [Opens EXCEPT !.missing = {"404", "html"}, !.served = Bodies, !.unnoticed = {"norows", "foreign"}]

(* A mutant: every refusal of FBIL is a day without a file.                *)
Fbil_AnyStatus ==
    [Opens EXCEPT !.no_retry = {"500"}, !.missing = Statuses \cup {"html"}, !.served = Bodies,
                  !.empty = {"corrupt"}, !.unnoticed = {"norows"}]

Fbil ==
    [Opens EXCEPT !.no_retry = {"500"}, !.missing = {"500", "html"}, !.served = Bodies,
                  !.empty = {"corrupt"}, !.unnoticed = {"norows"}]

(* A mutant: a file without rows is a day's file like another.             *)
Ccil_RowsUnseen == [Opens EXCEPT !.unnoticed = {"norows"}]

Ccil == [Opens EXCEPT !.empty = {"norows"}]
Cdsl == [Opens EXCEPT !.empty = {"norows", "html"}]
Sebi == Opens
Nse == [Opens EXCEPT !.unnoticed = {"norows", "foreign"}]
RbiIndex == [Opens EXCEPT !.empty = {"norows"}]

Connector(feed) ==
    CASE feed = "bse" -> Bse [] feed = "nse_cbm" -> NseCbm
      [] feed = "nse_cbr" -> NseBondReport [] feed = "fbil" -> Fbil
      [] feed = "ccil" -> Ccil [] feed = "cdsl" -> Cdsl
      [] feed = "sebi" -> Sebi [] feed = "nse" -> Nse [] feed = "rbi" -> RbiIndex

Feeds == {"bse", "nse_cbm", "nse_cbr", "fbil", "ccil", "cdsl", "sebi", "nse", "rbi"}

(* How a run of the pipeline ends that got this answer: DataUnavailable is *)
(* a skip, any other exception a failure.                                  *)
Outcome(feed, body) ==
    IF body \in {"all", "part"} \cup Connector(feed).unnoticed THEN "success"
    ELSE IF body \in Connector(feed).empty THEN "skipped" ELSE "failed"

Verdict(feed, answer) ==
    IF answer \in Connector(feed).missing THEN "skipped"
    ELSE IF answer \in Statuses THEN "failed" ELSE Outcome(feed, answer)
=============================================================================
