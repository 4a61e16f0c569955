---------------------------- MODULE UserFeedback ----------------------------
(***************************************************************************)
(* The user feedback service: the table of what a user has switched on and *)
(* off, the requests that change it, and the query the scheduler's filter  *)
(* asks.                                                                   *)
(*                                                                         *)
(* A request names businesses one by one; each is a SELECT and then an     *)
(* UPDATE or an INSERT, without a transaction, so that requests interleave *)
(* between the two, and one that fails half way leaves what it has written.*)
(* One user: rows of different users never meet.                           *)
(***************************************************************************)
EXTENDS Integers, Sequences

CONSTANTS
  Request,          \* the requests to /feedback, each on a thread of the server
  Body              \* what they may ask: sequences of items

\* business_name_type_map_ of UserFeedbackHandler and of UserFeedbackQueryHandler
Business == {"total", "schedule", "weather", "movie", "news"}
Reported == {"total", "schedule", "weather", "movie"}

Item == [business : STRING, status : {"on", "off"}]
KnownItem == [business : Business, status : {"on", "off"}]

\* The request is parsed; names the service does not know are passed over.
Known(body) == SelectSeq(body, LAMBDA item : item.business \in Business)

ASSUME FeedbackConstantsOK ==
  Body \subseteq Seq(Item) /\ \A body \in Body : Known(body) \in Seq(KnownItem)

VARIABLES
  feedback,         \* user_feedback: per business the status of its row, or none
  request,          \* per request: where it is, and what is left of it
  feedbackFaults,   \* the number of statements that may still raise SQLException
  \* history
  said              \* per business what the user has been told last: the status of a
                    \* request answered with success that had the business to itself,
                    \* and after which none has come in; otherwise unknown

feedbackVars == <<feedback, request, feedbackFaults, said>>

NoRequest == [pc |-> "new", left |-> <<>>, found |-> FALSE, body |-> <<>>, alone |-> {}]

InFlight(r) == request[r].pc \in {"select", "write"}
Names(body) == {body[i].business : i \in DOMAIN body}

\* What a body asks for a business; the last item wins.
Asked(body, b) ==
  LET i == CHOOSE j \in DOMAIN body :
             /\ body[j].business = b
             /\ \A k \in DOMAIN body : body[k].business = b => k <= j
  IN  body[i].status

FeedbackInit(known, faults) ==
  /\ feedback = [b \in Business |-> IF b \in known THEN "on" ELSE "none"]
  /\ request = [r \in Request |-> NoRequest]
  /\ feedbackFaults = faults
  /\ said = [b \in Business |-> "unknown"]

-----------------------------------------------------------------------------
(***************************************************************************)
(* UserFeedbackHandler::HandleRequest and InsertUserFeedback               *)
(***************************************************************************)
BeginRequest(r, body) ==
  LET items == Known(body)
      others == {q \in Request : InFlight(q)}
  IN  /\ request[r].pc = "new"
      /\ request' = [q \in Request |->
           IF q = r THEN [pc |-> IF items = <<>> THEN "success" ELSE "select",
                          left |-> items, found |-> FALSE, body |-> items,
                          alone |-> Names(items) \ UNION {Names(request[o].body) : o \in others}]
           ELSE [request[q] EXCEPT !.alone = @ \ Names(items)]]
      /\ said' = [b \in Business |-> IF b \in Names(items) THEN "unknown" ELSE said[b]]
      /\ UNCHANGED <<feedback, feedbackFaults>>

\* SQLException in either statement: the error is answered, what is written stays.
RequestFails(r) ==
  request' = [request EXCEPT ![r] = [NoRequest EXCEPT !.pc = "error"]]

SelectFeedback(r) ==
  /\ request[r].pc = "select"
  /\ \/ /\ request' = [request EXCEPT ![r].pc = "write",
              ![r].found = feedback[Head(request[r].left).business] # "none"]
        /\ UNCHANGED feedbackFaults
     \/ /\ feedbackFaults > 0
        /\ feedbackFaults' = feedbackFaults - 1
        /\ RequestFails(r)
  /\ UNCHANGED <<feedback, said>>

\* The UPDATE or the INSERT, and on to the next item or to the answer.
InsertIgnore(was, to) == IF was = "none" THEN to ELSE was     \* (mutant) no UPDATE
Written(was, to) == to

WriteFeedback(r) ==
  LET item == Head(request[r].left)
      rest == Tail(request[r].left)
      update == request[r].found
  IN  /\ request[r].pc = "write"
      /\ \/ /\ update \/ feedback[item.business] = "none"
            /\ feedback' = [feedback EXCEPT ![item.business] = Written(@, item.status)]
            /\ IF rest = <<>>
                 THEN /\ request' = [request EXCEPT ![r] = [NoRequest EXCEPT !.pc = "success"]]
                      /\ said' = [b \in Business |->
                           IF b \in request[r].alone THEN Asked(request[r].body, b) ELSE said[b]]
                 ELSE /\ request' = [request EXCEPT ![r].pc = "select", ![r].left = rest]
                      /\ UNCHANGED said
            /\ UNCHANGED feedbackFaults
         \/ /\ ~ update /\ feedback[item.business] # "none"    \* duplicate key
            /\ RequestFails(r)
            /\ UNCHANGED <<feedback, said, feedbackFaults>>
         \/ /\ feedbackFaults > 0
            /\ feedbackFaults' = feedbackFaults - 1
            /\ RequestFails(r)
            /\ UNCHANGED <<feedback, said>>

FeedbackNext ==
  \/ \E r \in Request, body \in Body : BeginRequest(r, body)
  \/ \E r \in Request : SelectFeedback(r) \/ WriteFeedback(r)

-----------------------------------------------------------------------------
(***************************************************************************)
(* UserFeedbackQueryHandler::HandleRequest and QueryUserFeedback, one      *)
(* SELECT: the businesses reported and their status.  Without a row the    *)
(* answer is an error.                                                     *)
(***************************************************************************)
QueryUserFeedback == {b \in Business : feedback[b] # "none"}

FeedbackAnswer ==
  IF QueryUserFeedback = {}
    THEN [status |-> "error", data |-> {}]
    ELSE [status |-> "success",
          data |-> {[business |-> b, status |-> feedback[b]] :
                      b \in QueryUserFeedback \cap Reported}]

FeedbackTypeOK ==
  /\ feedback \in [Business -> {"none", "on", "off"}]
  /\ \A r \in Request :
       /\ request[r].pc \in {"new", "select", "write", "success", "error"}
       /\ request[r].found \in BOOLEAN
       /\ request[r].alone \subseteq Business
       /\ InFlight(r) => request[r].left # <<>>
  /\ said \in [Business -> {"unknown", "on", "off"}]

\* A user who has been told that a business is switched on or off, by a request nothing
\* interfered with, finds it so: neither a request that failed half way nor two that
\* meet between SELECT and INSERT change what was answered later.
SaidIsStored ==
  \A b \in Business : said[b] # "unknown" => feedback[b] = said[b]
=============================================================================
