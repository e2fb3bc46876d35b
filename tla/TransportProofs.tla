--------------------------- MODULE TransportProofs ---------------------------
(***************************************************************************)
(* Machine-checked proofs about Transport, for any timeouts, any number of *)
(* defects of a request and any number of repeats.                         *)
(***************************************************************************)
EXTENDS Transport, SequenceTheorems, WellFoundedInduction, TLAPS

(* What the store can answer to an operation at all, and how it fails.     *)
Possible(op) ==
    CASE op \in {"Add", "Get", "ListOrders"} -> {"ok"}
      [] op \in {"Update", "GetByID", "GetOrder"} -> {"ok", "notfound"}
      [] op = "Delete" -> {"ok", "notfound", "inuse"}
      [] op = "CreateOrder" -> {"ok", "replayed", "mismatch", "notfound", "insufficient"}

Breakdowns == {"unavailable", "internal", "deadline", "canceled", "panic"}

(* What a client is to be told of an outcome. *)
Meaning(o) ==
    CASE o \in {"ok", "replayed"} -> "done" [] o = "notfound" -> "missing"
      [] o \in {"insufficient", "inuse"} -> "conflict" [] o = "mismatch" -> "invalid"
      [] o = "unavailable" -> "unavailable" [] OTHER -> "server"

-----------------------------------------------------------------------------
(* The handlers of HTTP: the status of a success and of the errors known.  *)
LEMMA HandlerErrors ==
    /\ \A op \in Ops : Handler(op).ok \in {"200", "201"}
    /\ \A op \in {"Add", "Get", "ListOrders"} : DOMAIN Handler(op).errors = {}
    /\ \A op \in {"Update", "GetByID", "GetOrder"} :
        DOMAIN Handler(op).errors = {"notfound"} /\ Handler(op).errors["notfound"] = "404"
    /\ /\ DOMAIN Handler("Delete").errors = {"notfound", "inuse"}
       /\ Handler("Delete").errors["notfound"] = "404"
       /\ Handler("Delete").errors["inuse"] = "409"
    /\ /\ DOMAIN Handler("CreateOrder").errors = {"notfound", "insufficient", "mismatch"}
       /\ Handler("CreateOrder").errors["notfound"] = "404"
       /\ Handler("CreateOrder").errors["insufficient"] = "409"
       /\ Handler("CreateOrder").errors["mismatch"] = "422"
<1>1. /\ Handler("Add") = Add /\ Handler("Update") = Update /\ Handler("Delete") = Delete
      /\ Handler("Get") = Get /\ Handler("GetByID") = GetByID
      /\ Handler("CreateOrder") = CreateOrder /\ Handler("GetOrder") = GetOrder
      /\ Handler("ListOrders") = ListOrders
    BY DEF Handler
<1>2. \A op \in Ops : Handler(op).ok \in {"200", "201"}
    BY <1>1 DEF Ops, Writes, Add, Update, Delete, Get, GetByID, CreateOrder, GetOrder, ListOrders
<1>3. \A op \in {"Add", "Get", "ListOrders"} : DOMAIN Handler(op).errors = {}
    BY <1>1 DEF Add, Get, ListOrders
<1>4. \A op \in {"Update", "GetByID", "GetOrder"} :
        DOMAIN Handler(op).errors = {"notfound"} /\ Handler(op).errors["notfound"] = "404"
    BY <1>1 DEF Update, GetByID, GetOrder
<1>5. /\ DOMAIN Handler("Delete").errors = {"notfound", "inuse"}
      /\ Handler("Delete").errors["notfound"] = "404"
      /\ Handler("Delete").errors["inuse"] = "409"
    BY <1>1 DEF Delete
<1>6. /\ DOMAIN Handler("CreateOrder").errors = {"notfound", "insufficient", "mismatch"}
      /\ Handler("CreateOrder").errors["notfound"] = "404"
      /\ Handler("CreateOrder").errors["insufficient"] = "409"
      /\ Handler("CreateOrder").errors["mismatch"] = "422"
    BY <1>1 DEF CreateOrder
<1> QED
    BY <1>2, <1>3, <1>4, <1>5, <1>6

(* The outcomes of an operation, one by one.                               *)
LEMMA PossibleOutcomes ==
    /\ \A op \in {"Add", "Get", "ListOrders"} : Possible(op) = {"ok"}
    /\ \A op \in {"Update", "GetByID", "GetOrder"} : Possible(op) = {"ok", "notfound"}
    /\ Possible("Delete") = {"ok", "notfound", "inuse"}
    /\ Possible("CreateOrder") = {"ok", "replayed", "mismatch", "notfound", "insufficient"}
BY DEF Possible

(* The classes of the statuses that are given for outcomes and refusals.   *)
LEMMA StatusClasses ==
    /\ Class("200") = "done" /\ Class("201") = "done" /\ Class("OK") = "done"
    /\ Class("404") = "missing" /\ Class("NotFound") = "missing"
    /\ Class("409") = "conflict" /\ Class("FailedPrecondition") = "conflict"
    /\ Class("400") = "invalid" /\ Class("422") = "invalid" /\ Class("InvalidArgument") = "invalid"
    /\ Class("401") = "unauthenticated" /\ Class("Unauthenticated") = "unauthenticated"
    /\ Class("413") = "too large" /\ Class("ResourceExhausted") = "too large"
    /\ Class("503") = "unavailable" /\ Class("Unavailable") = "unavailable"
    /\ Class("500") = "server" /\ Class("Internal") = "server"
    /\ Class("DeadlineExceeded") = "server" /\ Class("Canceled") = "server"
    /\ Class("403") = "refused"
BY DEF Class

(* The meanings of the outcomes.                                           *)
LEMMA Meanings ==
    /\ Meaning("ok") = "done" /\ Meaning("replayed") = "done"
    /\ Meaning("notfound") = "missing" /\ Meaning("mismatch") = "invalid"
    /\ Meaning("insufficient") = "conflict" /\ Meaning("inuse") = "conflict"
    /\ Meaning("unavailable") = "unavailable"
    /\ \A o \in {"internal", "deadline", "canceled", "panic"} : Meaning(o) = "server"
BY DEF Meaning

(* HTTP tells a client what the outcome means.                             *)
LEMMA HTTPMeaning ==
    ASSUME NEW op \in Ops, NEW o \in Possible(op) \cup Breakdowns
    PROVE  Class(HTTPStatus(op, o)) = Meaning(o)
<1>1. CASE o \in {"ok", "replayed"}
    <2>1. HTTPStatus(op, o) \in {"200", "201"}
        BY <1>1, HandlerErrors DEF HTTPStatus
    <2>2. Class(HTTPStatus(op, o)) = "done"
        BY <2>1, StatusClasses
    <2> QED
        BY <1>1, <2>2, Meanings
<1>2. CASE o \in Breakdowns
    <2>1. o \notin DOMAIN Handler(op).errors /\ o \notin {"ok", "replayed"}
        BY <1>2, HandlerErrors DEF Breakdowns, Ops, Writes
    <2> QED
        BY <1>2, <2>1, StatusClasses, Meanings DEF HTTPStatus, ServerError, Breakdowns
<1>3. CASE o \notin {"ok", "replayed"} \cup Breakdowns
    <2>1. CASE op \in {"Update", "GetByID", "GetOrder"}
        <3>1. o = "notfound"
            BY <1>3, <2>1, PossibleOutcomes
        <3>2. DOMAIN Handler(op).errors = {"notfound"} /\ Handler(op).errors["notfound"] = "404"
            BY <2>1, HandlerErrors
        <3>3. HTTPStatus(op, o) = "404"
            BY <3>1, <3>2 DEF HTTPStatus
        <3> QED
            BY <3>1, <3>3, StatusClasses, Meanings
    <2>2. CASE op = "Delete"
        <3>1. o \in {"notfound", "inuse"}
            BY <1>3, <2>2, PossibleOutcomes
        <3>2. /\ DOMAIN Handler(op).errors = {"notfound", "inuse"}
              /\ Handler(op).errors["notfound"] = "404"
              /\ Handler(op).errors["inuse"] = "409"
            BY <2>2, HandlerErrors
        <3>3. HTTPStatus(op, o) = IF o = "notfound" THEN "404" ELSE "409"
            BY <3>1, <3>2 DEF HTTPStatus
        <3> QED
            BY <3>1, <3>3, StatusClasses, Meanings
    <2>3. CASE op = "CreateOrder"
        <3>1. o \in {"notfound", "insufficient", "mismatch"}
            BY <1>3, <2>3, PossibleOutcomes
        <3>2. /\ DOMAIN Handler(op).errors = {"notfound", "insufficient", "mismatch"}
              /\ Handler(op).errors["notfound"] = "404"
              /\ Handler(op).errors["insufficient"] = "409"
              /\ Handler(op).errors["mismatch"] = "422"
            BY <2>3, HandlerErrors
        <3>3. HTTPStatus(op, o) = IF o = "notfound" THEN "404"
                                  ELSE IF o = "insufficient" THEN "409" ELSE "422"
            BY <3>1, <3>2 DEF HTTPStatus
        <3> QED
            BY <3>1, <3>3, StatusClasses, Meanings
    <2>4. CASE op \in {"Add", "Get", "ListOrders"}
        BY <1>3, <2>4, PossibleOutcomes
    <2> QED
        BY <2>1, <2>2, <2>3, <2>4 DEF Ops, Writes
<1> QED
    BY <1>1, <1>2, <1>3

(* gRPC tells a client the same.                                           *)
LEMMA GRPCMeaning ==
    ASSUME NEW op \in Ops, NEW o \in Possible(op) \cup Breakdowns
    PROVE  Class(GRPCStatus(o)) = Meaning(o)
<1>1. o \in {"ok", "replayed", "notfound", "inuse", "insufficient", "mismatch"} \cup Breakdowns
    BY PossibleOutcomes DEF Ops, Writes
<1>2. /\ ToStatus("canceled") = "Canceled" /\ ToStatus("deadline") = "DeadlineExceeded"
      /\ ToStatus("notfound") = "NotFound" /\ ToStatus("mismatch") = "InvalidArgument"
      /\ ToStatus("insufficient") = "FailedPrecondition"
      /\ ToStatus("inuse") = "FailedPrecondition" /\ ToStatus("unavailable") = "Unavailable"
      /\ ToStatus("internal") = "Internal" /\ ToStatus("panic") = "Internal"
    BY DEF ToStatus
<1>3. CASE o \in {"ok", "replayed"}
    BY <1>3, StatusClasses, Meanings DEF GRPCStatus
<1>4. CASE o \notin {"ok", "replayed"}
    <2>1. GRPCStatus(o) = ToStatus(o)
        BY <1>4 DEF GRPCStatus
    <2> DEFINE Agree(x) == Class(ToStatus(x)) = Meaning(x)
    <2>2. /\ Agree("notfound") /\ Agree("mismatch")
          /\ Agree("insufficient") /\ Agree("inuse")
        BY <1>2, StatusClasses, Meanings
    <2>3. Agree("unavailable") /\ Agree("internal") /\ Agree("panic")
        BY <1>2, StatusClasses, Meanings
    <2>4. Agree("deadline") /\ Agree("canceled")
        BY <1>2, StatusClasses, Meanings
    <2>5. \/ o = "notfound" \/ o = "mismatch" \/ o = "insufficient" \/ o = "inuse"
          \/ o = "unavailable" \/ o = "internal" \/ o = "panic"
          \/ o = "deadline" \/ o = "canceled"
        BY <1>1, <1>4 DEF Breakdowns
    <2> HIDE DEF Agree
    <2>6. Agree(o)
        BY <2>2, <2>3, <2>4, <2>5
    <2> QED
        BY <2>1, <2>6 DEF Agree
<1> QED
    BY <1>3, <1>4

(* Both transports, as the model calls them.                               *)
LEMMA StatusMeaning ==
    ASSUME NEW via, NEW op \in Ops, NEW o \in Possible(op) \cup Breakdowns
    PROVE  Class(Status(via, op, o)) = Meaning(o)
BY HTTPMeaning, GRPCMeaning DEF Status

(* A refusal is never taken for a success or a failure of the server.      *)
LEMMA RefusalMeaning ==
    ASSUME NEW via, NEW d
    PROVE  Class(Refusal(via, d)) \in {"refused", "unauthenticated", "too large", "invalid"}
<1>1. HTTPRefusal(d) \in {"403", "401", "413", "422", "400"}
    BY DEF HTTPRefusal
<1>2. GRPCRefusal(d) \in {"Unauthenticated", "ResourceExhausted", "InvalidArgument"}
    BY DEF GRPCRefusal
<1> QED
    BY <1>1, <1>2, StatusClasses DEF Refusal

(* What the store answers now is one of the possible outcomes.             *)
LEMMA AnswersPossible ==
    ASSUME NEW op \in Ops
    PROVE  Answers(op) \subseteq Possible(op)
<1>1. CASE op \in {"Add", "Get", "ListOrders"}
    BY <1>1 DEF Answers, Possible
<1>2. CASE op \in {"Update", "GetByID", "GetOrder"}
    BY <1>2 DEF Answers, Possible
<1>3. CASE op = "Delete"
    BY <1>3 DEF Answers, Possible
<1>4. CASE op = "CreateOrder"
    BY <1>4, PossibleOutcomes DEF Answers
<1> QED
    BY <1>1, <1>2, <1>3, <1>4 DEF Ops, Writes

-----------------------------------------------------------------------------
(* The invariant.                                                          *)

Calls == {"store", "get", "flight"}
Points == {"head", "body", "invalidate", "done"} \cup Calls

Types ==
    /\ req \in Requests
    /\ pc \in Points
    /\ clock \in Nat /\ left \in Nat
    /\ effect \in BOOLEAN

(* The ticks a request may have used when its service call starts. *)
Start == IF req.via = "http" THEN ReadTimeout ELSE 0

(* Every wait has been given its ticks out of what is left of the total:   *)
(* the body, then the call, then one detached call.                        *)
TimeInv ==
    /\ pc = "head" => clock = 0 /\ left = 0
    /\ pc = "body" => req.via = "http" /\ clock + left <= ReadTimeout
    /\ pc \in {"store", "get"} => clock + left <= Start + Budget
    /\ pc \in {"flight", "invalidate"} => clock + left <= Start + Budget + LoadTimeout
    /\ pc = "done" => reply.at \in Nat /\ reply.at <= Start + Budget + LoadTimeout

(* What is known of the write while the request is handled, and of the     *)
(* answer: either it is refused before the service, or it carries the      *)
(* status of the outcome, and an outcome the store gave says what it did.  *)
Refused ==
    /\ outcome \in {"none", "stalled"} /\ ~effect
    /\ Class(reply.status) \in {"refused", "unauthenticated", "too large", "invalid"}

Served ==
    /\ outcome \in Possible(req.op) \cup Breakdowns
    /\ reply.status = Status(req.via, req.op, outcome)
    /\ outcome = "ok" /\ req.op \in Writes => effect
    /\ outcome \in Possible(req.op) \ {"ok"} => ~effect

AnswerInv ==
    /\ pc \in {"head", "body"} \cup Calls => outcome = "none" /\ ~effect
    /\ pc \in {"get", "flight"} => req.op = "GetByID"
    /\ pc = "invalidate" => outcome = "ok" /\ effect
    /\ pc = "done" => Refused \/ Served

(* The row of an order's key: no order of this request is committed before *)
(* its key is, and what an answer says of the key or the product stays so. *)
KeyInv ==
    req.op = "CreateOrder" =>
        /\ key \in {"new", "same", "other"} /\ effects \in {0, 1}
        /\ key # "same" => effects = 0
        /\ outcome \in {"notfound", "insufficient"} => key = "new" /\ sells = FALSE
        /\ outcome = "mismatch" => key = "other"
        /\ outcome \in {"ok", "replayed"} => key = "same"

TransportInv == Types /\ TimeInv /\ AnswerInv /\ KeyInv

-----------------------------------------------------------------------------
(* A request has a transport and an operation.                             *)
LEMMA RequestTypes ==
    ASSUME NEW r \in Requests
    PROVE  r.via \in {"http", "grpc"} /\ r.op \in Ops /\ r.defects \subseteq Shown(r.via, r.op)
<1>1. PICK via \in {"http", "grpc"}, op \in Ops :
        \E ds \in SUBSET Shown(via, op) : r = [via |-> via, op |-> op, defects |-> ds]
    BY DEF Requests, kSubset
<1> QED
    BY <1>1

(* The settings as numbers.                                                *)
LEMMA Settings ==
    /\ ReadTimeout \in Nat /\ WriteTimeout \in Nat /\ RequestTimeout \in Nat
    /\ GRPCRequestTimeout \in Nat /\ LoadTimeout \in Nat
    /\ Start \in Nat /\ Budget \in Nat
<1>1. /\ ReadTimeout \in Nat /\ WriteTimeout \in Nat /\ RequestTimeout \in Nat
      /\ GRPCRequestTimeout \in Nat /\ LoadTimeout \in Nat
    BY SettingsAssumption DEF Positive
<1> QED
    BY <1>1 DEF Start, Budget

(* The first state satisfies the invariant.                                *)
LEMMA InitInv == Init => TransportInv
<1> SUFFICES ASSUME Init PROVE TransportInv
    OBVIOUS
<1>1. Types
    BY DEF Init, Types, Points
<1>2. TimeInv
    BY DEF Init, TimeInv
<1>3. AnswerInv
    BY DEF Init, AnswerInv, Calls
<1>4. KeyInv
    BY DEF Init, KeyInv
<1> QED
    BY <1>1, <1>2, <1>3, <1>4 DEF TransportInv

(* Headers that arrive start the handling afresh.                          *)
LEMMA ArriveStep ==
    ASSUME Arrive
    PROVE  /\ TimeInv' /\ AnswerInv'
           /\ req' \in Requests => Types'
<1>1. TimeInv'
    BY DEF Arrive, TimeInv
<1>2. AnswerInv'
    BY DEF Arrive, AnswerInv, Calls
<1>3. req' \in Requests => Types'
    BY DEF Arrive, Types, Points
<1> QED
    BY <1>1, <1>2, <1>3

(* Types are kept.                                                         *)
LEMMA TypesStep == Types /\ Next => Types'
<1> SUFFICES ASSUME Types, Next PROVE Types'
    OBVIOUS
<1> USE DEF Types, Points, Calls
<1>1. ASSUME NEW checks, Refuse(checks) PROVE Types'
    BY <1>1 DEF Refuse, Respond, NoEffect
<1>2. ASSUME NEW at \in Points, NEW ticks \in Nat, Wait(at, ticks) PROVE Types'
    BY <1>2 DEF Wait
<1>3. ASSUME Call PROVE Types'
    BY <1>2, <1>3, Settings DEF Call
<1>4. ASSUME NEW o, Answer(o), effect' \in BOOLEAN PROVE Types'
    BY <1>4 DEF Answer, Respond
<1>5. CASE Enter
    BY <1>1, <1>2, <1>3, <1>5, Settings DEF Enter
<1>6. CASE BodyRead
    BY <1>1, <1>3, <1>6 DEF BodyRead
<1>7. CASE BodyLost
    BY <1>7 DEF BodyLost, Respond, NoEffect
<1>8. CASE StoreAnswers \/ StoreFails \/ Invalidated \/ CacheHit \/ FlightEnds \/ Panics
    BY <1>4, <1>8 DEF StoreAnswers, StoreFails, Invalidated, CacheHit, FlightEnds, Panics, NoEffect
<1>9. CASE StoreCommits
    BY <1>4, <1>9, Settings DEF StoreCommits, Detached
<1>10. CASE CacheMiss
    <2>1. PICK ticks \in 0 .. Detached : Wait("flight", ticks)
        BY <1>10 DEF CacheMiss
    <2> QED
        BY <1>2, <2>1, Settings DEF Detached
<1>11. CASE Tick
    BY <1>11 DEF Tick
<1>12. CASE ClientGone \/ SellOut \/ LateEnds
    BY <1>12 DEF ClientGone, SellOut, LateEnds, attempt
<1>13. CASE Retry \/ RetryEarly \/ Receive
    BY <1>13, ArriveStep DEF Retry, RetryEarly, Receive, Resend
<1> QED
    BY <1>5, <1>6, <1>7, <1>8, <1>9, <1>10, <1>11, <1>12, <1>13 DEF Next, Serve

(* Nothing is waited for longer than the waits before it have left.        *)
LEMMA TimeStep == Types /\ TimeInv /\ Next => TimeInv'
<1> SUFFICES ASSUME Types, TimeInv, Next PROVE TimeInv'
    OBVIOUS
<1> DEFINE total == Start + Budget + LoadTimeout
<1>0. /\ clock \in Nat /\ left \in Nat /\ Start \in Nat /\ Budget \in Nat /\ LoadTimeout \in Nat
      /\ ReadTimeout \in Nat /\ req.via \in {"http", "grpc"}
    BY Settings, RequestTypes DEF Types
<1>1. ASSUME UNCHANGED req PROVE UNCHANGED <<Start, Budget>>
    BY <1>1 DEF Start, Budget
<1>2. pc # "done" => clock <= total
    BY <1>0 DEF TimeInv, Types, Points, Calls, Start
<1>3. ASSUME NEW status, Respond(status), pc # "done" PROVE TimeInv'
    <2>1. /\ pc' = "done" /\ reply'.at = clock /\ UNCHANGED <<Start, Budget>>
        BY <1>1, <1>3 DEF Respond
    <2> QED
        BY <1>0, <1>2, <1>3, <2>1 DEF TimeInv
<1>4. ASSUME NEW checks, Refuse(checks), pc # "done" PROVE TimeInv'
    BY <1>3, <1>4 DEF Refuse
<1>5. ASSUME NEW o, Answer(o), pc # "done" PROVE TimeInv'
    BY <1>3, <1>5 DEF Answer
<1>6. ASSUME Call, clock <= Start PROVE TimeInv'
    <2>1. /\ pc' \in {"store", "get"} /\ left' = Budget
          /\ UNCHANGED <<req, clock, Start, Budget>>
        BY <1>1, <1>6 DEF Call, Wait
    <2> QED
        BY <1>0, <1>6, <2>1 DEF TimeInv
<1>7. CASE Enter
    <2>1. clock = 0 /\ pc # "done"
        BY <1>7 DEF Enter, TimeInv
    <2>2. ASSUME Wait("body", ReadTimeout), req.via = "http" PROVE TimeInv'
        BY <1>0, <2>1, <2>2 DEF Wait, TimeInv
    <2> QED
        BY <1>0, <1>4, <1>6, <1>7, <2>1, <2>2 DEF Enter
<1>8. CASE BodyRead
    <2>1. clock <= Start /\ pc # "done"
        BY <1>0, <1>8 DEF BodyRead, TimeInv, Start
    <2> QED
        BY <1>4, <1>6, <1>8, <2>1 DEF BodyRead
<1>9. CASE BodyLost
    BY <1>3, <1>9 DEF BodyLost
<1>10. CASE StoreAnswers \/ StoreFails \/ Invalidated \/ CacheHit \/ FlightEnds \/ Panics
    BY <1>5, <1>10 DEF StoreAnswers, StoreFails, Invalidated, CacheHit, FlightEnds, Panics
<1>11. CASE StoreCommits
    <2>1. CASE req.op = "Add"
        BY <1>5, <1>11, <2>1 DEF StoreCommits
    <2>2. CASE req.op # "Add"
        <3>1. /\ pc = "store" /\ pc' = "invalidate" /\ left' = LoadTimeout
              /\ UNCHANGED <<clock, Start, Budget>>
            BY <1>1, <1>11, <2>2 DEF StoreCommits, Detached
        <3> QED
            BY <1>0, <3>1 DEF TimeInv
    <2> QED
        BY <2>1, <2>2
<1>12. CASE CacheMiss
    <2>1. PICK ticks \in 0 .. LoadTimeout : Wait("flight", ticks)
        BY <1>12 DEF CacheMiss, Detached
    <2>2. /\ pc = "get" /\ pc' = "flight" /\ left' = ticks
          /\ UNCHANGED <<clock, Start, Budget>>
        BY <1>1, <1>12, <2>1 DEF CacheMiss, Wait
    <2> QED
        BY <1>0, <2>1, <2>2 DEF TimeInv
<1>13. CASE Tick
    <2>1. /\ left > 0 /\ pc # "done" /\ clock' = clock + 1 /\ left' = left - 1
          /\ UNCHANGED <<pc, req, reply, Start, Budget>>
        BY <1>1, <1>13 DEF Tick
    <2>2. pc # "head"
        BY <2>1 DEF TimeInv
    <2> QED
        BY <1>0, <2>1, <2>2 DEF TimeInv
<1>14. CASE ClientGone \/ SellOut \/ LateEnds
    <2>1. UNCHANGED <<pc, clock, left, reply, req, Start, Budget>>
        BY <1>1, <1>14 DEF ClientGone, SellOut, LateEnds, attempt
    <2> QED
        BY <2>1 DEF TimeInv
<1>15. CASE Retry \/ RetryEarly \/ Receive
    BY <1>15, ArriveStep DEF Retry, RetryEarly, Receive, Resend
<1> QED
    BY <1>7, <1>8, <1>9, <1>10, <1>11, <1>12, <1>13, <1>14, <1>15 DEF Next, Serve

(* An operation can succeed, and reading a product changes nothing.        *)
LEMMA PossibleFacts ==
    /\ \A op \in Ops : "ok" \in Possible(op)
    /\ Possible("GetByID") = {"ok", "notfound"} /\ "GetByID" \notin Writes
<1>1. \A op \in Ops : "ok" \in Possible(op)
    BY PossibleOutcomes DEF Ops, Writes
<1> QED
    BY <1>1, PossibleOutcomes DEF Writes

(* An answer agrees with what the store did.                               *)
LEMMA AnswerStep == Types /\ AnswerInv /\ Next => AnswerInv'
<1> SUFFICES ASSUME Types, AnswerInv, Next PROVE AnswerInv'
    OBVIOUS
<1>0. req.op \in Ops /\ pc \in Points /\ effect \in BOOLEAN
    BY RequestTypes DEF Types
<1>1. ASSUME NEW checks, Refuse(checks), pc \in {"head", "body"} PROVE AnswerInv'
    <2>1. /\ pc' = "done" /\ UNCHANGED <<outcome, effect>>
          /\ reply'.status = Refusal(req.via, FirstDefect(checks, req.defects))
        BY <1>1 DEF Refuse, Respond, NoEffect
    <2>2. Class(reply'.status) \in {"refused", "unauthenticated", "too large", "invalid"}
        BY <2>1, RefusalMeaning
    <2>3. Refused'
        BY <1>1, <2>1, <2>2 DEF Refused, AnswerInv
    <2> QED
        BY <2>1, <2>3 DEF AnswerInv, Calls
<1>2. ASSUME NEW o \in Possible(req.op) \cup Breakdowns, Answer(o),
             o = "ok" /\ req.op \in Writes => effect',
             o \in Possible(req.op) \ {"ok"} => ~effect'
      PROVE  AnswerInv'
    <2>1. /\ pc' = "done" /\ outcome' = o /\ UNCHANGED req
          /\ reply'.status = Status(req.via, req.op, o)
        BY <1>2 DEF Answer, Respond
    <2>2. Served'
        BY <1>2, <2>1 DEF Served
    <2> QED
        BY <2>1, <2>2 DEF AnswerInv, Calls
<1>3. \A o \in Breakdowns : o # "ok" /\ o \notin Possible(req.op)
    BY <1>0, PossibleOutcomes DEF Breakdowns, Ops, Writes
<1>4. ASSUME NEW at \in {"body"} \cup Calls, NEW ticks, Wait(at, ticks),
             pc \in {"head", "body"} \cup Calls,
             at \in {"get", "flight"} => req.op = "GetByID"
      PROVE  AnswerInv'
    <2>1. pc' = at /\ UNCHANGED <<outcome, effect, req>>
        BY <1>4 DEF Wait
    <2> QED
        BY <1>4, <2>1 DEF AnswerInv, Calls
<1>5. ASSUME Call, pc \in {"head", "body"} PROVE AnswerInv'
    BY <1>4, <1>5 DEF Call, Calls
<1>6. CASE Enter
    BY <1>1, <1>4, <1>5, <1>6 DEF Enter
<1>7. CASE BodyRead
    BY <1>1, <1>5, <1>7 DEF BodyRead
<1>8. CASE BodyLost
    <2>1. /\ pc = "body" /\ pc' = "done" /\ outcome' = "stalled" /\ UNCHANGED effect
          /\ reply'.status = "400"
        BY <1>8 DEF BodyLost, Respond, NoEffect
    <2>2. Refused'
        BY <2>1, StatusClasses DEF Refused, AnswerInv
    <2> QED
        BY <2>1, <2>2 DEF AnswerInv, Calls
<1>9. CASE StoreAnswers
    <2>1. PICK o \in Answers(req.op) : ~(o = "ok" /\ req.op \in Writes) /\ Answer(o)
        BY <1>9 DEF StoreAnswers
    <2>2. o \in Possible(req.op)
        BY <1>0, AnswersPossible
    <2>3. ~effect'
        BY <1>9 DEF StoreAnswers, NoEffect, AnswerInv, Calls
    <2> QED
        BY <1>2, <2>1, <2>2, <2>3
<1>10. CASE StoreCommits
    <2>1. pc = "store" /\ effect' = TRUE
        BY <1>10 DEF StoreCommits
    <2>2. CASE req.op = "Add"
        BY <1>0, <1>2, <1>10, <2>1, <2>2, PossibleFacts DEF StoreCommits
    <2>3. CASE req.op # "Add"
        <3>1. pc' = "invalidate" /\ outcome' = "ok"
            BY <1>10, <2>3 DEF StoreCommits
        <3> QED
            BY <2>1, <3>1 DEF AnswerInv, Calls
    <2> QED
        BY <2>2, <2>3
<1>11. CASE StoreFails
    <2>1. PICK o \in {"unavailable", "internal", "deadline", "canceled"} : Answer(o)
        BY <1>11 DEF StoreFails
    <2> QED
        BY <1>2, <1>3, <2>1 DEF Breakdowns
<1>12. CASE Invalidated
    <2>1. Answer("ok") /\ effect'
        BY <1>12 DEF Invalidated, NoEffect, AnswerInv
    <2> QED
        BY <1>0, <1>2, <2>1, PossibleFacts
<1>13. CASE CacheHit \/ FlightEnds
    <2>1. req.op = "GetByID" /\ ~effect'
        BY <1>13 DEF CacheHit, FlightEnds, NoEffect, AnswerInv, Calls
    <2>2. PICK o \in {"ok", "notfound", "unavailable", "internal", "deadline"} : Answer(o)
        BY <1>13 DEF CacheHit, FlightEnds
    <2> QED
        BY <1>2, <2>1, <2>2, PossibleFacts DEF Breakdowns
<1>14. CASE CacheMiss
    BY <1>4, <1>14 DEF CacheMiss, AnswerInv, Calls
<1>15. CASE Panics
    BY <1>2, <1>3, <1>15 DEF Panics, Breakdowns
<1>16. CASE Tick \/ ClientGone \/ SellOut \/ LateEnds
    <2>1. UNCHANGED <<pc, outcome, effect, req, reply>>
        BY <1>16 DEF Tick, ClientGone, SellOut, LateEnds, attempt
    <2> QED
        BY <2>1 DEF AnswerInv, Refused, Served
<1>17. CASE Retry \/ RetryEarly \/ Receive
    BY <1>17, ArriveStep DEF Retry, RetryEarly, Receive, Resend
<1> QED
    BY <1>6, <1>7, <1>8, <1>9, <1>10, <1>11, <1>12, <1>13, <1>14, <1>15, <1>16, <1>17
       DEF Next, Serve

(* What the store answers to an order, by its key and the product.         *)
LEMMA OrderAnswers ==
    /\ key = "same" => Answers("CreateOrder") = {"replayed"}
    /\ key = "other" => Answers("CreateOrder") = {"mismatch"}
    /\ key = "new" /\ sells => Answers("CreateOrder") = {"ok"}
    /\ key = "new" /\ ~sells => Answers("CreateOrder") = {"notfound", "insufficient"}
<1>1. ASSUME key = "same" PROVE Answers("CreateOrder") = {"replayed"}
    BY <1>1 DEF Answers
<1>2. ASSUME key = "other" PROVE Answers("CreateOrder") = {"mismatch"}
    BY <1>2 DEF Answers
<1>3. ASSUME key = "new", sells PROVE Answers("CreateOrder") = {"ok"}
    BY <1>3 DEF Answers
<1>4. ASSUME key = "new", ~sells PROVE Answers("CreateOrder") = {"notfound", "insufficient"}
    BY <1>4 DEF Answers
<1> QED
    BY <1>1, <1>2, <1>3, <1>4

(* An order is committed with its key, and only for a new one.             *)
LEMMA KeyStep == Types /\ AnswerInv /\ KeyInv /\ Next => KeyInv'
<1> SUFFICES ASSUME Types, AnswerInv, KeyInv, Next, req'.op = "CreateOrder" PROVE KeyInv'
    BY DEF KeyInv
<1>1. ASSUME UNCHANGED <<req, key, effects>>, sells' = sells \/ sells' = FALSE,
             outcome' = outcome \/ outcome' \notin {"ok", "replayed", "notfound", "insufficient", "mismatch"}
      PROVE  KeyInv'
    BY <1>1 DEF KeyInv
<1>2. ASSUME UNCHANGED req, Committable
      PROVE  req.op = "CreateOrder" /\ key = "new" /\ sells /\ effects = 0
    <2>1. req.op = "CreateOrder" /\ "ok" \in Answers("CreateOrder")
        BY <1>2 DEF Committable
    <2> QED
        BY <2>1, OrderAnswers DEF KeyInv
<1>3. ASSUME UNCHANGED req, Committable, Committed,
             outcome' \notin {"notfound", "insufficient", "mismatch"}
      PROVE  KeyInv'
    <2>1. key' = "same" /\ effects' = 1
        BY <1>2, <1>3 DEF Committed
    <2> QED
        BY <1>3, <2>1 DEF KeyInv
<1>4. CASE Enter \/ BodyRead \/ BodyLost \/ CacheMiss \/ Panics \/ Tick \/ ClientGone \/ SellOut
    <2>1. ASSUME NEW checks, Refuse(checks) PROVE KeyInv'
        BY <1>1, <2>1 DEF Refuse, Respond, NoEffect
    <2>2. ASSUME NEW at, NEW ticks, Wait(at, ticks) PROVE KeyInv'
        BY <1>1, <2>2 DEF Wait, others
    <2>3. CASE Enter \/ BodyRead \/ CacheMiss
        BY <2>1, <2>2, <2>3 DEF Enter, BodyRead, CacheMiss, Call
    <2>4. CASE BodyLost \/ Panics
        BY <1>1, <2>4 DEF BodyLost, Panics, Answer, Respond, NoEffect
    <2>5. CASE Tick \/ ClientGone \/ SellOut
        BY <1>1, <2>5 DEF Tick, ClientGone, SellOut, others, attempt
    <2> QED
        BY <1>4, <2>3, <2>4, <2>5
<1>5. CASE StoreAnswers
    <2>1. PICK o \in Answers(req.op) : ~(o = "ok" /\ req.op \in Writes) /\ Answer(o)
        BY <1>5 DEF StoreAnswers
    <2>2. UNCHANGED <<req, key, effects, sells>> /\ outcome' = o
        BY <1>5, <2>1 DEF StoreAnswers, Answer, Respond, NoEffect
    <2>3. req.op = "CreateOrder" /\ o \in Answers("CreateOrder") /\ o # "ok"
        BY <2>1, <2>2 DEF Writes
    <2>4. CASE key = "same"
        BY <2>2, <2>3, <2>4, OrderAnswers DEF KeyInv
    <2>5. CASE key = "other"
        BY <2>2, <2>3, <2>5, OrderAnswers DEF KeyInv
    <2>6. CASE key = "new"
        BY <2>2, <2>3, <2>6, OrderAnswers DEF KeyInv
    <2> QED
        BY <2>3, <2>4, <2>5, <2>6 DEF KeyInv
<1>6. CASE StoreCommits
    BY <1>3, <1>6 DEF StoreCommits, Answer, Respond
<1>7. CASE StoreFails
    <2>1. UNCHANGED <<req, sells>> /\ outcome' \in {"unavailable", "internal", "deadline", "canceled"}
        BY <1>7 DEF StoreFails, Answer, Respond
    <2> QED
        BY <1>1, <1>3, <1>7, <2>1 DEF StoreFails, NoEffect
<1>8. CASE Invalidated
    BY <1>1, <1>8 DEF Invalidated, Answer, Respond, NoEffect
<1>9. CASE CacheHit \/ FlightEnds
    BY <1>9 DEF CacheHit, FlightEnds, Answer, Respond, AnswerInv
<1>10. CASE LateEnds
    <2>1. UNCHANGED <<req, outcome, sells>>
        BY <1>10 DEF LateEnds, attempt
    <2>2. CASE Committable /\ Committed
        <3>1. outcome \notin {"notfound", "insufficient", "mismatch"}
            BY <1>2, <2>1, <2>2 DEF KeyInv
        <3> QED
            BY <1>3, <2>1, <2>2, <3>1
    <2>3. CASE UNCHANGED <<key, effects>>
        BY <1>1, <2>1, <2>3
    <2> QED
        BY <1>10, <2>2, <2>3 DEF LateEnds
<1>11. CASE Retry \/ RetryEarly
    BY <1>1, <1>11 DEF Retry, RetryEarly, Resend, Arrive
<1>12. CASE Receive
    BY <1>12 DEF Receive, Arrive, KeyInv
<1> QED
    BY <1>4, <1>5, <1>6, <1>7, <1>8, <1>9, <1>10, <1>11, <1>12 DEF Next, Serve

(* A step that changes nothing keeps the invariant.                        *)
LEMMA Stutter == TransportInv /\ UNCHANGED vars => TransportInv'
<1> SUFFICES ASSUME TransportInv, UNCHANGED vars PROVE TransportInv'
    OBVIOUS
<1>1. /\ UNCHANGED <<req, pc, clock, left, outcome, effect, reply>>
      /\ UNCHANGED <<key, sells, effects>>
    BY DEF vars, attempt, others
<1>2. Types'
    BY <1>1 DEF TransportInv, Types
<1>3. TimeInv'
    BY <1>1 DEF TransportInv, TimeInv, Start, Budget
<1>4. AnswerInv'
    BY <1>1 DEF TransportInv, AnswerInv, Refused, Served
<1>5. KeyInv'
    BY <1>1 DEF TransportInv, KeyInv
<1> QED
    BY <1>2, <1>3, <1>4, <1>5 DEF TransportInv

(* Transport keeps its invariant: the deadlines add up, the answers agree  *)
(* with the store and an order with its key.                               *)
THEOREM TransportInvariant == Spec => []TransportInv
<1>1. TransportInv /\ [Next]_vars => TransportInv'
    BY TypesStep, TimeStep, AnswerStep, KeyStep, Stutter DEF TransportInv
<1> QED
    BY InitInv, <1>1, PTL DEF Spec

-----------------------------------------------------------------------------
(* AnswerMatchesEffect for any timeouts, defects and number of repeats: a  *)
(* success means a committed write, a refusal none, and a server error is  *)
(* given for a failure behind the service only.                            *)
THEOREM AnswersMatchEffects == Spec => []AnswerMatchesEffect
<1>1. TransportInv => AnswerMatchesEffect
    <2> SUFFICES ASSUME TransportInv, pc = "done" PROVE AnswerMatchesEffect
        BY DEF AnswerMatchesEffect, Answered
    <2>0. req.op \in Ops
        BY RequestTypes DEF TransportInv, Types
    <2>1. CASE Refused
        BY <2>1 DEF Refused, AnswerMatchesEffect, Uncertain
    <2>2. CASE Served
        <3>1. Class(reply.status) = Meaning(outcome)
            BY <2>0, <2>2, StatusMeaning DEF Served
        <3>2. CASE outcome \in Breakdowns
            <4>1. Meaning(outcome) \in Uncertain
                BY <3>2, Meanings DEF Breakdowns, Uncertain
            <4> QED
                BY <3>1, <3>2, <4>1 DEF AnswerMatchesEffect, Breakdowns, Uncertain
        <3>3. CASE outcome \in Possible(req.op)
            <4>1. /\ outcome \in {"ok", "replayed", "mismatch", "notfound", "insufficient", "inuse"}
                  /\ outcome = "ok" /\ req.op \in Writes => effect
                  /\ outcome # "ok" => ~effect
                BY <2>0, <2>2, <3>3, PossibleOutcomes DEF Served, Ops, Writes
            <4>2. /\ outcome \in {"ok", "replayed"} <=> Meaning(outcome) = "done"
                  /\ Meaning(outcome) \notin Uncertain
                BY <4>1, Meanings DEF Uncertain
            <4> QED
                BY <3>1, <4>1, <4>2 DEF AnswerMatchesEffect
        <3> QED
            BY <2>2, <3>2, <3>3 DEF Served
    <2> QED
        BY <2>1, <2>2 DEF TransportInv, AnswerInv
<1> QED
    BY TransportInvariant, <1>1, PTL

(* PurchaseOnce for any number of repeats: a client that repeats a         *)
(* purchase with its key until it is certain has bought once, or never.    *)
THEOREM PurchasesHappenOnce == Spec => []PurchaseOnce
<1>1. TransportInv => PurchaseOnce
    <2> SUFFICES ASSUME TransportInv, req.op = "CreateOrder" PROVE PurchaseOnce
        BY DEF PurchaseOnce
    <2>0. req.op \in Ops
        BY RequestTypes DEF TransportInv, Types
    <2>1. /\ effects <= 1
          /\ outcome \in {"notfound", "insufficient", "mismatch"} => effects = 0
          /\ outcome \in {"ok", "replayed"} => key = "same"
        BY DEF TransportInv, KeyInv
    <2>2. ASSUME pc = "done", Class(reply.status) = "done" PROVE outcome \in {"ok", "replayed"}
        <3>1. Served
            BY <2>2 DEF TransportInv, AnswerInv, Refused
        <3>2. Meaning(outcome) = "done" /\ outcome \in Possible("CreateOrder") \cup Breakdowns
            BY <2>0, <2>2, <3>1, StatusMeaning DEF Served
        <3>3. outcome \in {"ok", "replayed", "mismatch", "notfound", "insufficient"} \cup Breakdowns
            BY <3>2, PossibleOutcomes
        <3> QED
            BY <3>2, <3>3, Meanings DEF Breakdowns
    <2> QED
        BY <2>1, <2>2 DEF PurchaseOnce, Answered
<1> QED
    BY TransportInvariant, <1>1, PTL

(* The timeouts leave the answer of HTTP its place before the write        *)
(* deadline.  validate asks for less: it compares the request timeout      *)
(* alone, and without this hypothesis ResponseInTime does not hold.        *)
TimeoutsAddUp == ReadTimeout + RequestTimeout + LoadTimeout < WriteTimeout

(* ResponseInTime for all timeouts that add up: no response is written     *)
(* after the write deadline, and no RPC outlives its timeout by more than  *)
(* one detached call.                                                      *)
THEOREM ResponsesAreInTime == TimeoutsAddUp => (Spec => []ResponseInTime)
<1> SUFFICES ASSUME TimeoutsAddUp PROVE Spec => []ResponseInTime
    OBVIOUS
<1>1. TransportInv => ResponseInTime
    <2> SUFFICES ASSUME TransportInv, pc = "done" PROVE ResponseInTime
        BY DEF ResponseInTime, Answered
    <2>1. reply.at \in Nat /\ reply.at <= Start + Budget + LoadTimeout
        BY DEF TransportInv, TimeInv
    <2>2. CASE req.via = "http"
        BY <2>1, <2>2, Settings DEF ResponseInTime, Start, Budget, TimeoutsAddUp
    <2>3. CASE req.via # "http"
        BY <2>1, <2>3, Settings DEF ResponseInTime, Start, Budget
    <2> QED
        BY <2>2, <2>3
<1> QED
    BY TransportInvariant, <1>1, PTL

-----------------------------------------------------------------------------
(* Both transports make the same verdict.                                  *)

Groups == {Origin, Token, Empty, Body, Id, Key, Quantity, Invalid, Page}
Checks == Seq(Groups)

(* The defects some check looks for. *)
Covered(checks) == UNION {checks[i] : i \in DOMAIN checks}

(* The defect d is met by the first check that fails. *)
MetFirst(checks, defects, d) ==
    \E i \in DOMAIN checks :
        /\ d \in checks[i] \cap defects
        /\ \A k \in 1 .. i - 1 : checks[k] \cap defects = {}

(* A set of naturals has a least member.                                   *)
LEMMA LeastMember ==
    ASSUME NEW T, T \subseteq Nat, T # {}
    PROVE  \E x \in T : \A y \in T : x <= y
<1>1. \E R : IsWellFoundedOn(R, Nat) /\ \A x, y \in Nat : <<y, x>> \in R <=> y < x
    <2> WITNESS OpToRel(<, Nat)
    <2>1. \A x, y \in Nat : <<y, x>> \in OpToRel(<, Nat) <=> y < x
        BY DEF OpToRel
    <2> QED
        BY <2>1, NatLessThanWellFounded
<1>2. PICK R : IsWellFoundedOn(R, Nat) /\ \A x, y \in Nat : <<y, x>> \in R <=> y < x
    BY <1>1
<1>3. PICK x \in T : \A y \in T : ~(<<y, x>> \in R)
    BY <1>2, WFMin
<1>4. \A y \in T : ~(y < x) /\ x \in Nat /\ y \in Nat
    BY <1>2, <1>3
<1> QED
    BY <1>3, <1>4

(* Checks fail when they cover a defect.                                   *)
LEMMA FailsCovered ==
    ASSUME NEW checks, NEW defects
    PROVE  Fails(checks, defects) <=> Covered(checks) \cap defects # {}
BY DEF Fails, Covered

(* FirstDefect is what the first failing check meets.                      *)
LEMMA FirstDefectMetFirst ==
    ASSUME NEW checks \in Checks, NEW defects, Fails(checks, defects)
    PROVE  MetFirst(checks, defects, FirstDefect(checks, defects))
<1> DEFINE Failing == {i \in DOMAIN checks : checks[i] \cap defects # {}}
           First(i) == /\ checks[i] \cap defects # {}
                       /\ ~Fails(SubSeq(checks, 1, i - 1), defects)
           first == CHOOSE i \in DOMAIN checks : First(i)
<1>1. DOMAIN checks = 1 .. Len(checks) /\ Len(checks) \in Nat
    BY DEF Checks
<1>2. ASSUME NEW i \in DOMAIN checks
      PROVE  Fails(SubSeq(checks, 1, i - 1), defects) <=>
                 \E k \in 1 .. i - 1 : checks[k] \cap defects # {}
    <2>1. /\ DOMAIN SubSeq(checks, 1, i - 1) = 1 .. i - 1
          /\ \A k \in 1 .. i - 1 : SubSeq(checks, 1, i - 1)[k] = checks[k]
        BY <1>1
    <2> QED
        BY <2>1 DEF Fails
<1>3. PICK i \in DOMAIN checks : First(i)
    <2>1. Failing # {} /\ Failing \subseteq Nat
        BY <1>1 DEF Fails
    <2>2. PICK i \in Failing : \A k \in Failing : i <= k
        BY <2>1, LeastMember
    <2>3. \A k \in 1 .. i - 1 : checks[k] \cap defects = {}
        BY <1>1, <2>2
    <2> QED
        BY <1>2, <2>2, <2>3
<1>4. first \in DOMAIN checks /\ First(first)
    BY <1>3
<1>5. FirstDefect(checks, defects) = CHOOSE d \in checks[first] \cap defects : TRUE
    BY DEF FirstDefect
<1> HIDE DEF first
<1>6. FirstDefect(checks, defects) \in checks[first] \cap defects
    BY <1>4, <1>5
<1> QED
    BY <1>2, <1>4, <1>6 DEF MetFirst

(* What checks made one after the other cover and meet first.              *)
LEMMA ChecksInOrder ==
    ASSUME NEW s \in Checks, NEW t \in Checks, NEW defects
    PROVE  /\ s \o t \in Checks
           /\ Covered(s \o t) = Covered(s) \cup Covered(t)
           /\ \A d : MetFirst(s \o t, defects, d) <=>
                \/ MetFirst(s, defects, d)
                \/ ~Fails(s, defects) /\ MetFirst(t, defects, d)
<1>1. /\ s \o t \in Checks /\ Len(s) \in Nat /\ Len(t) \in Nat
      /\ DOMAIN s = 1 .. Len(s) /\ DOMAIN t = 1 .. Len(t)
      /\ DOMAIN (s \o t) = 1 .. Len(s) + Len(t)
      /\ \A i \in 1 .. Len(s) : (s \o t)[i] = s[i]
      /\ \A i \in 1 .. Len(t) : (s \o t)[Len(s) + i] = t[i]
    BY DEF Checks
<1> DEFINE st == s \o t
<1> HIDE DEF st
<1>2. /\ DOMAIN st = 1 .. Len(s) + Len(t)
      /\ \A i \in 1 .. Len(s) : st[i] = s[i]
      /\ \A i \in 1 .. Len(t) : st[Len(s) + i] = t[i]
      /\ \A i \in 1 .. Len(s) + Len(t) : i \in 1 .. Len(s) \/ i - Len(s) \in 1 .. Len(t)
      /\ \A i \in 1 .. Len(s) + Len(t) :
            i \notin 1 .. Len(s) => st[i] = t[i - Len(s)]
    BY <1>1 DEF st
<1>3. Covered(st) = Covered(s) \cup Covered(t)
    <2>1. Covered(st) \subseteq Covered(s) \cup Covered(t)
        BY <1>1, <1>2 DEF Covered
    <2>2. \A i \in 1 .. Len(t) : Len(s) + i \in 1 .. Len(s) + Len(t)
        BY <1>1
    <2>3. 1 .. Len(s) \subseteq 1 .. Len(s) + Len(t)
        BY <1>1
    <2>4. Covered(s) \cup Covered(t) \subseteq Covered(st)
        BY <1>1, <1>2, <2>2, <2>3 DEF Covered
    <2> QED
        BY <2>1, <2>4
<1>4. ASSUME NEW d, MetFirst(st, defects, d)
      PROVE  MetFirst(s, defects, d) \/ (~Fails(s, defects) /\ MetFirst(t, defects, d))
    <2>1. PICK i \in 1 .. Len(s) + Len(t) :
            /\ d \in st[i] \cap defects
            /\ \A k \in 1 .. i - 1 : st[k] \cap defects = {}
        BY <1>2, <1>4 DEF MetFirst
    <2>2. CASE i \in 1 .. Len(s)
        <3>1. \A k \in 1 .. i - 1 : k \in 1 .. Len(s)
            BY <1>1, <2>2
        <3>2. d \in s[i] \cap defects /\ \A k \in 1 .. i - 1 : s[k] \cap defects = {}
            BY <1>2, <2>1, <2>2, <3>1
        <3>3. i \in DOMAIN s
            BY <1>1, <2>2
        <3>4. MetFirst(s, defects, d)
            BY <3>2, <3>3 DEF MetFirst
        <3> QED
            BY <3>4
    <2>3. CASE i \notin 1 .. Len(s)
        <3>1. i - Len(s) \in 1 .. Len(t) /\ st[i] = t[i - Len(s)]
            BY <1>2, <2>3
        <3>2. 1 .. Len(s) \subseteq 1 .. i - 1
            BY <1>1, <2>3
        <3>3. ~Fails(s, defects)
            BY <1>1, <1>2, <2>1, <3>2 DEF Fails
        <3>4. ASSUME NEW k \in 1 .. (i - Len(s)) - 1 PROVE t[k] \cap defects = {}
            <4>1. k \in 1 .. Len(t) /\ Len(s) + k \in 1 .. i - 1
                BY <1>1, <3>1, <3>4
            <4> QED
                BY <1>2, <2>1, <4>1
        <3> QED
            BY <1>1, <2>1, <3>1, <3>3, <3>4 DEF MetFirst
    <2> QED
        BY <2>2, <2>3
<1>5. ASSUME NEW d, MetFirst(s, defects, d) PROVE MetFirst(st, defects, d)
    <2>1. PICK i \in 1 .. Len(s) :
            /\ d \in s[i] \cap defects
            /\ \A k \in 1 .. i - 1 : s[k] \cap defects = {}
        BY <1>1, <1>5 DEF MetFirst
    <2>2. i \in 1 .. Len(s) + Len(t) /\ \A k \in 1 .. i - 1 : k \in 1 .. Len(s)
        BY <1>1
    <2> QED
        BY <1>2, <2>1, <2>2 DEF MetFirst
<1>6. ASSUME NEW d, ~Fails(s, defects), MetFirst(t, defects, d) PROVE MetFirst(st, defects, d)
    <2>1. PICK i \in 1 .. Len(t) :
            /\ d \in t[i] \cap defects
            /\ \A k \in 1 .. i - 1 : t[k] \cap defects = {}
        BY <1>1, <1>6 DEF MetFirst
    <2>2. \A k \in 1 .. Len(s) : st[k] \cap defects = {}
        BY <1>1, <1>2, <1>6 DEF Fails
    <2>3. ASSUME NEW k \in 1 .. (Len(s) + i) - 1 PROVE st[k] \cap defects = {}
        <3>1. CASE k \in 1 .. Len(s)
            BY <2>2, <3>1
        <3>2. CASE k \notin 1 .. Len(s)
            <4>1. k - Len(s) \in 1 .. i - 1 /\ k \in 1 .. Len(s) + Len(t)
                BY <1>1, <2>3, <3>2
            <4> QED
                BY <1>2, <2>1, <3>2, <4>1
        <3> QED
            BY <3>1, <3>2
    <2>4. Len(s) + i \in 1 .. Len(s) + Len(t)
        BY <1>1
    <2> QED
        BY <1>2, <2>1, <2>3, <2>4 DEF MetFirst
<1> QED
    BY <1>1, <1>3, <1>4, <1>5, <1>6 DEF st

AllChecks(via, op) == Before(via, op) \o After(via, op)

(* The defects both transports look for, and what is checked before them. *)
Common(op) ==
    CASE op = "Add" -> Invalid [] op = "Update" -> Id \cup Invalid
      [] op \in {"Delete", "GetByID"} -> Id [] op = "Get" -> Page
      [] op = "CreateOrder" -> Token \cup Id \cup Key \cup Quantity
      [] op = "GetOrder" -> Token \cup Id [] op = "ListOrders" -> Token \cup Page

Private == Origin \cup Empty \cup Body

Orders == {"CreateOrder", "GetOrder", "ListOrders"}

(* What short sequences of checks cover.                                   *)
LEMMA ShortChecks ==
    /\ <<>> \in Checks /\ Covered(<<>>) = {}
    /\ \A A \in Groups : <<A>> \in Checks /\ Covered(<<A>>) = A
    /\ \A A, B \in Groups : <<A, B>> \in Checks /\ Covered(<<A, B>>) = A \cup B
    /\ \A A, B, C \in Groups :
            <<A, B, C>> \in Checks /\ Covered(<<A, B, C>>) = A \cup B \cup C
    /\ \A A, B, C, D \in Groups :
            <<A, B, C, D>> \in Checks /\ Covered(<<A, B, C, D>>) = A \cup B \cup C \cup D
<1>1. <<>> \in Checks /\ Covered(<<>>) = {}
    BY DEF Checks, Covered
<1>2. ASSUME NEW A \in Groups
      PROVE  <<A>> \in Checks /\ Covered(<<A>>) = A
    <2>1. \A x : x \in Covered(<<A>>) <=> x \in A
        BY DEF Covered
    <2>2. <<A>> \in Checks
        BY DEF Checks
    <2> QED
        BY <2>1, <2>2
<1>3. ASSUME NEW A \in Groups, NEW B \in Groups
      PROVE  <<A, B>> \in Checks /\ Covered(<<A, B>>) = A \cup B
    <2>1. \A x : x \in Covered(<<A, B>>) <=> x \in A \cup B
        BY DEF Covered
    <2>2. <<A, B>> \in Checks
        BY DEF Checks
    <2> QED
        BY <2>1, <2>2
<1>4. ASSUME NEW A \in Groups, NEW B \in Groups, NEW C \in Groups
      PROVE  <<A, B, C>> \in Checks /\ Covered(<<A, B, C>>) = A \cup B \cup C
    <2>1. \A x : x \in Covered(<<A, B, C>>) <=> x \in A \cup B \cup C
        BY DEF Covered
    <2>2. <<A, B, C>> \in Checks
        BY DEF Checks
    <2> QED
        BY <2>1, <2>2
<1>5. ASSUME NEW A \in Groups, NEW B \in Groups, NEW C \in Groups, NEW D \in Groups
      PROVE  <<A, B, C, D>> \in Checks /\ Covered(<<A, B, C, D>>) = A \cup B \cup C \cup D
    <2>1. \A x : x \in Covered(<<A, B, C, D>>) <=> x \in A \cup B \cup C \cup D
        BY DEF Covered
    <2>2. <<A, B, C, D>> \in Checks
        BY DEF Checks
    <2> QED
        BY <2>1, <2>2
<1> QED
    BY <1>1, <1>2, <1>3, <1>4, <1>5

(* The checks of the middleware, the interceptors and the handlers.        *)
LEMMA HandlerChecks ==
    ASSUME NEW op \in Ops
    PROVE  /\ Csrf(op) \in Checks /\ Covered(Csrf(op)) \subseteq Origin
           /\ RequireAuth(op) \in Checks /\ RequireToken(op) = RequireAuth(op)
           /\ Covered(RequireAuth(op)) = IF op \in Orders THEN Token ELSE {}
           /\ Handler(op).head \in Checks /\ Handler(op).body \in Checks
           /\ HandlerRPC(op) \in Checks
           /\ Covered(HandlerRPC(op)) = Common(op) \ Token
           /\ Common(op) \ Token \subseteq
                    Covered(Handler(op).head) \cup Covered(Handler(op).body)
           /\ Covered(Handler(op).head) \cup Covered(Handler(op).body) \subseteq
                    (Common(op) \ Token) \cup Empty \cup Body
           /\ op \notin WithBody => Handler(op).body = <<>>
           /\ op \notin Orders => Common(op) \cap Token = {}
           /\ op \in Orders => Token \subseteq Common(op)
<1>1. {Origin, Token, Empty, Body, Id, Key, Quantity, Invalid, Page} \subseteq Groups
    BY DEF Groups
<1>2. /\ Csrf(op) \in Checks /\ Covered(Csrf(op)) \subseteq Origin
      /\ RequireAuth(op) \in Checks
      /\ Covered(RequireAuth(op)) = IF op \in Orders THEN Token ELSE {}
    BY <1>1, ShortChecks DEF Csrf, RequireAuth, Orders
<1>3. RequireToken(op) = RequireAuth(op)
    BY DEF RequireToken, RequireAuth, Public, Ops, Writes
<1>4. /\ Covered(<<>>) = {} /\ Covered(<<Id>>) = Id /\ Covered(<<Page>>) = Page
      /\ Covered(<<Empty>>) = Empty /\ Covered(<<Invalid>>) = Invalid
      /\ Covered(<<Id, Empty>>) = Id \cup Empty /\ Covered(<<Id, Invalid>>) = Id \cup Invalid
      /\ Covered(<<Body, Invalid>>) = Body \cup Invalid
      /\ Covered(<<Id, Key, Quantity>>) = Id \cup Key \cup Quantity
      /\ Covered(<<Body, Id, Key, Quantity>>) = Body \cup Id \cup Key \cup Quantity
      /\ {<<>>, <<Id>>, <<Page>>, <<Empty>>, <<Invalid>>, <<Id, Empty>>, <<Id, Invalid>>,
          <<Body, Invalid>>, <<Id, Key, Quantity>>, <<Body, Id, Key, Quantity>>} \subseteq Checks
    BY <1>1, ShortChecks
<1>5. Token \cap (Id \cup Key \cup Quantity \cup Invalid \cup Page) = {}
    BY DEF Token, Id, Key, Quantity, Invalid, Page
<1>6. CASE op = "Add"
    <2>1. /\ Handler(op) = Add /\ HandlerRPC(op) = <<Invalid>>
          /\ Common(op) = Invalid
        BY <1>6 DEF Handler, HandlerRPC, CreateProductRPC, Common
    <2>2. Handler(op).head = <<Empty>> /\ Handler(op).body = <<Body, Invalid>>
        BY <2>1 DEF Add
    <2> QED
        BY <1>2, <1>3, <1>4, <1>5, <1>6, <2>1, <2>2 DEF Orders, WithBody
<1>7. CASE op = "Update"
    <2>1. /\ Handler(op) = Update /\ HandlerRPC(op) = <<Id, Invalid>>
          /\ Common(op) = Id \cup Invalid
        BY <1>7 DEF Handler, HandlerRPC, UpdateProductRPC, Common
    <2>2. Handler(op).head = <<Id, Empty>> /\ Handler(op).body = <<Body, Invalid>>
        BY <2>1 DEF Update
    <2> QED
        BY <1>2, <1>3, <1>4, <1>5, <1>7, <2>1, <2>2 DEF Orders, WithBody
<1>8. CASE op = "Delete"
    <2>1. /\ Handler(op) = Delete /\ HandlerRPC(op) = <<Id>>
          /\ Common(op) = Id
        BY <1>8 DEF Handler, HandlerRPC, DeleteProductRPC, Common
    <2>2. Handler(op).head = <<Id>> /\ Handler(op).body = <<>>
        BY <2>1 DEF Delete
    <2> QED
        BY <1>2, <1>3, <1>4, <1>5, <1>8, <2>1, <2>2 DEF Orders, WithBody
<1>9. CASE op = "Get"
    <2>1. /\ Handler(op) = Get /\ HandlerRPC(op) = <<Page>>
          /\ Common(op) = Page
        BY <1>9 DEF Handler, HandlerRPC, ListProductsRPC, Common
    <2>2. Handler(op).head = <<Page>> /\ Handler(op).body = <<>>
        BY <2>1 DEF Get
    <2> QED
        BY <1>2, <1>3, <1>4, <1>5, <1>9, <2>1, <2>2 DEF Orders, WithBody
<1>10. CASE op = "GetByID"
    <2>1. /\ Handler(op) = GetByID /\ HandlerRPC(op) = <<Id>>
          /\ Common(op) = Id
        BY <1>10 DEF Handler, HandlerRPC, GetProductRPC, Common
    <2>2. Handler(op).head = <<Id>> /\ Handler(op).body = <<>>
        BY <2>1 DEF GetByID
    <2> QED
        BY <1>2, <1>3, <1>4, <1>5, <1>10, <2>1, <2>2 DEF Orders, WithBody
<1>11. CASE op = "CreateOrder"
    <2>1. /\ Handler(op) = CreateOrder /\ HandlerRPC(op) = <<Id, Key, Quantity>>
          /\ Common(op) = Token \cup Id \cup Key \cup Quantity
        BY <1>11 DEF Handler, HandlerRPC, CreateOrderRPC, Common
    <2>2. Handler(op).head = <<Empty>> /\ Handler(op).body = <<Body, Id, Key, Quantity>>
        BY <2>1 DEF CreateOrder
    <2> QED
        BY <1>2, <1>3, <1>4, <1>5, <1>11, <2>1, <2>2 DEF Orders, WithBody
<1>12. CASE op = "GetOrder"
    <2>1. /\ Handler(op) = GetOrder /\ HandlerRPC(op) = <<Id>>
          /\ Common(op) = Token \cup Id
        BY <1>12 DEF Handler, HandlerRPC, GetOrderRPC, Common
    <2>2. Handler(op).head = <<Id>> /\ Handler(op).body = <<>>
        BY <2>1 DEF GetOrder
    <2> QED
        BY <1>2, <1>3, <1>4, <1>5, <1>12, <2>1, <2>2 DEF Orders, WithBody
<1>13. CASE op = "ListOrders"
    <2>1. /\ Handler(op) = ListOrders /\ HandlerRPC(op) = <<Page>>
          /\ Common(op) = Token \cup Page
        BY <1>13 DEF Handler, HandlerRPC, ListOrdersRPC, Common
    <2>2. Handler(op).head = <<Page>> /\ Handler(op).body = <<>>
        BY <2>1 DEF ListOrders
    <2> QED
        BY <1>2, <1>3, <1>4, <1>5, <1>13, <2>1, <2>2 DEF Orders, WithBody
<1> QED
    BY <1>6, <1>7, <1>8, <1>9, <1>10, <1>11, <1>12, <1>13 DEF Ops, Writes

(* Every check of a transport, and that After is for bodies only.          *)
LEMMA TransportChecks ==
    ASSUME NEW via \in {"http", "grpc"}, NEW op \in Ops
    PROVE  /\ Before(via, op) \in Checks /\ After(via, op) \in Checks
           /\ via = "grpc" \/ op \notin WithBody => After(via, op) = <<>>
           /\ Common(op) \subseteq Covered(AllChecks(via, op))
           /\ Covered(AllChecks(via, op)) \subseteq Common(op) \cup Private
           /\ via = "grpc" => Covered(AllChecks(via, op)) \subseteq Common(op) \cup Body
<1>1. Body \in Groups /\ <<Body>> \in Checks /\ Covered(<<Body>>) = Body
    BY ShortChecks DEF Groups
<1>2. <<>> \in Checks /\ Covered(<<>>) = {}
    BY ShortChecks
<1>3. CASE via = "http"
    <2>1. /\ Before(via, op) = Csrf(op) \o RequireAuth(op) \o Handler(op).head
          /\ After(via, op) = Handler(op).body
        BY <1>3 DEF Before, After
    <2>2. /\ Csrf(op) \o RequireAuth(op) \in Checks
          /\ Covered(Csrf(op) \o RequireAuth(op)) = Covered(Csrf(op)) \cup Covered(RequireAuth(op))
        BY HandlerChecks, ChecksInOrder
    <2>3. /\ Before(via, op) \in Checks /\ After(via, op) \in Checks
          /\ Covered(Before(via, op)) =
                Covered(Csrf(op)) \cup Covered(RequireAuth(op)) \cup Covered(Handler(op).head)
        <3> DEFINE first == Csrf(op) \o RequireAuth(op)
        <3>1. /\ first \in Checks /\ Before(via, op) = first \o Handler(op).head
              /\ Covered(first) = Covered(Csrf(op)) \cup Covered(RequireAuth(op))
            BY <2>1, <2>2
        <3> HIDE DEF first
        <3>2. Handler(op).head \in Checks /\ After(via, op) \in Checks
            BY <2>1, HandlerChecks
        <3>3. /\ Before(via, op) \in Checks
              /\ Covered(Before(via, op)) = Covered(first) \cup Covered(Handler(op).head)
            BY <3>1, <3>2, ChecksInOrder
        <3> QED
            BY <3>1, <3>2, <3>3
    <2>4. Covered(AllChecks(via, op)) = Covered(Before(via, op)) \cup Covered(Handler(op).body)
        BY <2>1, <2>3, ChecksInOrder DEF AllChecks
    <2>5. op \notin WithBody => After(via, op) = <<>>
        BY <2>1, HandlerChecks
    <2> QED
        BY <1>3, <2>3, <2>4, <2>5, HandlerChecks DEF Private
<1>4. CASE via = "grpc"
    <2>1. Before(via, op) = <<Body>> \o RequireAuth(op) \o HandlerRPC(op) /\ After(via, op) = <<>>
        BY <1>4, HandlerChecks DEF Before, After
    <2>2. /\ <<Body>> \o RequireAuth(op) \in Checks
          /\ Covered(<<Body>> \o RequireAuth(op)) = Body \cup Covered(RequireAuth(op))
        BY <1>1, HandlerChecks, ChecksInOrder
    <2>3. /\ Before(via, op) \in Checks /\ After(via, op) \in Checks
          /\ Covered(Before(via, op)) =
                Body \cup Covered(RequireAuth(op)) \cup Covered(HandlerRPC(op))
        <3> DEFINE first == <<Body>> \o RequireAuth(op)
        <3>1. /\ first \in Checks /\ Before(via, op) = first \o HandlerRPC(op)
              /\ Covered(first) = Body \cup Covered(RequireAuth(op))
            BY <2>1, <2>2
        <3> HIDE DEF first
        <3>2. HandlerRPC(op) \in Checks /\ After(via, op) \in Checks
            BY <1>2, <2>1, HandlerChecks
        <3>3. /\ Before(via, op) \in Checks
              /\ Covered(Before(via, op)) = Covered(first) \cup Covered(HandlerRPC(op))
            BY <3>1, <3>2, ChecksInOrder
        <3> QED
            BY <3>1, <3>2, <3>3
    <2>4. Covered(AllChecks(via, op)) = Covered(Before(via, op))
        BY <1>2, <2>1, <2>3, ChecksInOrder DEF AllChecks
    <2> QED
        BY <1>4, <2>1, <2>3, <2>4, HandlerChecks DEF Private
<1> QED
    BY <1>3, <1>4

(* A defect both transports look for is met by the check of the token      *)
(* when there is something wrong with that.                                *)
LEMMA TokenMetFirst ==
    ASSUME NEW via \in {"http", "grpc"}, NEW op \in Ops, NEW defects, NEW d,
           defects \subseteq Common(op) \cup Wide, MetFirst(AllChecks(via, op), defects, d)
    PROVE  d \in defects /\ (d \in Token <=> defects \cap Token # {})
<1>1. d \in defects
    BY DEF MetFirst
<1>2. Token \cap Wide = {} /\ Token \cap Private = {} /\ Common(op) \cap Private = {}
      /\ Wide \cap Private = {} /\ Origin \cup Body \subseteq Private
    <2>1. /\ Common(op) \subseteq Token \cup Id \cup Key \cup Quantity \cup Invalid \cup Page
        BY DEF Common, Ops, Writes
    <2> QED
        BY <2>1 DEF Token, Wide, Private, Origin, Empty, Body, Id, Key, Quantity, Invalid, Page
<1>3. CASE defects \cap Token = {}
    BY <1>1, <1>3
<1>4. CASE defects \cap Token # {}
    <2>1. op \in Orders /\ Covered(RequireAuth(op)) = Token
        BY <1>2, <1>4, HandlerChecks
    <2>2. Fails(RequireAuth(op), defects)
        BY <1>4, <2>1, FailsCovered
    <2>3. \A checks \in Checks : Covered(checks) \subseteq Private => ~Fails(checks, defects)
        BY <1>2, FailsCovered
    <2>4. PICK first \in Checks, rest \in Checks :
            /\ Covered(first) \subseteq Private
            /\ AllChecks(via, op) = (first \o RequireAuth(op)) \o rest
        <3>1. CASE via = "http"
            <4>1. Before(via, op) = Csrf(op) \o RequireAuth(op) \o Handler(op).head
                BY <3>1 DEF Before
            <4>2. AllChecks(via, op) =
                    (Csrf(op) \o RequireAuth(op)) \o (Handler(op).head \o Handler(op).body)
                <5>1. Csrf(op) \o RequireAuth(op) \in Checks
                    BY HandlerChecks, ChecksInOrder
                <5>2. Handler(op).head \in Checks /\ Handler(op).body \in Checks
                    BY HandlerChecks
                <5>3. \A r, t, u \in Checks : (r \o t) \o u = r \o (t \o u)
                    BY ConcatAssociative DEF Checks
                <5>4. ((Csrf(op) \o RequireAuth(op)) \o Handler(op).head) \o Handler(op).body =
                        (Csrf(op) \o RequireAuth(op)) \o (Handler(op).head \o Handler(op).body)
                    BY <5>1, <5>2, <5>3, Zenon
                <5> QED
                    BY <3>1, <4>1, <5>4 DEF AllChecks, After
            <4>3. Handler(op).head \o Handler(op).body \in Checks
                BY HandlerChecks, ChecksInOrder
            <4> QED
                BY <1>2, <4>2, <4>3, HandlerChecks
        <3>2. CASE via = "grpc"
            <4>1. <<Body>> \in Checks /\ Covered(<<Body>>) = Body
                BY ShortChecks DEF Groups
            <4>2. <<Body>> \o RequireAuth(op) \in Checks
                BY <4>1, HandlerChecks, ChecksInOrder
            <4>3. AllChecks(via, op) = ((<<Body>> \o RequireAuth(op)) \o HandlerRPC(op)) \o <<>>
                BY <3>2, HandlerChecks DEF AllChecks, Before, After
            <4>4. AllChecks(via, op) = (<<Body>> \o RequireAuth(op)) \o HandlerRPC(op)
                <5>1. (<<Body>> \o RequireAuth(op)) \o HandlerRPC(op) \in Checks
                    BY <4>2, HandlerChecks, ChecksInOrder
                <5> QED
                    BY <4>3, <5>1, ConcatEmptySeq DEF Checks
            <4> QED
                BY <1>2, <4>1, <4>4, HandlerChecks
        <3> QED
            BY <3>1, <3>2
    <2>5. RequireAuth(op) \in Checks /\ first \o RequireAuth(op) \in Checks
        BY HandlerChecks, ChecksInOrder
    <2>6. ~Fails(first, defects) /\ Fails(first \o RequireAuth(op), defects)
        BY <2>2, <2>3, <2>4, <2>5, ChecksInOrder, FailsCovered
    <2>7. MetFirst(first \o RequireAuth(op), defects, d)
        BY <2>4, <2>5, <2>6, ChecksInOrder
    <2>8. MetFirst(first, defects, d) \/ MetFirst(RequireAuth(op), defects, d)
        BY <2>5, <2>7, ChecksInOrder
    <2>9. ~MetFirst(first, defects, d)
        BY <2>6 DEF MetFirst, Fails
    <2>10. d \in Covered(RequireAuth(op))
        BY <2>8, <2>9 DEF MetFirst, Covered
    <2> QED
        BY <1>1, <1>4, <2>1, <2>10
<1> QED
    BY <1>3, <1>4

(* Whether the request in hand fails a check of its transport. *)
FailsBefore == Fails(Before(req.via, req.op), req.defects)
FailsAny == Fails(AllChecks(req.via, req.op), req.defects)

(* What has been checked so far: a request that reaches the service fails  *)
(* no check, and one that is refused is told of the first it fails.        *)
CheckInv ==
    /\ pc = "body" => ~FailsBefore
    /\ pc \in Calls \cup {"invalidate"} => ~FailsAny
    /\ pc = "done" /\ outcome = "none" =>
        \E d \in req.defects :
            /\ MetFirst(AllChecks(req.via, req.op), req.defects, d)
            /\ reply.status = Refusal(req.via, d)
    /\ pc = "done" /\ outcome \notin {"none", "stalled"} => ~FailsAny

(* The handling follows the checks in their order.                         *)
LEMMA CheckStep == TransportInv /\ CheckInv /\ [Next]_vars => CheckInv'
<1> SUFFICES ASSUME TransportInv, CheckInv, [Next]_vars PROVE CheckInv'
    OBVIOUS
<1> DEFINE before == Before(req.via, req.op)
           after == After(req.via, req.op)
           all == AllChecks(req.via, req.op)
<1>0. req.via \in {"http", "grpc"} /\ req.op \in Ops /\ Types /\ AnswerInv
    BY RequestTypes DEF TransportInv, Types
<1>1. /\ before \in Checks /\ after \in Checks
      /\ req.via = "grpc" \/ req.op \notin WithBody => after = <<>>
    BY <1>0, TransportChecks
<1>2. /\ FailsAny <=> FailsBefore \/ Fails(after, req.defects)
      /\ \A d : MetFirst(all, req.defects, d) <=>
            \/ MetFirst(before, req.defects, d)
            \/ ~FailsBefore /\ MetFirst(after, req.defects, d)
    BY <1>1, ChecksInOrder, FailsCovered DEF AllChecks, FailsAny, FailsBefore
<1>3. ~Fails(<<>>, req.defects)
    BY DEF Fails
<1>4. ASSUME UNCHANGED req PROVE UNCHANGED <<FailsAny, FailsBefore>>
    BY <1>4 DEF FailsAny, FailsBefore
<1>5. ASSUME NEW checks \in Checks, Refuse(checks), pc \in {"head", "body"},
             \A d : MetFirst(checks, req.defects, d) => MetFirst(all, req.defects, d)
      PROVE  CheckInv'
    <2>1. /\ UNCHANGED req /\ pc' = "done" /\ outcome' = "none"
          /\ reply'.status = Refusal(req.via, FirstDefect(checks, req.defects))
        BY <1>0, <1>5 DEF Refuse, Respond, AnswerInv
    <2>2. MetFirst(all, req.defects, FirstDefect(checks, req.defects))
        BY <1>5, FirstDefectMetFirst DEF Refuse
    <2>3. FirstDefect(checks, req.defects) \in req.defects
        BY <2>2 DEF MetFirst
    <2> QED
        BY <2>1, <2>2, <2>3 DEF CheckInv, Calls
<1>6. ASSUME NEW at \in Calls, NEW ticks, Wait(at, ticks), ~FailsAny PROVE CheckInv'
    BY <1>4, <1>6 DEF Wait, CheckInv, Calls
<1>7. ASSUME Call, ~FailsAny PROVE CheckInv'
    BY <1>6, <1>7 DEF Call, Calls
<1>8. ASSUME NEW o, Answer(o), o \notin {"none", "stalled"}, pc \in Calls \cup {"invalidate"}
      PROVE  CheckInv'
    <2>1. UNCHANGED req /\ pc' = "done" /\ outcome' = o
        BY <1>8 DEF Answer, Respond
    <2> QED
        BY <1>4, <1>8, <2>1 DEF CheckInv, Calls
<1>9. CASE Enter
    <2>1. CASE Refuse(before)
        BY <1>1, <1>2, <1>5, <1>9, <2>1 DEF Enter
    <2>2. CASE ~FailsBefore /\ Wait("body", ReadTimeout)
        BY <1>4, <2>2 DEF Wait, CheckInv, Calls
    <2>3. CASE ~FailsBefore /\ Call /\ ~(req.via = "http" /\ req.op \in WithBody)
        BY <1>0, <1>1, <1>2, <1>3, <1>7, <2>3
    <2> QED
        BY <1>9, <2>1, <2>2, <2>3 DEF Enter, FailsBefore
<1>10. CASE BodyRead
    <2>1. pc = "body" /\ ~FailsBefore
        BY <1>10 DEF BodyRead, CheckInv
    <2>2. CASE Refuse(after)
        BY <1>1, <1>2, <1>5, <2>1, <2>2
    <2>3. CASE ~Fails(after, req.defects) /\ Call
        BY <1>2, <1>7, <2>1, <2>3
    <2> QED
        BY <1>10, <2>2, <2>3 DEF BodyRead
<1>11. CASE BodyLost
    BY <1>11 DEF BodyLost, Respond, CheckInv, Calls
<1>12. CASE StoreAnswers
    <2>1. PICK o \in Answers(req.op) : Answer(o)
        BY <1>12 DEF StoreAnswers
    <2>2. o \notin {"none", "stalled"}
        BY <1>0, AnswersPossible, PossibleOutcomes DEF Ops, Writes
    <2> QED
        BY <1>8, <1>12, <2>1, <2>2 DEF StoreAnswers, Calls
<1>13. CASE StoreCommits
    <2>1. CASE req.op = "Add"
        BY <1>8, <1>13, <2>1 DEF StoreCommits, Calls
    <2>2. CASE req.op # "Add"
        <3>1. pc = "store" /\ pc' = "invalidate" /\ UNCHANGED req
            BY <1>13, <2>2 DEF StoreCommits
        <3> QED
            BY <1>4, <3>1 DEF CheckInv, Calls
    <2> QED
        BY <2>1, <2>2
<1>14. CASE StoreFails \/ CacheHit \/ FlightEnds \/ Panics
    <2>1. PICK o \in {"ok", "notfound", "unavailable", "internal", "deadline", "canceled", "panic"} :
            Answer(o)
        BY <1>14 DEF StoreFails, CacheHit, FlightEnds, Panics
    <2> QED
        BY <1>8, <1>14, <2>1 DEF StoreFails, CacheHit, FlightEnds, Panics, Calls
<1>15. CASE Invalidated
    BY <1>0, <1>8, <1>15 DEF Invalidated, AnswerInv
<1>16. CASE CacheMiss
    BY <1>6, <1>16 DEF CacheMiss, CheckInv, Calls
<1>17. CASE Tick \/ ClientGone \/ SellOut \/ LateEnds \/ UNCHANGED vars
    <2>1. UNCHANGED <<pc, outcome, req, reply>>
        BY <1>17 DEF Tick, ClientGone, SellOut, LateEnds, attempt, vars
    <2> QED
        BY <1>4, <2>1 DEF CheckInv
<1>18. CASE Retry \/ RetryEarly \/ Receive
    BY <1>18 DEF Retry, RetryEarly, Receive, Resend, Arrive, CheckInv, Calls
<1> QED
    BY <1>9, <1>10, <1>11, <1>12, <1>13, <1>14, <1>15, <1>16, <1>17, <1>18 DEF Next, Serve

(* What a refusal tells of a defect both transports look for.              *)
LEMMA CommonRefusal ==
    ASSUME NEW via, NEW op \in Ops, NEW d \in Common(op) \cup Wide
    PROVE  Class(Refusal(via, d)) = IF d \in Token THEN "unauthenticated" ELSE "invalid"
<1>1. Common(op) \subseteq Token \cup Id \cup Key \cup Quantity \cup Invalid \cup Page
    BY DEF Common, Ops, Writes
<1>2. CASE d \in Token
    <2>1. HTTPRefusal(d) = "401" /\ GRPCRefusal(d) = "Unauthenticated"
        BY <1>2 DEF HTTPRefusal, GRPCRefusal, Token, Origin, Invalid, Quantity
    <2> QED
        BY <1>2, <2>1, StatusClasses DEF Refusal
<1>3. CASE d \notin Token
    <2>1. d \notin Origin \cup {"tooLarge"}
        BY <1>1 DEF Token, Id, Key, Quantity, Invalid, Page, Wide, Origin
    <2>2. HTTPRefusal(d) \in {"422", "400"} /\ GRPCRefusal(d) = "InvalidArgument"
        BY <1>3, <2>1 DEF HTTPRefusal, GRPCRefusal
    <2> QED
        BY <1>3, <2>2, StatusClasses DEF Refusal
<1> QED
    BY <1>2, <1>3

(* SameVerdict for any number of defects: what a request was told is what  *)
(* the other transport says to the same operation, the same mistakes and   *)
(* the same outcome.                                                       *)
THEOREM VerdictsAgree == Spec => []SameVerdict
<1>1. Init => CheckInv
    BY DEF Init, CheckInv, Calls
<1>2. TransportInv /\ CheckInv => SameVerdict
    <2> SUFFICES ASSUME TransportInv, CheckInv PROVE SameVerdict
        OBVIOUS
    <2> DEFINE other == IF req.via = "http" THEN "grpc" ELSE "http"
               ds == req.defects
               shared == ds \subseteq Shown(other, req.op) \ Body
               theirs == AllChecks(other, req.op)
    <2>0. req.via \in {"http", "grpc"} /\ req.op \in Ops /\ ds \subseteq Shown(req.via, req.op)
        BY RequestTypes DEF TransportInv, Types
    <2> SUFFICES ASSUME pc = "done", shared, outcome # "stalled"
                 PROVE  Class(reply.status) =
                          Class(IF Fails(theirs, ds) THEN Refusal(other, FirstDefect(theirs, ds))
                                ELSE Status(other, req.op, outcome))
        BY DEF SameVerdict, Answered, AllChecks
    <2>1. other \in {"http", "grpc"} /\ (other = "grpc" \/ req.via = "grpc")
        BY <2>0
    <2>2. \A via \in {"http", "grpc"} :
            Shown(via, req.op) \subseteq Covered(AllChecks(via, req.op)) \cup Wide
        BY DEF Shown, Covered, AllChecks
    <2>3. ds \subseteq Common(req.op) \cup Wide
        <3>1. Shown("grpc", req.op) \subseteq Common(req.op) \cup Body \cup Wide
            BY <2>0, <2>2, TransportChecks
        <3> QED
            BY <2>0, <2>1, <3>1
    <2>4. \A via \in {"http", "grpc"} :
            Fails(AllChecks(via, req.op), ds) <=> Common(req.op) \cap ds # {}
        <3>1. Wide \cap (Common(req.op) \cup Private) = {} /\ Common(req.op) \cap Private = {}
            <4>1. Common(req.op) \subseteq Token \cup Id \cup Key \cup Quantity \cup Invalid \cup Page
                BY <2>0 DEF Common, Ops, Writes
            <4> QED
                BY <4>1 DEF Token, Wide, Private, Origin, Empty, Body, Id, Key, Quantity, Invalid, Page
        <3>2. ASSUME NEW via \in {"http", "grpc"}
              PROVE  Covered(AllChecks(via, req.op)) \cap ds = Common(req.op) \cap ds
            <4>1. /\ Common(req.op) \subseteq Covered(AllChecks(via, req.op))
                  /\ Covered(AllChecks(via, req.op)) \subseteq Common(req.op) \cup Private
                BY <2>0, TransportChecks
            <4> QED
                BY <2>3, <3>1, <4>1
        <3> QED
            BY <3>2, FailsCovered
    <2>5. \A via \in {"http", "grpc"} : \A d :
            MetFirst(AllChecks(via, req.op), ds, d) =>
                Class(Refusal(via, d)) = IF ds \cap Token # {} THEN "unauthenticated" ELSE "invalid"
        <3> SUFFICES ASSUME NEW via \in {"http", "grpc"}, NEW d,
                            MetFirst(AllChecks(via, req.op), ds, d)
                     PROVE  Class(Refusal(via, d)) =
                                IF ds \cap Token # {} THEN "unauthenticated" ELSE "invalid"
            OBVIOUS
        <3>1. d \in ds /\ (d \in Token <=> ds \cap Token # {})
            BY <2>0, <2>3, TokenMetFirst
        <3> QED
            BY <2>0, <2>3, <3>1, CommonRefusal
    <2>6. CASE outcome = "none"
        <3>1. PICK d : /\ MetFirst(AllChecks(req.via, req.op), ds, d)
                       /\ reply.status = Refusal(req.via, d)
            BY <2>6 DEF CheckInv
        <3>2. Fails(theirs, ds)
            <4>1. Fails(AllChecks(req.via, req.op), ds)
                BY <3>1 DEF MetFirst, Fails
            <4> QED
                BY <2>0, <2>1, <2>4, <4>1
        <3>3. theirs \in Checks
            BY <2>0, <2>1, TransportChecks, ChecksInOrder DEF AllChecks
        <3>4. MetFirst(theirs, ds, FirstDefect(theirs, ds))
            BY <3>2, <3>3, FirstDefectMetFirst
        <3>5. Class(Refusal(other, FirstDefect(theirs, ds))) = Class(Refusal(req.via, d))
            BY <2>0, <2>1, <2>5, <3>1, <3>4
        <3> QED
            BY <3>1, <3>2, <3>5
    <2>7. CASE outcome # "none"
        <3>1. ~FailsAny /\ Served
            BY <2>7 DEF CheckInv, TransportInv, AnswerInv, Refused
        <3>2. ~Fails(theirs, ds)
            BY <2>0, <2>1, <2>4, <3>1 DEF FailsAny
        <3>3. /\ Class(reply.status) = Meaning(outcome)
              /\ Class(Status(other, req.op, outcome)) = Meaning(outcome)
            BY <2>0, <3>1, StatusMeaning DEF Served
        <3> QED
            BY <3>2, <3>3
    <2> QED
        BY <2>6, <2>7
<1> QED
    BY <1>1, <1>2, CheckStep, TransportInvariant, PTL DEF Spec
=============================================================================
