----------------------------- MODULE Transport ------------------------------
(***************************************************************************)
(* internal/transport: a request to the HTTP or the gRPC server, from the  *)
(* moment its headers are read to its answer, through middleware or        *)
(* interceptors, handler and service, and the repeats a client makes of it *)
(* when it is left without an answer it can rely on.  A request is its     *)
(* operation and the set of things wrong with it; the store, the cache and *)
(* the client decide what happens to it.  Time is counted in ticks from    *)
(* the headers on.  Calls return at once when their context ends.          *)
(***************************************************************************)
EXTENDS Config, Sequences, FiniteSetsExt

CONSTANTS
    ReadTimeout,        \* HTTP_READ_TIMEOUT
    WriteTimeout,       \* HTTP_WRITE_TIMEOUT
    RequestTimeout,     \* HTTP_REQUEST_TIMEOUT
    GRPCRequestTimeout, \* GRPC_REQUEST_TIMEOUT
    LoadTimeout,        \* SERVICE_LOAD_TIMEOUT
    MaxDefects,         \* bound on what is wrong with one request
    MaxTries,           \* bound on how often it is sent
    MaxClock            \* bound on the clock

(* The settings have passed validate. *)
ASSUME SettingsAssumption ==
    /\ {ReadTimeout, WriteTimeout, RequestTimeout, GRPCRequestTimeout, LoadTimeout} \subseteq Int
    /\ Positive(ReadTimeout) /\ Positive(WriteTimeout) /\ Positive(RequestTimeout)
    /\ ResponseDeadlineOk(WriteTimeout, RequestTimeout)
    /\ Positive(GRPCRequestTimeout) /\ Positive(LoadTimeout)
    /\ MaxDefects \in Nat /\ MaxTries \in Nat /\ MaxClock \in Nat

VARIABLES
    req,        \* the request: via, op, defects
    pc,         \* where its handling is
    clock,      \* ticks since its headers were read
    left,       \* ticks before the call in progress is given up
    outcome,    \* what the service answered
    effect,     \* history: the store has committed this attempt's write
    gone,       \* the client has closed the connection or cancelled the RPC
    reply,      \* the status and the time it was sent
    key,        \* idempotency_keys: new, or used by the same or another order
    sells,      \* the product exists and its stock covers the order
    tries,      \* how often the request was sent
    late,       \* an attempt its client gave up is still with the store
    effects     \* history: the writes committed by all attempts

attempt == <<pc, clock, left, outcome, effect, gone, reply>>
others == <<key, sells, tries, late, effects>>
vars == <<req, attempt, others>>

-----------------------------------------------------------------------------
(* What can be wrong with a request.                                       *)
Origin == {"foreignOrigin"}
Token == {"noToken", "badSignature", "expired", "badSubject"}
Empty == {"emptyBody"}
Body == {"malformed", "tooLarge"}
Id == {"badId"}
Key == {"noKey", "longKey"}
Quantity == {"badQuantity"}
Invalid == {"invalid"}
Page == {"badLimit", "badCursor"}

(* A stock above INTEGER or a name above VARCHAR(100): Validate lets it    *)
(* pass and the INSERT or UPDATE fails.                                    *)
Wide == {"tooWide"}

Writes == {"Add", "Update", "Delete", "CreateOrder"}
Ops == Writes \cup {"Get", "GetByID", "GetOrder", "ListOrders"}
WithBody == {"Add", "Update", "CreateOrder"}

-----------------------------------------------------------------------------
(* HTTP: what the middleware and each handler check, in order, before and  *)
(* after reading the body, and the status of the errors each handler       *)
(* knows.                                                                  *)

(* csrf: CrossOriginProtection lets GET pass. *)
Csrf(op) == IF op \in Writes THEN <<Origin>> ELSE <<>>

(* NewMux: the routes wrapped in requireAuth. *)
RequireAuth(op) ==
    IF op \in {"CreateOrder", "GetOrder", "ListOrders"} THEN <<Token>> ELSE <<>>

Add == [head |-> <<Empty>>, body |-> <<Body, Invalid>>, ok |-> "201", errors |-> <<>>]

Update == [head |-> <<Id, Empty>>, body |-> <<Body, Invalid>>, ok |-> "200",
           errors |-> [notfound |-> "404"]]

(* Mutant: the handler does not know ErrProductInUse. *)
DeleteAnyError == [head |-> <<Id>>, body |-> <<>>, ok |-> "200",
                   errors |-> [notfound |-> "404"]]

Delete == [head |-> <<Id>>, body |-> <<>>, ok |-> "200",
           errors |-> [notfound |-> "404", inuse |-> "409"]]

Get == [head |-> <<Page>>, body |-> <<>>, ok |-> "200", errors |-> <<>>]

GetByID == [head |-> <<Id>>, body |-> <<>>, ok |-> "200",
            errors |-> [notfound |-> "404"]]

CreateOrder == [head |-> <<Empty>>, body |-> <<Body, Id, Key, Quantity>>, ok |-> "201",
                errors |-> [notfound |-> "404", insufficient |-> "409", mismatch |-> "422"]]

GetOrder == [head |-> <<Id>>, body |-> <<>>, ok |-> "200",
             errors |-> [notfound |-> "404"]]

ListOrders == [head |-> <<Page>>, body |-> <<>>, ok |-> "200", errors |-> <<>>]

Handler(op) ==
    CASE op = "Add" -> Add [] op = "Update" -> Update [] op = "Delete" -> Delete
      [] op = "Get" -> Get [] op = "GetByID" -> GetByID
      [] op = "CreateOrder" -> CreateOrder [] op = "GetOrder" -> GetOrder
      [] op = "ListOrders" -> ListOrders

(* The status of a refusal by middleware, mapDecodeError or a handler. *)
HTTPRefusal(d) ==
    CASE d \in Origin -> "403" [] d \in Token -> "401" [] d = "tooLarge" -> "413"
      [] d \in Invalid \cup Quantity -> "422" [] OTHER -> "400"

(* Mutant: an ended context is blamed on the client. *)
ServerErrorClientClosed(o) ==
    IF o = "unavailable" THEN "503"
    ELSE IF o \in {"deadline", "canceled"} THEN "499" ELSE "500"

(* respondServerError, and recovery for a panic. *)
ServerError(o) == IF o = "unavailable" THEN "503" ELSE "500"

HTTPStatus(op, o) ==
    IF o \in {"ok", "replayed"} THEN Handler(op).ok
    ELSE IF o \in DOMAIN Handler(op).errors THEN Handler(op).errors[o]
    ELSE ServerError(o)

-----------------------------------------------------------------------------
(* gRPC: the message is received whole, then come the interceptors.        *)

(* publicMethods, and requireAuth for the rest. *)
Public == {"Add", "Update", "Delete", "Get", "GetByID"}
RequireToken(op) == IF op \in Public THEN <<>> ELSE <<Token>>

CreateProductRPC == <<Invalid>>
UpdateProductRPC == <<Id, Invalid>>
DeleteProductRPC == <<Id>>
GetProductRPC == <<Id>>
ListProductsRPC == <<Page>>
CreateOrderRPC == <<Id, Key, Quantity>>
GetOrderRPC == <<Id>>
ListOrdersRPC == <<Page>>

HandlerRPC(op) ==
    CASE op = "Add" -> CreateProductRPC [] op = "Update" -> UpdateProductRPC
      [] op = "Delete" -> DeleteProductRPC [] op = "Get" -> ListProductsRPC
      [] op = "GetByID" -> GetProductRPC [] op = "CreateOrder" -> CreateOrderRPC
      [] op = "GetOrder" -> GetOrderRPC [] op = "ListOrders" -> ListOrdersRPC

GRPCRefusal(d) ==
    CASE d \in Token -> "Unauthenticated" [] d = "tooLarge" -> "ResourceExhausted"
      [] OTHER -> "InvalidArgument"

(* Mutant: a reused key is answered like a conflict. *)
ToStatusMismatch(o) ==
    CASE o = "mismatch" -> "FailedPrecondition" [] o = "notfound" -> "NotFound"
      [] o \in {"insufficient", "inuse"} -> "FailedPrecondition"
      [] o = "unavailable" -> "Unavailable" [] OTHER -> "Internal"

(* toStatus; recovery for a panic. *)
ToStatus(o) ==
    CASE o = "canceled" -> "Canceled" [] o = "deadline" -> "DeadlineExceeded"
      [] o = "notfound" -> "NotFound" [] o = "mismatch" -> "InvalidArgument"
      [] o \in {"insufficient", "inuse"} -> "FailedPrecondition"
      [] o = "unavailable" -> "Unavailable" [] OTHER -> "Internal"

GRPCStatus(o) == IF o \in {"ok", "replayed"} THEN "OK" ELSE ToStatus(o)

-----------------------------------------------------------------------------
(* The same for either transport.                                          *)

(* The checks before the body is read, and after. *)
Before(via, op) ==
    IF via = "http" THEN Csrf(op) \o RequireAuth(op) \o Handler(op).head
    ELSE <<Body>> \o RequireToken(op) \o HandlerRPC(op)

After(via, op) == IF via = "http" THEN Handler(op).body ELSE <<>>

Fails(checks, defects) == \E i \in DOMAIN checks : checks[i] \cap defects # {}

(* What the first failing check meets. *)
FirstDefect(checks, defects) ==
    LET first == CHOOSE i \in DOMAIN checks :
                    /\ checks[i] \cap defects # {}
                    /\ ~Fails(SubSeq(checks, 1, i - 1), defects)
    IN  CHOOSE d \in checks[first] \cap defects : TRUE

Refusal(via, d) == IF via = "http" THEN HTTPRefusal(d) ELSE GRPCRefusal(d)
Status(via, op, o) == IF via = "http" THEN HTTPStatus(op, o) ELSE GRPCStatus(o)

(* The defects a request can show: a protobuf message has no members to    *)
(* misspell and its limit is a number.                                     *)
Shown(via, op) ==
    LET checks == Before(via, op) \o After(via, op)
        all == UNION {checks[i] : i \in DOMAIN checks}
    IN  (IF via = "http" THEN all ELSE all \ {"malformed", "badLimit"})
        \cup (IF op \in {"Add", "Update"} THEN Wide ELSE {})

(* There is one token, one body, one key and one value to be wrong. *)
OneOf(S, defects) == Cardinality(S \cap defects) <= 1

Requests ==
    UNION {{[via |-> via, op |-> op, defects |-> ds] :
                ds \in {ds \in UNION {kSubset(k, Shown(via, op)) : k \in 0 .. MaxDefects} :
                          \A S \in {Token, Empty \cup Body, Key, Invalid \cup Wide} :
                              OneOf(S, ds)}} :
           via \in {"http", "grpc"}, op \in Ops}

NoReply == [status |-> "none", at |-> 0]

-----------------------------------------------------------------------------
Init ==
    /\ req \in Requests
    /\ pc = "head" /\ clock = 0 /\ left = 0
    /\ outcome = "none" /\ effect = FALSE /\ gone = FALSE /\ reply = NoReply
    /\ key \in IF req.op = "CreateOrder" THEN {"new", "same", "other"} ELSE {"new"}
    /\ sells = TRUE /\ tries = 1 /\ late = FALSE /\ effects = 0

Respond(status) ==
    /\ pc' = "done"
    /\ reply' = [status |-> status, at |-> clock]
    /\ UNCHANGED <<req, clock, left, gone, sells, tries, late>>

NoEffect == UNCHANGED <<effect, key, effects>>

Refuse(checks) ==
    /\ Fails(checks, req.defects)
    /\ Respond(Refusal(req.via, FirstDefect(checks, req.defects)))
    /\ NoEffect
    /\ UNCHANGED outcome

Wait(at, ticks) ==
    /\ pc' = at
    /\ left' = ticks
    /\ UNCHANGED <<req, clock, outcome, effect, gone, reply, others>>

(* The context of the service call, and the call it makes first. *)
Budget == IF req.via = "http" THEN RequestTimeout ELSE GRPCRequestTimeout
Call == Wait(IF req.op = "GetByID" THEN "get" ELSE "store", Budget)

(* Middleware, interceptors and the handler up to its first wait. *)
Enter ==
    /\ pc = "head"
    /\ LET checks == Before(req.via, req.op) IN
       \/ Refuse(checks)
       \/ /\ ~Fails(checks, req.defects)
          /\ IF req.via = "http" /\ req.op \in WithBody
             THEN Wait("body", ReadTimeout) ELSE Call

(* decodeBody has the body, and the handler goes on. *)
BodyRead ==
    /\ pc = "body"
    /\ LET checks == After(req.via, req.op) IN
       \/ Refuse(checks)
       \/ ~Fails(checks, req.defects) /\ Call

(* Mutant: no read deadline. *)
BodyLostByClient ==
    /\ pc = "body" /\ gone
    /\ outcome' = "stalled"
    /\ Respond("400")
    /\ NoEffect

(* The read deadline or the client ends it: a decode error. *)
BodyLost ==
    /\ pc = "body" /\ (left = 0 \/ gone)
    /\ outcome' = "stalled"
    /\ Respond("400")
    /\ NoEffect

-----------------------------------------------------------------------------
(* The service.                                                            *)

(* What the store answers when nothing fails.  An order's key is looked at *)
(* before its product.                                                     *)
Answers(op) ==
    CASE op \in {"Add", "Get", "ListOrders"} -> {"ok"}
      [] op \in {"Update", "GetByID", "GetOrder"} -> {"ok", "notfound"}
      [] op = "Delete" -> IF effects = 0 THEN {"ok", "notfound", "inuse"} ELSE {"notfound"}
      [] op = "CreateOrder" ->
            CASE key = "same" -> {"replayed"} [] key = "other" -> {"mismatch"}
              [] OTHER -> IF sells THEN {"ok"} ELSE {"notfound", "insufficient"}

(* The transaction of the request could commit. *)
Committable ==
    req.op \in Writes /\ req.defects \cap Wide = {} /\ "ok" \in Answers(req.op)

(* Mutant: the key is not stored with the order. *)
CommittedWithoutKey == effects' = effects + 1 /\ key' = key

(* It does, the order and its key together. *)
Committed ==
    /\ effects' = effects + 1
    /\ key' = IF req.op = "CreateOrder" THEN "same" ELSE key

Answer(o) == outcome' = o /\ Respond(Status(req.via, req.op, o))

(* Mutant: a detached call has no deadline. *)
DetachedForever == MaxClock

(* Calls detached from the caller get a context of their own. *)
Detached == LoadTimeout

(* The store has nothing to write, or refuses. *)
StoreAnswers ==
    /\ pc = "store"
    /\ \E o \in Answers(req.op) : ~(o = "ok" /\ req.op \in Writes) /\ Answer(o)
    /\ NoEffect

(* The store has committed.  But for Add the service invalidates before it *)
(* returns.                                                                *)
StoreCommits ==
    /\ pc = "store" /\ Committable
    /\ Committed /\ effect' = TRUE
    /\ IF req.op = "Add" THEN Answer("ok")
       ELSE /\ pc' = "invalidate" /\ left' = Detached /\ outcome' = "ok"
            /\ UNCHANGED <<req, clock, gone, reply, sells, tries, late>>

(* A failure of the store, as mapDBError leaves it.  It may hit the COMMIT *)
(* after that took effect.                                                 *)
StoreFails ==
    /\ pc = "store"
    /\ \E o \in {"unavailable", "internal"}
                \cup (IF left = 0 THEN {"deadline"} ELSE {})
                \cup (IF gone THEN {"canceled"} ELSE {}) : Answer(o)
    /\ \/ NoEffect
       \/ Committable /\ Committed /\ effect' = TRUE

(* invalidate: its error is only logged. *)
Invalidated ==
    /\ pc = "invalidate"
    /\ Answer(outcome)
    /\ NoEffect

(* FindByID: the cache answers, *)
CacheHit ==
    /\ pc = "get"
    /\ \E o \in {"ok", "notfound"} : Answer(o)
    /\ NoEffect

(* or it misses or fails, also because the context ended, and the read     *)
(* starts a flight or joins one that began earlier.                        *)
CacheMiss ==
    /\ pc = "get"
    /\ \E ticks \in 0 .. Detached : Wait("flight", ticks)

FlightEnds ==
    /\ pc = "flight"
    /\ \E o \in {"ok", "notfound", "unavailable", "internal"}
                \cup (IF left = 0 THEN {"deadline"} ELSE {}) : Answer(o)
    /\ NoEffect

(* The handler panics, after a commit or before, and recovery answers. *)
Panics ==
    /\ pc \in {"store", "get", "flight", "invalidate"}
    /\ Answer("panic")
    /\ NoEffect

(* Time passes while something is waited for. *)
Tick ==
    /\ left > 0 /\ pc # "done" /\ clock < MaxClock
    /\ clock' = clock + 1 /\ left' = left - 1
    /\ UNCHANGED <<req, pc, outcome, effect, gone, reply, others>>

-----------------------------------------------------------------------------
(* The client, the other clients, and attempts nobody waits for.           *)

ClientGone ==
    /\ pc # "done" /\ ~gone
    /\ gone' = TRUE
    /\ UNCHANGED <<req, pc, clock, left, outcome, effect, reply, others>>

(* The last units go to somebody else, or the product is deleted.  Neither *)
(* is ever undone.                                                         *)
SellOut ==
    /\ req.op = "CreateOrder" /\ sells
    /\ sells' = FALSE
    /\ UNCHANGED <<req, attempt, key, tries, late, effects>>

(* Headers arrive. *)
Arrive ==
    /\ pc' = "head" /\ clock' = 0 /\ left' = 0
    /\ outcome' = "none" /\ effect' = FALSE /\ gone' = FALSE /\ reply' = NoReply

Resend ==
    /\ tries < MaxTries
    /\ tries' = tries + 1
    /\ Arrive
    /\ UNCHANGED <<req, key, sells, effects>>

(* The client repeats what it has no certain answer to, *)
Retry ==
    /\ pc = "done"
    /\ gone \/ outcome \notin {"none", "ok", "replayed", "notfound", "insufficient",
                                "mismatch", "inuse"}
    /\ Resend
    /\ UNCHANGED late

(* or does so while the first attempt is still with the store, *)
RetryEarly ==
    /\ pc = "store" /\ gone /\ req.op \in Writes /\ ~late
    /\ Resend
    /\ late' = TRUE

(* which ends with a commit or without. *)
LateEnds ==
    /\ late /\ late' = FALSE
    /\ \/ Committable /\ Committed
       \/ UNCHANGED <<key, effects>>
    /\ UNCHANGED <<req, attempt, sells, tries>>

(* The next request. *)
Receive ==
    /\ pc = "done" /\ ~late
    /\ req' \in Requests
    /\ Arrive
    /\ key' \in IF req'.op = "CreateOrder" THEN {"new", "same", "other"} ELSE {"new"}
    /\ sells' = TRUE /\ tries' = 1 /\ late' = FALSE /\ effects' = 0

Serve ==
    \/ Enter \/ BodyRead \/ BodyLost
    \/ StoreAnswers \/ StoreCommits \/ StoreFails \/ Invalidated
    \/ CacheHit \/ CacheMiss \/ FlightEnds \/ Panics

Next ==
    \/ Serve \/ Tick
    \/ ClientGone \/ SellOut \/ Retry \/ RetryEarly \/ LateEnds \/ Receive

Spec == Init /\ [][Next]_vars

(* Goroutines run, time passes, and a call whose context has ended returns *)
(* its error.  Nothing else is fair: no client has to send its body and no *)
(* database or cache to answer.                                            *)
TimesOut ==
    left = 0 /\ (BodyLost \/ StoreFails \/ CacheMiss \/ FlightEnds \/ Invalidated)

FairSpec == Spec /\ WF_vars(Enter) /\ WF_vars(Tick) /\ WF_vars(TimesOut)

-----------------------------------------------------------------------------
(* The statuses of both transports by what they tell a client. *)
Class(s) ==
    CASE s \in {"200", "201", "OK"} -> "done"
      [] s \in {"400", "422", "InvalidArgument"} -> "invalid"
      [] s \in {"401", "Unauthenticated"} -> "unauthenticated"
      [] s \in {"404", "NotFound"} -> "missing"
      [] s \in {"409", "FailedPrecondition"} -> "conflict"
      [] s \in {"413", "ResourceExhausted"} -> "too large"
      [] s \in {"503", "Unavailable"} -> "unavailable"
      [] s \in {"500", "Internal", "DeadlineExceeded", "Canceled"} -> "server"
      [] OTHER -> "refused"

Uncertain == {"unavailable", "server"}
Answered == pc = "done"

(* An answer is about what the store did: a success means the write is     *)
(* committed, now or by the request it replays; a refusal means it is not; *)
(* and a server error, which leaves it open, is only given for a failure   *)
(* behind the service, never for an answer of the store (withTx,           *)
(* mapDBError, the error switches of all handlers, COMMIT against the end  *)
(* of the context).                                                        *)
AnswerMatchesEffect ==
    Answered =>
        /\ Class(reply.status) = "done" /\ req.op \in Writes
               => effect \/ outcome = "replayed"
        /\ Class(reply.status) \notin Uncertain \cup {"done"} => ~effect
        /\ Class(reply.status) \in Uncertain <=>
               outcome \in {"unavailable", "internal", "deadline", "canceled", "panic"}

(* A client that repeats a purchase with its key until it gets a certain   *)
(* answer has bought once, or never when that is a refusal, even if an     *)
(* attempt it gave up is still on its way (Idempotency-Key; stock and      *)
(* products are never put back).                                           *)
PurchaseOnce ==
    req.op = "CreateOrder" =>
        /\ effects <= 1
        /\ Answered /\ outcome \in {"notfound", "insufficient", "mismatch"} => effects = 0
        /\ Answered /\ Class(reply.status) = "done" => effects = 1 \/ key = "same"

(* Both transports give the same verdict: what this request was told is    *)
(* what the other one says to the same operation, the same mistakes and    *)
(* the same outcome (two sets of handlers, two error mappings).            *)
SameVerdict ==
    LET other == IF req.via = "http" THEN "grpc" ELSE "http"
        checks == Before(other, req.op) \o After(other, req.op)
        verdict == IF Fails(checks, req.defects)
                   THEN Refusal(other, FirstDefect(checks, req.defects))
                   ELSE Status(other, req.op, outcome)
        shared == req.defects \subseteq Shown(other, req.op) \ Body
    IN  Answered /\ shared /\ outcome # "stalled"
            => Class(reply.status) = Class(verdict)

(* No answer comes too late: an HTTP response is written before the write  *)
(* deadline, which runs from the headers on, and an RPC ends within its    *)
(* timeout and one detached call (ReadTimeout, WithTimeout of the          *)
(* handlers, callGroup.Do and invalidate add up).                          *)
ResponseInTime ==
    Answered => IF req.via = "http" THEN reply.at < WriteTimeout
                ELSE reply.at <= GRPCRequestTimeout + LoadTimeout

(* Every request is answered, even if its body never comes and neither     *)
(* store, cache nor the flight it joined ever answers: each of its waits   *)
(* has a deadline of its own (ReadTimeout, WithTimeout, callGroup.Do,      *)
(* invalidate).                                                            *)
RequestsAnswered == ~Answered ~> Answered

=============================================================================
