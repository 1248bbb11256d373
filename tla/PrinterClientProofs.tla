------------------------- MODULE PrinterClientProofs -------------------------
(* Proofs about PrinterClient: what one request's waiter can be given, that a *)
(* fault is not lost, that nothing stays subscribed.                          *)
EXTENDS PrinterClient, SequenceTheorems, TLAPS

Kinds    == QueryKinds \cup {"success"}
Requests == [kind : Kinds, id : Nat]
Payloads == (UNION {Answers[kind] : kind \in Kinds}) \cup Reports
Waiter   == [id : Nat, kind : Kinds \cup {"none"},
             response : Payloads \cup {None}, from : Nat]

Busy == InQuery \/ InCopy

Typed ==
    /\ pc \in {"off", "subscribe", "credits", "ready", "ask", "answer", "preamble",
               "settle", "bulk", "check", "confirm", "stop"}
    /\ waiter \in Waiter
    /\ owed \in Seq(Requests)
    /\ printing \in BOOLEAN
    /\ copies \in Nat /\ copy \in Nat /\ pages \in Nat

(* A running request's waiter is of its kind, and registered until answered. *)
WaiterOK ==
    /\ WaiterDiscipline
    /\ Busy /\ waiter.response = None => pending = {Entry(waiter)}
    /\ InQuery => waiter.kind \in QueryKinds
    /\ InCopy  => waiter.kind = "success"

Fits(kind, p) ==
    Kind(p) \in IF kind = "success" THEN {"success"}
                ELSE IF kind = "status" THEN {"status", "none"} ELSE {"none"}

(* What the control state says of the print. *)
PrintOK ==
    /\ printing <=> InCopy
    /\ outcome = "running" <=> Busy
    /\ InQuery => op # "print"
    /\ InCopy => op = "print" /\ copy \in 1..copies
    /\ pc \in {"preamble", "settle", "bulk"} => pages = copy - 1
    /\ pc \in {"check", "confirm"} => pages = copy
    /\ outcome = "ok" /\ op = "print" => pages = copies

(* A fault that came before the last wait is there for CheckFault to find. *)
FaultOK ==
    /\ InCopy /\ faultAt = "early" => fault # None
    /\ pc = "confirm" /\ copy = copies => faultAt # "early"
    /\ FaultSticks

IInv == Typed /\ WaiterOK /\ PrintOK /\ FaultOK /\ AnswerFits

USE PrinterClientAssumption DEF PrinterClientAssumption

-----------------------------------------------------------------------------
(* Routing. *)

(* Of the waiters of a kind, _resolve finds the running request's or none. *)
LEMMA FirstOfKind ==
    ASSUME Typed, WaiterDiscipline, NEW kind
    PROVE  LET first == Oldest({e \in pending : e.kind = kind})
           IN  first = IF pending = {Entry(waiter)} /\ waiter.kind = kind
                       THEN {Entry(waiter)} ELSE {}
  BY DEF Typed, WaiterDiscipline, Oldest, Entry, Waiter

(* The first waiter of all is the running request's or none. *)
LEMMA FirstOfAll ==
    ASSUME Typed, WaiterDiscipline
    PROVE  Oldest(pending) = pending
  BY DEF Typed, WaiterDiscipline, Oldest, Entry, Waiter

(* _resolve leaves everything alone, or ends the running request's wait. *)
LEMMA ResolveStep ==
    ASSUME Typed, WaiterDiscipline,
           NEW kind, NEW p \in Payloads, NEW from \in Nat,
           Resolve(kind, p, from)
    PROVE  \/ pending' = pending /\ waiter' = waiter
              /\ (pending = {Entry(waiter)} => waiter.kind # kind)
           \/ /\ pending = {Entry(waiter)} /\ pending' = {}
              /\ waiter.kind = kind
              /\ waiter' = IF waiter.response = None
                           THEN [waiter EXCEPT !.response = p, !.from = from]
                           ELSE waiter
  <1>1. CASE pending = {Entry(waiter)} /\ waiter.kind = kind
    BY <1>1, FirstOfKind DEF Resolve
  <1>2. CASE ~(pending = {Entry(waiter)} /\ waiter.kind = kind)
    BY <1>2, FirstOfKind DEF Resolve
  <1> QED BY <1>1, <1>2

(* What a notification does to the running request. *)
Routed(p, from) ==
    \/ UNCHANGED routing
    \/ /\ pending = {Entry(waiter)} /\ pending' = {}
       /\ Fits(waiter.kind, p)
       /\ waiter' = IF waiter.response = None
                    THEN [waiter EXCEPT !.response = p, !.from = from]
                    ELSE waiter

LEMMA NotifyRoutes ==
    ASSUME Typed, WaiterDiscipline, NEW ch \in {"rx", "cx"},
           NEW p \in Payloads, NEW from \in Nat, Notify(ch, p, from),
           pending # {} => waiter.kind \in Kinds
    PROVE  Routed(p, from)
  <1>1. ASSUME NEW kind, Resolve(kind, p, from),
               pending # {} /\ waiter.kind = kind => Fits(kind, p)
        PROVE  Routed(p, from)
    <2>1. CASE pending' = pending /\ waiter' = waiter
      BY <2>1 DEF Routed, routing
    <2>2. CASE /\ pending = {Entry(waiter)} /\ pending' = {}
               /\ waiter.kind = kind
               /\ waiter' = IF waiter.response = None
                            THEN [waiter EXCEPT !.response = p, !.from = from]
                            ELSE waiter
      <3>1. Fits(waiter.kind, p)  BY <1>1, <2>2
      <3> QED BY <2>2, <3>1 DEF Routed
    <2> QED BY <1>1, <2>1, <2>2, ResolveStep
  <1>2. CASE OnRx(p, from)
    <2>1. CASE RxKind(p) = {} /\ UNCHANGED routing
      BY <2>1 DEF Routed
    <2>2. ASSUME NEW kind \in RxKind(p), Resolve(kind, p, from)
          PROVE  Routed(p, from)
      <3>1. CASE Kind(p) # "none"
        BY <1>1, <2>2, <3>1 DEF RxKind, Fits, Kind, Kinds, QueryKinds
      <3>2. CASE Kind(p) = "none"
        <4>1. kind \in RawFallbackKinds  BY <2>2, <3>2 DEF RxKind
        <4> QED BY <1>1, <2>2, <3>2, <4>1 DEF RawFallbackKinds, QueryKinds, Fits
      <3> QED BY <3>1, <3>2
    <2> QED BY <1>2, <2>1, <2>2 DEF OnRx
  <1>3. CASE OnCx(p, from)
    <2>1. CASE Kind(p) = "none"
      BY <1>3, <2>1 DEF OnCx, Routed
    <2>2. CASE Kind(p) # "none"
      BY <1>1, <1>3, <2>2 DEF OnCx, Fits, Kind, Kinds, QueryKinds
    <2> QED BY <2>1, <2>2
  <1> QED BY <1>2, <1>3 DEF Notify

-----------------------------------------------------------------------------
(* The inductive invariant. *)

LEMMA NoneIsNoPayload == None \notin Payloads
  BY DEF Payloads, Kinds

LEMMA NothingOwed == <<>> \in Seq(Requests)
  OBVIOUS

LEMMA InitInv == Init => IInv
  <1> SUFFICES ASSUME Init PROVE IInv
    OBVIOUS
  <1>1. Typed
    BY NothingOwed DEF Init, Typed, Waiter
  <1>2. WaiterOK /\ AnswerFits
    BY DEF Init, WaiterOK, WaiterDiscipline, AnswerFits, Busy, InQuery, InCopy
  <1>3. PrintOK /\ FaultOK
    BY DEF Init, PrintOK, FaultOK, FaultSticks, Busy, InQuery, InCopy
  <1> QED BY <1>1, <1>2, <1>3 DEF IInv

(* A copy's waiter is the only one there is. *)
LEMMA CopyBegins ==
    ASSUME IInv, NEW n \in 1..copies', copies' \in Nat, BeginCopy(n),
           printing', outcome' = "running", op' = "print", pages' = n - 1,
           faultAt' = "early" => fault' # None, owed' = owed
    PROVE  IInv'
  <1>1. waiter' \in Waiter /\ waiter'.response = None /\ waiter'.kind = "success"
    BY DEF IInv, Typed, BeginCopy, AddWaiter, Waiter, Kinds
  <1>2. pending' = {Entry(waiter')}
    BY DEF IInv, WaiterOK, WaiterDiscipline, BeginCopy, DropWaiter
  <1>3. Entry(waiter') = Entry(waiter)'
    BY DEF Entry
  <1>4. Typed'
    BY <1>1 DEF IInv, Typed, BeginCopy
  <1>5. WaiterOK' /\ AnswerFits'
    BY <1>1, <1>2, <1>3
    DEF BeginCopy, WaiterOK, WaiterDiscipline, AnswerFits, Busy, InQuery, InCopy
  <1>6. PrintOK' /\ FaultOK'
    BY DEF BeginCopy, PrintOK, FaultOK, FaultSticks, Busy, InQuery, InCopy
  <1> QED BY <1>4, <1>5, <1>6 DEF IInv

(* A print or a query that ends takes its waiter with it. *)
LEMMA RequestEnds ==
    ASSUME IInv, pc' \in {"ready", "stop"}, pending' = DropWaiter,
           ~printing', printing' \in BOOLEAN, outcome' # "running",
           UNCHANGED <<waiter, op, page, faultAt, owed>>,
           outcome' = "ok" /\ op = "print" => pages = copies /\ faultAt # "early"
    PROVE  IInv'
  <1> USE DEF IInv
  <1>1. Typed'
    BY DEF Typed, page
  <1>2. WaiterOK' /\ AnswerFits'
    BY DEF WaiterOK, WaiterDiscipline, DropWaiter, AnswerFits, Busy, InQuery, InCopy
  <1>3. PrintOK' /\ FaultOK'
    BY DEF PrintOK, FaultOK, FaultSticks, Busy, InQuery, InCopy, page
  <1> QED BY <1>1, <1>2, <1>3

LEMMA CopyEnds ==
    ASSUME IInv, pc \in {"check", "confirm"}, EndCopy, UNCHANGED owed,
           copy = copies => faultAt # "early"
    PROVE  IInv'
  <1>1. CASE /\ copy < copies
             /\ BeginCopy(copy + 1)
             /\ UNCHANGED <<link, subscribed, op, outcome, copies, pages, status,
                            waited, owed, session, bounds>>
    BY <1>1, CopyBegins DEF IInv, Typed, PrintOK, FaultOK, Busy, InCopy, status
  <1>2. CASE copy = copies /\ EndPrint("ok", "ready")
    BY <1>2, RequestEnds DEF EndPrint, IInv, PrintOK
  <1> QED BY <1>1, <1>2 DEF EndCopy

(* A notification while the client is suspended. *)
LEMMA NotifyKeeps ==
    ASSUME IInv, Suspended, NEW ch \in {"rx", "cx"}, NEW p \in Payloads,
           NEW from \in Nat, Notify(ch, p, from), owed' \in Seq(Requests),
           UNCHANGED <<pc, op, outcome, page>>
    PROVE  IInv'
  <1> USE DEF IInv
  <1>1. Routed(p, from)
    BY NotifyRoutes DEF Typed, WaiterOK, WaiterDiscipline, Kinds, InQuery, InCopy
  <1>2. /\ waiter' \in Waiter /\ waiter'.kind = waiter.kind
        /\ Entry(waiter)' = Entry(waiter)
        /\ pending' \subseteq pending
    BY <1>1 DEF Routed, routing, Typed, Waiter, Entry
  <1>3. /\ printing' = printing
        /\ \/ UNCHANGED <<fault, faultAt>>
           \/ printing /\ fault' \in FaultStatuses /\ faultAt' = FaultTime
    BY DEF Notify, OnRx, OnCx, status
  <1>4. Typed'
    BY <1>2, <1>3 DEF Typed, page
  <1>5. WaiterOK'
    <2>1. \/ UNCHANGED routing
          \/ waiter'.response # None
      BY <1>1, NoneIsNoPayload DEF Routed, Typed, Waiter
    <2>2. Busy' /\ waiter'.response = None => pending' = {Entry(waiter)}
      BY <2>1 DEF routing, WaiterOK, Busy, InQuery, InCopy
    <2> QED BY <1>2, <2>2 DEF WaiterOK, WaiterDiscipline, Busy, InQuery, InCopy
  <1>6. AnswerFits'
    BY <1>1, <1>2 DEF Routed, routing, AnswerFits, Fits, Typed, Waiter
  <1>7. PrintOK' /\ FaultOK'
    BY <1>3 DEF PrintOK, FaultOK, FaultSticks, FaultTime, Busy, InQuery, InCopy, page
  <1> QED BY <1>4, <1>5, <1>6, <1>7

LEMMA NextInv == IInv /\ [Next]_vars => IInv'
  <1> SUFFICES ASSUME IInv, [Next]_vars PROVE IInv'
    OBVIOUS
  <1> USE DEF IInv, Busy, InQuery, InCopy
  <1>1. ASSUME NEW s \in {"poll", "print"}, Connect(s) PROVE IInv'
    BY <1>1 DEF Connect, Typed, WaiterOK, WaiterDiscipline, PrintOK, FaultOK, FaultSticks,
           AnswerFits, vars, link, routing, page, status,
           bounds
  <1>2. CASE Subscribe
    BY <1>2 DEF Subscribe, Listen, Typed, WaiterOK, WaiterDiscipline, PrintOK, FaultOK, FaultSticks,
           AnswerFits, vars, link, routing, page, status,
           bounds
  <1>3. CASE SubscribeFails
    BY <1>3 DEF SubscribeFails, Typed, WaiterOK, WaiterDiscipline, PrintOK, FaultOK, FaultSticks,
           AnswerFits, vars, link, routing, page, status,
           bounds
  <1>4. CASE CreditsAwaited
    BY <1>4 DEF CreditsAwaited, Typed, WaiterOK, WaiterDiscipline, PrintOK, FaultOK, FaultSticks,
           AnswerFits, vars, link, routing, page, status,
           bounds
  <1>5. ASSUME NEW kind \in QueryKinds, BeginQuery(kind) PROVE IInv'
    <2>1. waiter' \in Waiter /\ waiter'.response = None /\ waiter'.kind = kind
      BY <1>5 DEF Typed, BeginQuery, AddWaiter, Waiter, Kinds
    <2>2. pending' = {Entry(waiter')} /\ Entry(waiter') = Entry(waiter)'
      BY <1>5 DEF WaiterOK, WaiterDiscipline, BeginQuery, Entry
    <2>3. Entry(waiter') \in Requests
      BY <2>1 DEF Entry, Requests, Waiter, Kinds
    <2>4. Typed'
      BY <1>5, <2>1, <2>3 DEF Typed, BeginQuery, page, status
    <2>5. WaiterOK' /\ AnswerFits'
      BY <1>5, <2>1, <2>2 DEF BeginQuery, WaiterOK, WaiterDiscipline, AnswerFits
    <2>6. PrintOK' /\ FaultOK'
      BY <1>5 DEF BeginQuery, PrintOK, FaultOK, FaultSticks, page, status, QueryKinds
    <2> QED BY <2>4, <2>5, <2>6
  <1>6. CASE QuerySent
    BY <1>6 DEF QuerySent, Typed, WaiterOK, WaiterDiscipline, PrintOK, FaultOK, FaultSticks,
           AnswerFits, vars, link, routing, page, status,
           bounds
  <1>7. CASE QueryAnswered
    BY <1>7, RequestEnds DEF QueryAnswered, EndQuery, PrintOK, Typed, status, page
  <1>8. CASE QueryDropped
    BY <1>8, RequestEnds DEF QueryDropped, EndQuery, PrintOK, Typed, status, page
  <1>9. CASE QueryTimeout
    BY <1>9, RequestEnds DEF QueryTimeout, EndQuery, PrintOK, Typed, status, page
  <1>10. ASSUME NEW k \in 1..MaxCopies, BeginPrint(k) PROVE IInv'
    BY <1>10, CopyBegins DEF BeginPrint
  <1>11. CASE PreambleSent
    BY <1>11 DEF PreambleSent, Typed, WaiterOK, WaiterDiscipline, PrintOK, FaultOK, FaultSticks,
           AnswerFits, vars, link, routing, page, status,
           bounds
  <1>12. CASE Settled
    <2>1. Entry(waiter) \in Requests
      BY <1>12 DEF Settled, Typed, WaiterOK, Entry, Waiter, Requests, Kinds
    <2>2. owed' \in Seq(Requests)
      BY <1>12, <2>1 DEF Settled, Typed
    <2> QED BY <1>12, <2>2 DEF Settled, Typed, WaiterOK, WaiterDiscipline, PrintOK,
              FaultOK, FaultSticks, AnswerFits, link, routing, page, status
  <1>13. CASE BulkSent
    BY <1>13 DEF BulkSent, Typed, WaiterOK, WaiterDiscipline, PrintOK, FaultOK, FaultSticks,
           AnswerFits, vars, link, routing, page, status,
           bounds
  <1>14. CASE CheckFault
    BY <1>14, RequestEnds DEF CheckFault, EndPrint
  <1>15. CASE CheckDone
    <2>1. faultAt # "early" /\ UNCHANGED owed
      BY <1>15 DEF CheckDone, FaultOK, EndCopy, EndPrint
    <2> QED BY <1>15, <2>1, CopyEnds DEF CheckDone
  <1>16. CASE CheckWait
    BY <1>16 DEF CheckWait, Typed, WaiterOK, WaiterDiscipline, PrintOK, FaultOK, FaultSticks,
           AnswerFits, vars, link, routing, page, status,
           bounds
  <1>17. CASE Confirmed
    <2>1. (copy = copies => faultAt # "early") /\ UNCHANGED owed
      BY <1>17 DEF Confirmed, FaultOK, EndCopy, EndPrint
    <2> QED BY <1>17, <2>1, CopyEnds DEF Confirmed
  <1>18. CASE PollDeadline
    BY <1>18, RequestEnds DEF PollDeadline, EndPrint
  <1>19. CASE PollAgain
    BY <1>19 DEF PollAgain, Typed, WaiterOK, WaiterDiscipline, PrintOK, FaultOK, FaultSticks,
           AnswerFits, vars, link, routing, page, status,
           bounds
  <1>20. CASE Raise
    BY <1>20, RequestEnds DEF Raise, EndPrint
  <1>21. CASE Finish
    BY <1>21 DEF Finish, Typed, WaiterOK, WaiterDiscipline, PrintOK, FaultOK, FaultSticks,
           AnswerFits, vars, link, routing, page, status,
           bounds
  <1>22. CASE Unsubscribe
    BY <1>22 DEF Unsubscribe, Typed, WaiterOK, WaiterDiscipline, PrintOK, FaultOK, FaultSticks,
           AnswerFits, vars, link, routing, page, status,
           bounds
  <1>29. CASE StopCancelled
    BY <1>29 DEF StopCancelled, Typed, WaiterOK, WaiterDiscipline, PrintOK, FaultOK, FaultSticks,
           AnswerFits, vars, link, routing, page, status,
           bounds
  <1>23. CASE Stopped
    BY <1>23, NothingOwed DEF Stopped, LinkDown, Typed, WaiterOK, WaiterDiscipline, PrintOK, FaultOK, FaultSticks,
           AnswerFits, vars, link, routing, page, status,
           bounds
  <1>24. CASE Drop
    BY <1>24, NothingOwed DEF Drop, LinkDown, Typed, WaiterOK, WaiterDiscipline, PrintOK, FaultOK, FaultSticks,
           AnswerFits, vars, link, routing, page, status,
           bounds
  <1>25. CASE Answer
    <2>1. PICK ch \in live, p \in Answers[owed[1].kind] : Notify(ch, p, owed[1].id)
      BY <1>25 DEF Answer
    <2>2. owed[1] \in Requests /\ owed' \in Seq(Requests)
      BY <1>25 DEF Answer, Typed
    <2>3. p \in Payloads /\ owed[1].id \in Nat
      BY <2>1, <2>2 DEF Payloads, Requests
    <2> QED BY <1>25, <2>1, <2>2, <2>3, NotifyKeeps DEF Answer, Notify
  <1>26. CASE Ignore
    BY <1>26 DEF Ignore, Typed, WaiterOK, WaiterDiscipline, PrintOK, FaultOK, FaultSticks,
           AnswerFits, vars, link, routing, page, status,
           bounds
  <1>27. CASE Report
    <2>1. PICK p \in Reports : Notify("rx", p, 0)
      BY <1>27 DEF Report
    <2>2. p \in Payloads /\ owed' \in Seq(Requests)
      BY <1>27 DEF Report, Payloads, Typed
    <2>3. Suspended /\ UNCHANGED <<pc, op, outcome, page>>
      BY <1>27 DEF Report
    <2> QED BY <2>1, <2>2, <2>3, NotifyKeeps
  <1>28. CASE UNCHANGED vars
    BY <1>28 DEF vars, Typed, WaiterOK, WaiterDiscipline, PrintOK, FaultOK, FaultSticks,
           AnswerFits, vars, link, routing, page, status,
           bounds
  <1> QED
    BY <1>1, <1>2, <1>3, <1>4, <1>5, <1>6, <1>7, <1>8, <1>9, <1>10, <1>11, <1>12, <1>13, <1>14, <1>15, <1>16, <1>17, <1>18, <1>19, <1>20, <1>21, <1>22, <1>23, <1>24, <1>25, <1>26, <1>27, <1>28, <1>29
    DEF Next, Start, Query, Printing, Stop

-----------------------------------------------------------------------------
(* What follows for every behaviour. *)

THEOREM Invariance == Spec => []IInv
  <1> QED BY InitInv, NextInv, PTL DEF Spec

(* No waiter outlives its request, however the request ends. *)
THEOREM WaitersEnd == Spec => []WaiterDiscipline
  <1>1. IInv => WaiterDiscipline
    BY DEF IInv, WaiterOK
  <1> QED BY <1>1, Invariance, PTL

(* Whatever the printer sends, and when, a page is ended by a success payload *)
(* only and a query never by one of another kind.                             *)
THEOREM AnswersFit == Spec => []AnswerFits
  <1>1. IInv => AnswerFits
    BY DEF IInv
  <1> QED BY <1>1, Invariance, PTL

(* A fault that comes before the last wait of a print fails the print. *)
THEOREM FaultsStick == Spec => []FaultSticks
  <1>1. IInv => FaultSticks
    BY DEF IInv, FaultOK
  <1> QED BY <1>1, Invariance, PTL

-----------------------------------------------------------------------------
(* A print that ended well. *)

(* A session that is starting has had no request yet. *)
Fresh == pc \in {"subscribe", "credits"} => outcome = "none"

LEMMA PrintedNext ==
    ASSUME IInv, Fresh, OkMeansPrinted, [Next]_vars
    PROVE  Fresh' /\ OkMeansPrinted'
  <1> USE DEF Fresh, OkMeansPrinted
  <1>1. CASE \/ \E s \in {"poll", "print"} : Connect(s)
             \/ Start \/ Raise
             \/ \E kind \in QueryKinds : BeginQuery(kind)
    BY <1>1 DEF Connect, Start, Subscribe, SubscribeFails, CreditsAwaited, Raise,
                EndPrint, BeginQuery
  <1>2. CASE Query
    <2>1. op # "print" /\ pc' \in {"answer", "ready", "stop"} /\ op' = op
      BY <1>2 DEF IInv, PrintOK, InQuery, Query, QuerySent, QueryAnswered,
                  QueryDropped, QueryTimeout, EndQuery
    <2> QED BY <2>1
  <1>3. CASE \E n \in 1..MaxCopies : BeginPrint(n)
    BY <1>3 DEF BeginPrint, BeginCopy
  <1>4. CASE Printing
    <2>1. ASSUME EndCopy, pc \in {"check", "confirm"}, waiter.response # None \/ ~up
          PROVE  Fresh' /\ OkMeansPrinted'
      BY <2>1 DEF EndCopy, BeginCopy, EndPrint, IInv, PrintOK, link, page
    <2> QED BY <1>4, <2>1 DEF Printing, PreambleSent, Settled, BulkSent, CheckFault,
                CheckDone, CheckWait, Confirmed, PollDeadline, PollAgain, EndPrint
  <1>5. CASE Stop \/ StopCancelled \/ Drop \/ Ignore \/ UNCHANGED vars
    BY <1>5 DEF Stop, Finish, Unsubscribe, Stopped, StopCancelled, Drop, LinkDown, Ignore, Suspended,
                vars, link, page, routing
  <1>6. CASE Answer \/ Report
    BY <1>6 DEF Answer, Report, Suspended
  <1> QED BY <1>1, <1>2, <1>3, <1>4, <1>5, <1>6 DEF Next

(* A print that ends well has sent every byte of every copy, and its last     *)
(* page was confirmed unless the link went down after it.                     *)
THEOREM OkPrinted == Spec => []OkMeansPrinted
  <1>1. Init => Fresh /\ OkMeansPrinted
    BY DEF Init, Fresh, OkMeansPrinted
  <1>2. IInv /\ (Fresh /\ OkMeansPrinted) /\ [Next]_vars
          => (Fresh /\ OkMeansPrinted)'
    BY PrintedNext
  <1> QED BY <1>1, <1>2, Invariance, PTL DEF Spec

-----------------------------------------------------------------------------
(* Answers that are heard. *)

(* Every answer is one parse_response knows for its kind or does not know.    *)
AnswersParse ==
    /\ \A p \in Answers["success"] : Kind(p) = "success"
    /\ \A kind \in QueryKinds : \A p \in Answers[kind] : Kind(p) \in {"none", kind}

HeardInv == Busy /\ heard => waiter.response # None

(* The answer to the running request resolves its waiter. *)
LEMMA AnswerLands ==
    ASSUME AnswersParse, IInv, Busy,
           NEW ch \in {"rx", "cx"}, NEW p \in Answers[waiter.kind],
           ch = "cx" => waiter.kind = "success",
           NEW from \in Nat, Notify(ch, p, from)
    PROVE  waiter'.response # None
  <1> USE DEF IInv
  <1>1. waiter.kind \in Kinds
    BY DEF WaiterOK, Kinds, Busy
  <1>2. p \in Payloads /\ p # None
    BY <1>1, NoneIsNoPayload DEF Payloads
  <1>3. CASE waiter.response # None
    <2>1. Routed(p, from)
      BY <1>1, <1>2, NotifyRoutes DEF WaiterOK
    <2> QED BY <1>3, <2>1 DEF Routed, routing
  <1>4. CASE waiter.response = None
    <2>1. pending = {Entry(waiter)}
      BY <1>4 DEF WaiterOK
    <2>2. ASSUME Resolve(waiter.kind, p, from)
          PROVE  waiter'.response # None
      <3>1. waiter' = [waiter EXCEPT !.response = p, !.from = from]
        BY <1>2, <1>4, <2>1, <2>2, ResolveStep DEF WaiterOK
      <3> QED BY <1>2, <3>1 DEF Typed, Waiter
    <2>3. CASE waiter.kind = "success"
      <3>1. Kind(p) = "success"
        BY <2>3 DEF AnswersParse
      <3> QED BY <2>2, <2>3, <3>1 DEF Notify, OnRx, OnCx, RxKind
    <2>4. CASE waiter.kind \in QueryKinds
      <3>1. ch = "rx" /\ Kind(p) \in {"none", waiter.kind}
        BY <2>4 DEF AnswersParse, QueryKinds
      <3>2. {e.kind : e \in Oldest(pending)} = {waiter.kind}
        <4>1. Oldest(pending) = {Entry(waiter)}
          BY <2>1, FirstOfAll DEF WaiterOK
        <4>2. Entry(waiter).kind = waiter.kind
          BY DEF Entry
        <4> QED BY <4>1, <4>2
      <3>3. waiter.kind \in RxKind(p)
        BY <2>4, <3>1, <3>2 DEF RxKind, RawFallbackKinds, QueryKinds
      <3>4. RxKind(p) = {waiter.kind}
        BY <3>1, <3>2, <3>3 DEF RxKind
      <3> QED BY <2>2, <3>1, <3>4 DEF Notify, OnRx
    <2> QED BY <1>1, <2>3, <2>4 DEF Kinds
  <1> QED BY <1>3, <1>4

LEMMA HeardNext ==
    ASSUME AnswersParse, IInv, HeardInv, [Next]_vars
    PROVE  HeardInv'
  <1> USE DEF HeardInv, Busy, InQuery, InCopy
  <1>0. ASSUME Busy, UNCHANGED <<heard, waiter>> PROVE HeardInv'
    BY <1>0
  <1>1. CASE \/ \E s \in {"poll", "print"} : Connect(s)
             \/ Start \/ Raise
    BY <1>1 DEF Connect, Start, Subscribe, SubscribeFails, CreditsAwaited, Raise,
                EndPrint, routing
  <1>2. CASE \/ \E kind \in QueryKinds : BeginQuery(kind)
             \/ \E n \in 1..MaxCopies : BeginPrint(n)
    <2>1. ~heard'
      BY <1>2 DEF BeginQuery, BeginPrint, BeginCopy, AddWaiter
    <2> QED BY <2>1
  <1>3. CASE Query
    <2>1. pc' \in {"ready", "stop"} \/ (Busy /\ UNCHANGED <<heard, waiter>>)
      BY <1>3 DEF Query, QuerySent, QueryAnswered, QueryDropped, QueryTimeout,
                  EndQuery, routing
    <2> QED BY <1>0, <2>1
  <1>4. CASE Printing
    <2>1. ASSUME EndCopy, pc \in {"check", "confirm"}
          PROVE  HeardInv'
      <3>1. ~heard' \/ pc' = "ready"
        BY <2>1 DEF EndCopy, BeginCopy, AddWaiter, EndPrint
      <3> QED BY <3>1
    <2>2. CASE EndCopy /\ pc \in {"check", "confirm"}
      BY <2>1, <2>2
    <2>3. CASE CheckFault \/ PollDeadline
      BY <2>3 DEF CheckFault, PollDeadline, EndPrint
    <2>4. CASE PreambleSent \/ Settled \/ BulkSent \/ CheckWait \/ PollAgain
      <3>1. Busy /\ UNCHANGED <<heard, waiter>>
        BY <2>4 DEF PreambleSent, Settled, BulkSent, CheckWait, PollAgain, routing
      <3> QED BY <1>0, <3>1
    <2> QED BY <1>4, <2>2, <2>3, <2>4 DEF Printing, CheckDone, Confirmed
  <1>5. CASE Stop \/ StopCancelled \/ Drop \/ Ignore \/ UNCHANGED vars
    BY <1>5 DEF Stop, Finish, Unsubscribe, Stopped, StopCancelled, Drop, LinkDown, Ignore, vars,
                routing
  <1>6. ASSUME NEW ch \in {"rx", "cx"}, NEW p \in Payloads, NEW from \in Nat,
               Notify(ch, p, from), UNCHANGED <<pc, outcome>>,
               waiter.response # None
        PROVE  waiter'.response # None
    <2>1. Routed(p, from)
      BY <1>6, NotifyRoutes DEF IInv, WaiterOK, WaiterDiscipline, Kinds
    <2> QED BY <1>6, <2>1 DEF Routed, routing
  <1>7. CASE Answer
    <2>1. PICK ch \in live, p \in Answers[owed[1].kind] :
            /\ ch = "cx" => owed[1].kind = "success"
            /\ Notify(ch, p, owed[1].id)
      BY <1>7 DEF Answer
    <2>2. owed[1] \in Requests /\ ch \in {"rx", "cx"}
      BY <1>7, <2>1 DEF Answer, IInv, Typed, Notify
    <2>3. p \in Payloads /\ owed[1].id \in Nat
      BY <2>1, <2>2 DEF Payloads, Requests
    <2>4. UNCHANGED <<pc, outcome>>
      BY <1>7 DEF Answer
    <2>5. CASE Entry(waiter) = owed[1] /\ Busy
      <3>1. waiter.kind = owed[1].kind
        BY <2>2, <2>5 DEF Entry, Requests
      <3>2. waiter'.response # None
        BY <2>1, <2>2, <2>3, <2>5, <3>1, AnswerLands
      <3> QED BY <2>4, <2>5, <3>2 DEF IInv, PrintOK
    <2>6. CASE ~(Entry(waiter) = owed[1] /\ Busy)
      <3>1. heard' => heard
        BY <1>7, <2>6 DEF Answer
      <3> QED BY <1>6, <2>1, <2>2, <2>3, <2>4, <3>1
    <2> QED BY <2>5, <2>6
  <1>8. CASE Report
    <2>1. PICK p \in Reports : Notify("rx", p, 0)
      BY <1>8 DEF Report
    <2>2. UNCHANGED <<pc, outcome, heard>> /\ p \in Payloads
      BY <1>8 DEF Report, Payloads
    <2> QED BY <1>6, <2>1, <2>2
  <1> QED BY <1>1, <1>2, <1>3, <1>4, <1>5, <1>7, <1>8 DEF Next

(* Giving up on a request is the work of a timer that found no response. *)
LEMMA GivenUp ==
    ASSUME IInv, [Next]_vars, outcome' \in {"unanswered", "timeout"}, outcome # outcome'
    PROVE  \/ QueryTimeout /\ outcome' = "unanswered"
           \/ PollDeadline /\ outcome' = "timeout"
  <1>1. CASE Query
    BY <1>1 DEF Query, QuerySent, QueryAnswered, QueryDropped, QueryTimeout, EndQuery
  <1>2. CASE Printing
    BY <1>2 DEF Printing, PreambleSent, Settled, BulkSent, CheckFault, CheckDone,
                CheckWait, Confirmed, PollDeadline, PollAgain, EndPrint, EndCopy
  <1>3. CASE \/ \E s \in {"poll", "print"} : Connect(s)
             \/ \E kind \in QueryKinds : BeginQuery(kind)
             \/ \E n \in 1..MaxCopies : BeginPrint(n)
    BY <1>3 DEF Connect, BeginQuery, BeginPrint
  <1>4. CASE Start \/ Stop \/ StopCancelled \/ Raise
    BY <1>4 DEF Start, Subscribe, SubscribeFails, CreditsAwaited, Stop, Finish,
                Unsubscribe, Stopped, StopCancelled, Raise, EndPrint
  <1>5. CASE Drop \/ Answer \/ Ignore \/ Report \/ UNCHANGED vars
    BY <1>5 DEF Drop, Answer, Ignore, Report, vars
  <1> QED BY <1>1, <1>2, <1>3, <1>4, <1>5 DEF Next

(* As long as every answer parses as its own kind or not at all, a request is *)
(* given up only if nothing answered it, and a query only over a link that is *)
(* still up.                                                                  *)
THEOREM Heard == ASSUME AnswersParse PROVE Spec => NothingMissed
  <1>1. Init => HeardInv
    BY DEF Init, HeardInv, Busy, InQuery, InCopy
  <1>2. IInv /\ HeardInv /\ [Next]_vars => HeardInv'
    BY HeardNext
  <1>3. IInv /\ HeardInv /\ [Next]_vars =>
          [outcome' \in {"unanswered", "timeout"} /\ outcome' # outcome =>
              ~heard /\ (outcome' = "unanswered" /\ DropAware => up)]_vars
    <2> SUFFICES ASSUME IInv, HeardInv, [Next]_vars,
                        outcome' \in {"unanswered", "timeout"}, outcome' # outcome
                 PROVE  ~heard /\ (outcome' = "unanswered" /\ DropAware => up)
      OBVIOUS
    <2>1. CASE QueryTimeout /\ outcome' = "unanswered"
      BY <2>1 DEF QueryTimeout, HeardInv, Busy, InQuery
    <2>2. CASE PollDeadline /\ outcome' = "timeout"
      BY <2>2 DEF PollDeadline, HeardInv, Busy, InCopy
    <2> QED BY <2>1, <2>2, GivenUp
  <1> QED BY <1>1, <1>2, <1>3, Invariance, PTL DEF Spec, NothingMissed

-----------------------------------------------------------------------------
(* Subscriptions. *)

(* What stop() still knows of, or is excused for, is all that is subscribed.  *)
StrayInv ==
    /\ pc = "subscribe" => subscribed \in {<<>>} \cup (IF HasCx THEN {<<"rx">>} ELSE {})
    /\ subscribed \in {<<>>, <<"rx">>, <<"rx", "cx">>}
    /\ live \subseteq {subscribed[i] : i \in DOMAIN subscribed} \cup excused
    /\ stray \subseteq excused
    /\ live \subseteq {"rx", "cx"} /\ excused \subseteq {"rx", "cx"}
    /\ pc = "off" => subscribed = <<>>

LEMMA BothAppended == Append(<<"rx">>, "cx") = <<"rx", "cx">>
  <1> DEFINE s == Append(<<"rx">>, "cx")
             t == <<"rx", "cx">>
  <1>1. s \in Seq({"rx", "cx"}) /\ Len(s) = 2 /\ s[1] = "rx" /\ s[2] = "cx"
    OBVIOUS
  <1>2. t \in Seq({"rx", "cx"}) /\ Len(t) = 2 /\ t[1] = "rx" /\ t[2] = "cx"
    OBVIOUS
  <1>3. \A i \in 1..Len(s) : s[i] = t[i]
    BY <1>1, <1>2
  <1> HIDE DEF s, t
  <1>4. s = t
    BY <1>1, <1>2, <1>3, SeqEqual
  <1> QED BY <1>4 DEF s, t

LEMMA FirstLeft == SubSeq(<<"rx", "cx">>, 1, 1) = <<"rx">>
  <1> DEFINE s == SubSeq(<<"rx", "cx">>, 1, 1)
             t == <<"rx">>
  <1>1. s \in Seq({"rx", "cx"}) /\ Len(s) = 1 /\ s[1] = "rx"
    OBVIOUS
  <1>2. t \in Seq({"rx", "cx"}) /\ Len(t) = 1 /\ t[1] = "rx"
    OBVIOUS
  <1>3. \A i \in 1..Len(s) : s[i] = t[i]
    BY <1>1, <1>2
  <1> HIDE DEF s, t
  <1>4. s = t
    BY <1>1, <1>2, <1>3, SeqEqual
  <1> QED BY <1>4 DEF s, t

LEMMA StrayNext ==
    ASSUME StrayInv, [Next]_vars
    PROVE  StrayInv'
  <1> USE DEF StrayInv
  <1>1. CASE \E s \in {"poll", "print"} : Connect(s)
    BY <1>1 DEF Connect
  <1>2. CASE Subscribe
    <2>1. CASE subscribed = <<>>
      <3>1. /\ live' = live \cup {"rx"} /\ stray' = stray \ {"rx"}
            /\ excused' = excused \ {"rx"} /\ subscribed' = <<"rx">>
            /\ pc' # "off" /\ (pc' = "subscribe" => HasCx)
        BY <1>2, <2>1 DEF Subscribe, Listen, Channels
      <3>2. live \subseteq excused
        BY <2>1
      <3> QED BY <3>1, <3>2
    <2>2. CASE subscribed = <<"rx">>
      <3>1. HasCx /\ Channels = <<"rx", "cx">>
        BY <1>2, <2>2 DEF Subscribe, Channels
      <3>2. /\ live' = live \cup {"cx"} /\ stray' = stray \ {"cx"}
            /\ excused' = excused \ {"cx"}
            /\ subscribed' = <<"rx", "cx">> /\ pc' = "credits"
        BY <1>2, <2>2, <3>1, BothAppended DEF Subscribe, Listen
      <3>3. live \subseteq {"rx"} \cup excused
        BY <2>2
      <3>4. {subscribed'[i] : i \in DOMAIN subscribed'} = {"rx", "cx"}
        BY <3>2
      <3> QED BY <3>2, <3>3, <3>4
    <2> QED BY <1>2, <2>1, <2>2 DEF Subscribe
  <1>9. CASE SubscribeFails
    <2>1. CASE UNCHANGED link
      BY <1>9, <2>1 DEF SubscribeFails, link
    <2>2. ASSUME NEW ch \in {"rx", "cx"}, live' = live \cup {ch},
                 stray' = stray \ {ch}, excused' = excused \cup {ch}
          PROVE  StrayInv'
      <3>1. subscribed' = subscribed /\ pc' = "stop"
        BY <1>9 DEF SubscribeFails
      <3> QED BY <2>2, <3>1
    <2>3. Channels[Len(subscribed) + 1] \in {"rx", "cx"}
      <3>1. CASE subscribed = <<>>
        BY <3>1 DEF Channels
      <3>2. CASE subscribed = <<"rx">> /\ HasCx
        BY <3>2 DEF Channels
      <3> QED BY <1>9, <3>1, <3>2 DEF SubscribeFails
    <2> QED BY <1>9, <2>1, <2>2, <2>3 DEF SubscribeFails
  <1>3. CASE Unsubscribe
    <2>1. CASE subscribed = <<"rx">>
      <3>1. /\ live' \in {live \ {"rx"}, live} /\ stray' = stray
            /\ excused' = excused \cup (live' \cap {"rx"})
            /\ subscribed' = <<>> /\ pc' = "stop"
        BY <1>3, <2>1 DEF Unsubscribe
      <3>2. live \subseteq {"rx"} \cup excused
        BY <2>1
      <3> QED BY <3>1, <3>2
    <2>2. CASE subscribed = <<"rx", "cx">>
      <3>1. /\ live' \in {live \ {"cx"}, live} /\ stray' = stray
            /\ excused' = excused \cup (live' \cap {"cx"})
            /\ subscribed' = <<"rx">> /\ pc' = "stop"
        BY <1>3, <2>2, FirstLeft DEF Unsubscribe
      <3>2. live \subseteq {"rx", "cx"}
        OBVIOUS
      <3>3. {subscribed'[i] : i \in DOMAIN subscribed'} = {"rx"}
        BY <3>1
      <3> QED BY <3>1, <3>2, <3>3
    <2> QED BY <1>3, <2>1, <2>2 DEF Unsubscribe
  <1>10. CASE StopCancelled
    <2>1. /\ live' \subseteq live /\ stray' = stray /\ excused' = excused \cup live'
          /\ subscribed' = <<>> /\ pc' = "stop"
      BY <1>10 DEF StopCancelled
    <2> QED BY <2>1
  <1>4. CASE Stopped \/ Drop
    <2>1. CASE Stopped
      <3>1. subscribed = <<>> /\ subscribed' = <<>> /\ pc' = "off"
        BY <2>1 DEF Stopped
      <3>2. \/ live' = {} /\ stray' = {} /\ excused' = {}
            \/ live' = {} /\ stray' = stray \cup live /\ excused' = excused
        BY <2>1 DEF Stopped, LinkDown
      <3>3. live \subseteq excused
        BY <3>1
      <3> QED BY <3>1, <3>2, <3>3
    <2>2. CASE Drop
      BY <2>2 DEF Drop, LinkDown, Suspended
    <2> QED BY <1>4, <2>1, <2>2
  <1>5. CASE CreditsAwaited \/ Finish \/ Raise
    BY <1>5 DEF CreditsAwaited, Finish, Raise, EndPrint, link
  <1>6. ASSUME pc # "off", pc' \notin {"off", "subscribe"},
               UNCHANGED <<live, stray, excused, subscribed>>
        PROVE  StrayInv'
    BY <1>6
  <1>7. CASE \/ Query \/ Printing
             \/ \E kind \in QueryKinds : BeginQuery(kind)
             \/ \E n \in 1..MaxCopies : BeginPrint(n)
    <2>1. pc # "off" /\ pc' \notin {"off", "subscribe"}
          /\ UNCHANGED <<live, stray, excused, subscribed>>
      BY <1>7 DEF Query, QuerySent, QueryAnswered, QueryDropped, QueryTimeout,
                  EndQuery, Printing, PreambleSent, Settled, BulkSent, CheckFault,
                  CheckDone, CheckWait, Confirmed, PollDeadline, PollAgain, EndPrint,
                  EndCopy, BeginCopy, BeginQuery, BeginPrint, link
    <2> QED BY <1>6, <2>1
  <1>8. CASE Answer \/ Ignore \/ Report \/ UNCHANGED vars
    BY <1>8 DEF Answer, Ignore, Report, vars, link
  <1> QED BY <1>1, <1>2, <1>3, <1>4, <1>5, <1>7, <1>8, <1>9, <1>10 DEF Next, Start, Stop

(* However far start got and however the session ended, a kept link calls a   *)
(* handler of a dead client only where that characteristic's own start_notify *)
(* or stop_notify failed or a cancellation cut stop() short.                  *)
THEOREM NoStray == Spec => []NoStrayHandler
  <1>1. Init => StrayInv
    BY DEF Init, StrayInv
  <1>2. StrayInv /\ [Next]_vars => StrayInv'
    BY StrayNext
  <1>3. StrayInv => NoStrayHandler
    BY DEF StrayInv, NoStrayHandler
  <1> QED BY <1>1, <1>2, <1>3, PTL DEF Spec

-----------------------------------------------------------------------------
(* Confirmations that are the page's own. *)

(* Pages are confirmed by success payloads, which nothing reports unasked.    *)
SuccessIsAnAnswer == \A p \in Reports : Kind(p) # "success"

(* On a link of its own, a print finds the printer without requests to deal   *)
(* with, and leaves it one at a time.                                         *)
OwnOK ==
    /\ InCopy => session = "print"
    /\ session = "print" /\ pc # "off" => op \in {"none", "print"}
    /\ ~keep =>
          /\ pc = "off" => owed = <<>>
          /\ session = "print" /\ op = "none" => owed = <<>>
          /\ InCopy => owed \in {<<>>, <<Entry(waiter)>>}
          /\ InCopy /\ (~up \/ waiter.response # None) => owed = <<>>
          /\ pc \in {"preamble", "settle"} => owed = <<>> /\ waiter.response = None
    /\ ConfirmIsOwn

LEMMA TailOfOne == ASSUME NEW x \in Requests PROVE Tail(<<x>>) = <<>>
  OBVIOUS

LEMMA AppendToNone == ASSUME NEW x \in Requests PROVE Append(<<>>, x) = <<x>>
  OBVIOUS

(* What a notification does to a page's waiter. *)
LEMMA OwnNotified ==
    ASSUME IInv, OwnOK, NEW ch \in {"rx", "cx"}, NEW p \in Payloads, NEW from \in Nat,
           Notify(ch, p, from)
    PROVE  /\ Entry(waiter)' = Entry(waiter) /\ waiter'.id = waiter.id
           /\ waiter'.kind = waiter.kind
           /\ \/ waiter' = waiter
              \/ waiter'.response = p /\ waiter'.from = from /\ Busy
                 /\ (InCopy => Kind(p) = "success")
  <1> USE DEF IInv
  <1>1. Routed(p, from)
    BY NotifyRoutes DEF WaiterOK, WaiterDiscipline, Kinds, Busy
  <1>2. CASE UNCHANGED routing
    BY <1>2 DEF routing, Entry
  <1>3. CASE /\ pending = {Entry(waiter)} /\ Fits(waiter.kind, p)
             /\ waiter' = IF waiter.response = None
                          THEN [waiter EXCEPT !.response = p, !.from = from]
                          ELSE waiter
    BY <1>3 DEF WaiterOK, WaiterDiscipline, Fits, Typed, Waiter, Entry, Busy
  <1> QED BY <1>1, <1>2, <1>3 DEF Routed

(* A copy begins where the printer has dealt with everything. *)
LEMMA OwnCopyBegins ==
    ASSUME IInv, OwnOK, NEW n \in Nat, BeginCopy(n), ~keep => owed = <<>>,
           session = "print", op' = "print",
           UNCHANGED <<keep, owed, session>>
    PROVE  OwnOK'
  <1>1. waiter'.response = None
    BY DEF BeginCopy, AddWaiter
  <1> QED BY <1>1 DEF OwnOK, ConfirmIsOwn, BeginCopy, InCopy

LEMMA OwnNext ==
    ASSUME SuccessIsAnAnswer, IInv, OwnOK, [Next]_vars
    PROVE  OwnOK'
  <1> USE DEF IInv
  <1>1. CASE \/ \E s \in {"poll", "print"} : Connect(s)
             \/ Start
    BY <1>1 DEF Connect, Start, Subscribe, Listen, SubscribeFails, CreditsAwaited, OwnOK,
                ConfirmIsOwn, InCopy, link, routing
  <1>2. CASE Raise \/ CheckFault \/ PollDeadline
    BY <1>2 DEF Raise, CheckFault, PollDeadline, EndPrint, OwnOK, ConfirmIsOwn,
                InCopy, link, page
  <1>3. CASE \/ \E kind \in QueryKinds : BeginQuery(kind)
             \/ Query
    BY <1>3 DEF BeginQuery, AddWaiter, Query, QuerySent, QueryAnswered, QueryDropped,
                QueryTimeout, EndQuery, OwnOK, ConfirmIsOwn, InCopy, link, routing,
                QueryKinds
  <1>4. CASE \E n \in 1..MaxCopies : BeginPrint(n)
    <2>1. PICK n \in 1..MaxCopies : BeginPrint(n)
      BY <1>4
    <2> QED BY <2>1, OwnCopyBegins DEF BeginPrint, OwnOK, link
  <1>5. CASE PreambleSent \/ BulkSent \/ CheckWait \/ PollAgain
    BY <1>5 DEF PreambleSent, BulkSent, CheckWait, PollAgain, OwnOK, ConfirmIsOwn,
                InCopy, link, routing, Entry
  <1>6. CASE Settled
    <2>1. Entry(waiter) \in Requests
      BY <1>6 DEF Settled, Typed, WaiterOK, Entry, Waiter, Requests, Kinds, InCopy
    <2>2. ~keep => owed' \in {<<>>, <<Entry(waiter)>>} /\ (~up => owed' = <<>>)
                   /\ waiter.response = None
      BY <1>6, <2>1, AppendToNone DEF Settled, OwnOK
    <2>3. pc = "settle" /\ pc' = "bulk" /\ UNCHANGED <<keep, up, waiter, op, session>>
      BY <1>6 DEF Settled, link, routing
    <2>4. ConfirmIsOwn' /\ Entry(waiter)' = Entry(waiter)
      BY <2>3 DEF OwnOK, ConfirmIsOwn, Entry
    <2>5. session = "print" /\ op \in {"none", "print"}
      BY <2>3 DEF OwnOK, InCopy
    <2>6. op # "none"
      BY <2>3 DEF PrintOK, InCopy
    <2> HIDE DEF IInv
    <2> QED BY <2>2, <2>3, <2>4, <2>5, <2>6 DEF OwnOK, InCopy
  <1>7. CASE CheckDone \/ Confirmed
    <2>1. EndCopy /\ pc \in {"check", "confirm"} /\ (~up \/ waiter.response # None)
      BY <1>7 DEF CheckDone, Confirmed
    <2>2. session = "print" /\ op = "print" /\ (~keep => owed = <<>>) /\ copy + 1 \in Nat
      BY <2>1 DEF OwnOK, InCopy, PrintOK, Typed
    <2>3. CASE EndPrint("ok", "ready")
      BY <2>2, <2>3 DEF EndPrint, OwnOK, ConfirmIsOwn, InCopy, link, page
    <2>4. CASE BeginCopy(copy + 1) /\ UNCHANGED <<link, op, owed, session>>
      BY <2>2, <2>4, OwnCopyBegins DEF link
    <2> QED BY <2>1, <2>3, <2>4 DEF EndCopy
  <1>8. CASE Finish \/ Unsubscribe \/ StopCancelled \/ UNCHANGED vars
    BY <1>8 DEF Finish, Unsubscribe, StopCancelled, vars, OwnOK, ConfirmIsOwn, InCopy, link, routing,
                Entry
  <1>9. CASE Stopped \/ Drop
    BY <1>9 DEF Stopped, Drop, LinkDown, Suspended, OwnOK, ConfirmIsOwn, InCopy, link,
                routing, Entry
  <1>10. CASE Answer
    <2>1. PICK ch \in live, p \in Answers[owed[1].kind] :
            /\ ch = "cx" => owed[1].kind = "success"
            /\ Notify(ch, p, owed[1].id)
      BY <1>10 DEF Answer
    <2>2. owed[1] \in Requests /\ ch \in {"rx", "cx"}
      BY <1>10, <2>1 DEF Answer, Typed, Notify
    <2>3. p \in Payloads /\ owed[1].id \in Nat
      BY <2>1, <2>2 DEF Payloads, Requests
    <2>4. /\ UNCHANGED <<pc, keep, up, op, session>> /\ owed # <<>> /\ owed' = Tail(owed)
      BY <1>10 DEF Answer, link
    <2>5. ~keep /\ InCopy => owed = <<Entry(waiter)>> /\ owed' = <<>>
                             /\ owed[1].id = waiter.id /\ waiter.response = None /\ up
      <3>1. SUFFICES ASSUME ~keep, InCopy
                     PROVE  /\ owed = <<Entry(waiter)>> /\ owed' = <<>>
                            /\ owed[1].id = waiter.id /\ waiter.response = None /\ up
        OBVIOUS
      <3>2. owed = <<Entry(waiter)>> /\ waiter.response = None /\ up
        BY <2>4, <3>1 DEF OwnOK
      <3>3. owed[1] = Entry(waiter)
        BY <3>2
      <3>4. owed' = <<>>
        BY <2>2, <2>4, <3>2, <3>3, TailOfOne
      <3> QED BY <3>2, <3>3, <3>4 DEF Entry
    <2>6. /\ Entry(waiter)' = Entry(waiter) /\ waiter'.id = waiter.id
          /\ waiter'.kind = waiter.kind
          /\ \/ waiter' = waiter
             \/ waiter'.from = owed[1].id /\ Busy
      BY <2>1, <2>2, <2>3, OwnNotified
    <2>7. Busy /\ waiter.kind = "success" => InCopy
      BY DEF WaiterOK, Busy, QueryKinds
    <2>8. ConfirmIsOwn'
      BY <2>4, <2>5, <2>6, <2>7 DEF ConfirmIsOwn, OwnOK
    <2>9. ~keep => ~(pc = "off") /\ ~(pc \in {"preamble", "settle"})
                   /\ ~(session = "print" /\ op = "none")
      BY <2>4 DEF OwnOK
    <2> QED BY <2>4, <2>5, <2>8, <2>9 DEF OwnOK, InCopy
  <1>11. CASE Ignore
    <2>1. ~keep /\ InCopy => owed' = <<>>
      <3>1. SUFFICES ASSUME ~keep, InCopy PROVE owed' = <<>>
        OBVIOUS
      <3>2. owed = <<Entry(waiter)>> /\ owed' = Tail(owed)
        BY <1>11, <3>1 DEF Ignore, OwnOK
      <3>3. Entry(waiter) \in Requests
        BY <3>1 DEF Typed, WaiterOK, Entry, Waiter, Requests, Kinds
      <3> QED BY <3>2, <3>3, TailOfOne
    <2> QED BY <1>11, <2>1 DEF Ignore, OwnOK, ConfirmIsOwn, InCopy, link, routing, Entry
  <1>12. CASE Report
    <2>1. PICK p \in Reports : Notify("rx", p, 0)
      BY <1>12 DEF Report
    <2>2. UNCHANGED <<pc, keep, up, op, owed, session>> /\ p \in Payloads
      BY <1>12 DEF Report, Payloads, link
    <2>3. Kind(p) # "success"
      BY DEF SuccessIsAnAnswer
    <2>4. /\ Entry(waiter)' = Entry(waiter) /\ waiter'.id = waiter.id
          /\ waiter'.kind = waiter.kind
          /\ \/ waiter' = waiter
             \/ Busy /\ ~InCopy
      BY <2>1, <2>2, <2>3, OwnNotified
    <2>5. Busy /\ ~InCopy => waiter.kind # "success"
      BY DEF WaiterOK, Busy, QueryKinds
    <2>6. InCopy => waiter' = waiter
      BY <2>4
    <2>7. ConfirmIsOwn'
      BY <2>2, <2>4, <2>5 DEF ConfirmIsOwn, OwnOK
    <2> QED BY <2>2, <2>4, <2>6, <2>7 DEF OwnOK, InCopy
  <1> QED BY <1>1, <1>2, <1>3, <1>4, <1>5, <1>6, <1>7, <1>8, <1>9, <1>10, <1>11, <1>12
          DEF Next, Printing, Stop

(* On a link of its own, a page is taken to be printed on its own             *)
(* confirmation only, as long as no success payload comes unasked.            *)
THEOREM ConfirmedByOwn == ASSUME SuccessIsAnAnswer PROVE Spec => []ConfirmIsOwn
  <1>1. Init => OwnOK
    BY DEF Init, OwnOK, ConfirmIsOwn, InCopy
  <1>2. IInv /\ OwnOK /\ [Next]_vars => OwnOK'
    BY OwnNext
  <1>3. OwnOK => ConfirmIsOwn
    BY DEF OwnOK
  <1> QED BY <1>1, <1>2, <1>3, Invariance, PTL DEF Spec

-----------------------------------------------------------------------------
(* The ranges of the state. *)

LabelsOK ==
    /\ keep \in BOOLEAN /\ up \in BOOLEAN /\ cut \in BOOLEAN /\ heard \in BOOLEAN
    /\ op \in QueryKinds \cup {"none", "print"}
    /\ outcome \in {"none", "running", "ok", "unanswered", "dropped", "fault",
                    "timeout", "failed"}
    /\ fault \in FaultStatuses \cup {None}
    /\ faultAt \in {"none", "early", "late", "after"}
    /\ session \in {"poll", "print"}

(* The copies still to come have their futures' numbers left.                 *)
CountsOK ==
    /\ waiter.id <= MaxWaiters
    /\ Busy => waiter.id # 0
    /\ InCopy => waiter.id + (copies - copy) <= MaxWaiters
    /\ copies <= MaxCopies /\ copy <= copies /\ pages <= copies
    /\ waited \in 0..PollLimit - 1
    /\ sessions \in 0..MaxSessions /\ reports \in 0..MaxReports

LEMMA LabelsNext ==
    ASSUME IInv, LabelsOK, [Next]_vars
    PROVE  LabelsOK'
  <1> USE DEF LabelsOK, link, status
  <1>1. ASSUME UNCHANGED <<keep, heard, op, fault, faultAt, session>>,
               up' = up \/ up' = FALSE, cut' = cut \/ cut' = ~up,
               outcome' \in {outcome, "ok", "unanswered", "dropped", "fault",
                             "timeout", "failed"}
        PROVE  LabelsOK'
    <2>1. keep' \in BOOLEAN /\ heard' \in BOOLEAN
      BY <1>1
    <2>2. up' \in BOOLEAN /\ cut' \in BOOLEAN
      BY <1>1
    <2>3. UNCHANGED <<op, fault, faultAt, session>>
      BY <1>1
    <2> QED BY <1>1, <2>1, <2>2, <2>3
  <1>2. ASSUME NEW s \in {"poll", "print"}, Connect(s) PROVE LabelsOK'
    <2>1. up' = TRUE /\ UNCHANGED <<keep, cut, heard>>
      BY <1>2 DEF Connect
    <2>2. /\ op' = "none" /\ outcome' \in {"none", "failed"} /\ session' = s
          /\ fault' = None /\ faultAt' = "none"
      BY <1>2 DEF Connect
    <2> QED BY <2>1, <2>2
  <1>3. CASE Start
    BY <1>1, <1>3 DEF Start, Subscribe, Listen, SubscribeFails, CreditsAwaited
  <1>4. CASE Query
    BY <1>1, <1>4 DEF Query, QuerySent, QueryAnswered, QueryDropped, QueryTimeout,
                      EndQuery
  <1>5. CASE PreambleSent \/ Settled \/ BulkSent \/ CheckWait \/ PollAgain
    BY <1>1, <1>5 DEF PreambleSent, Settled, BulkSent, CheckWait, PollAgain
  <1>6. CASE CheckFault \/ PollDeadline \/ Raise
    BY <1>1, <1>6 DEF CheckFault, PollDeadline, Raise, EndPrint
  <1>7. CASE Stop \/ StopCancelled \/ Drop \/ Ignore
    BY <1>1, <1>7 DEF Stop, Finish, Unsubscribe, Stopped, StopCancelled, LinkDown, Drop, Ignore
  <1>8. CASE UNCHANGED vars
    BY <1>1, <1>8 DEF vars
  <1>9. ASSUME NEW kind \in QueryKinds, BeginQuery(kind) PROVE LabelsOK'
    <2>1. /\ heard' = FALSE /\ cut' = ~up /\ op' = kind /\ outcome' = "running"
          /\ UNCHANGED <<keep, up, fault, faultAt, session>>
      BY <1>9 DEF BeginQuery, AddWaiter
    <2> QED BY <2>1
  <1>10. ASSUME NEW n, BeginCopy(n), UNCHANGED <<keep, up, session>>,
                fault' \in {fault, None}, faultAt' \in {faultAt, "none"},
                op' \in {op, "print"}, outcome' \in {outcome, "running"}
         PROVE  LabelsOK'
    <2>1. heard' = FALSE /\ cut' = ~up
      BY <1>10 DEF BeginCopy, AddWaiter
    <2> QED BY <1>10, <2>1
  <1>11. CASE \E n \in 1..MaxCopies : BeginPrint(n)
    BY <1>10, <1>11 DEF BeginPrint
  <1>12. CASE CheckDone \/ Confirmed
    <2>1. CASE EndPrint("ok", "ready")
      BY <1>1, <2>1 DEF EndPrint
    <2>2. CASE BeginCopy(copy + 1) /\ UNCHANGED <<link, op, outcome, status, session>>
      BY <1>10, <2>2
    <2> QED BY <1>12, <2>1, <2>2 DEF CheckDone, Confirmed, EndCopy
  <1>13. ASSUME NEW ch, NEW p, NEW from, Notify(ch, p, from)
         PROVE  /\ fault' \in FaultStatuses \cup {None}
                /\ faultAt' \in {"none", "early", "late", "after"}
    BY <1>13 DEF Notify, OnRx, OnCx, FaultTime
  <1>14. CASE Answer \/ Report
    <2>1. fault' \in FaultStatuses \cup {None}
          /\ faultAt' \in {"none", "early", "late", "after"}
      BY <1>13, <1>14 DEF Answer, Report
    <2>2. UNCHANGED <<keep, up, cut, op, outcome, session>>
      BY <1>14 DEF Answer, Report
    <2>3. heard' \in BOOLEAN
      BY <1>14 DEF Answer, Report
    <2> QED BY <2>1, <2>2, <2>3
  <1> QED BY <1>2, <1>3, <1>4, <1>5, <1>6, <1>7, <1>8, <1>9, <1>11, <1>12, <1>14
          DEF Next, Printing

(* A notification leaves the number of the waiter's future alone. *)
LEMMA NotifyKeepsId ==
    ASSUME IInv, NEW ch \in {"rx", "cx"}, NEW p \in Payloads, NEW from \in Nat,
           Notify(ch, p, from)
    PROVE  waiter'.id = waiter.id
  <1>1. Routed(p, from)
    BY NotifyRoutes DEF IInv, WaiterOK, WaiterDiscipline, Kinds, Busy
  <1> QED BY <1>1 DEF Routed, routing, IInv, Typed, Waiter

LEMMA CountsNext ==
    ASSUME IInv, CountsOK, [Next]_vars
    PROVE  CountsOK'
  <1> USE DEF CountsOK, Busy, InQuery, InCopy, IInv, Typed, Waiter, bounds, page,
              routing
  <1>1. CASE \/ \E s \in {"poll", "print"} : Connect(s)
             \/ Start \/ Stop \/ StopCancelled
    <2>1. ASSUME NEW s \in {"poll", "print"}, Connect(s) PROVE CountsOK'
      BY <2>1 DEF Connect
    <2>2. CASE Subscribe
      BY <2>2 DEF Subscribe
    <2>3. CASE SubscribeFails \/ CreditsAwaited
      BY <2>3 DEF SubscribeFails, CreditsAwaited
    <2>4. CASE Finish
      BY <2>4 DEF Finish
    <2>5. CASE Unsubscribe \/ StopCancelled
      BY <2>5 DEF Unsubscribe, StopCancelled
    <2>6. CASE Stopped
      BY <2>6 DEF Stopped, LinkDown
    <2> QED BY <1>1, <2>1, <2>2, <2>3, <2>4, <2>5, <2>6 DEF Start, Stop
  <1>2. ASSUME NEW kind \in QueryKinds, BeginQuery(kind)
        PROVE  CountsOK'
    BY <1>2 DEF BeginQuery, AddWaiter
  <1>3. CASE Query
    BY <1>3 DEF Query, QuerySent, QueryAnswered, QueryDropped, QueryTimeout, EndQuery
  <1>4. ASSUME NEW n \in 1..MaxCopies, BeginPrint(n)
        PROVE  CountsOK'
    BY <1>4 DEF BeginPrint, BeginCopy, AddWaiter
  <1>5. CASE PreambleSent \/ Settled \/ CheckWait \/ PollAgain
    <2>1. CASE PreambleSent
      BY <2>1 DEF PreambleSent
    <2>2. CASE Settled
      BY <2>2 DEF Settled
    <2>3. CASE CheckWait
      BY <2>3 DEF CheckWait
    <2>4. CASE PollAgain
      BY <2>4 DEF PollAgain
    <2> QED BY <1>5, <2>1, <2>2, <2>3, <2>4
  <1>6. CASE BulkSent
    BY <1>6 DEF BulkSent, PrintOK
  <1>7. CASE CheckFault \/ PollDeadline \/ Raise
    BY <1>7 DEF CheckFault, PollDeadline, Raise, EndPrint
  <1>8. CASE CheckDone \/ Confirmed
    <2>1. EndCopy /\ pc \in {"check", "confirm"}
      BY <1>8 DEF CheckDone, Confirmed
    <2>2. CASE BeginCopy(copy + 1) /\ copy < copies /\ UNCHANGED <<copies, pages, waited, bounds>>
      BY <2>1, <2>2 DEF BeginCopy, AddWaiter
    <2>3. CASE EndPrint("ok", "ready")
      BY <2>3 DEF EndPrint
    <2> QED BY <2>1, <2>2, <2>3 DEF EndCopy
  <1>9. CASE Answer
    <2>1. PICK ch \in live, p \in Answers[owed[1].kind] : Notify(ch, p, owed[1].id)
      BY <1>9 DEF Answer
    <2>2. owed[1] \in Requests /\ ch \in {"rx", "cx"}
      BY <1>9, <2>1 DEF Answer, Notify
    <2>3. p \in Payloads /\ owed[1].id \in Nat
      BY <2>1, <2>2 DEF Payloads, Requests
    <2>4. waiter'.id = waiter.id
      BY <2>1, <2>2, <2>3, NotifyKeepsId
    <2>5. UNCHANGED <<pc, page, waited, bounds>>
      BY <1>9 DEF Answer
    <2> QED BY <2>4, <2>5
  <1>10. CASE Report
    <2>1. PICK p \in Reports : Notify("rx", p, 0)
      BY <1>10 DEF Report
    <2>2. p \in Payloads
      BY DEF Payloads
    <2>3. waiter'.id = waiter.id
      BY <2>1, <2>2, NotifyKeepsId
    <2>4. UNCHANGED <<pc, page, waited, sessions>> /\ reports < MaxReports
          /\ reports' = reports + 1
      BY <1>10 DEF Report
    <2> QED BY <2>3, <2>4
  <1>11. CASE Drop \/ Ignore \/ UNCHANGED vars
    BY <1>11 DEF Drop, LinkDown, Ignore, vars
  <1> QED BY <1>1, <1>2, <1>3, <1>4, <1>5, <1>6, <1>7, <1>8, <1>9, <1>10, <1>11
          DEF Next, Printing

(* Every variable keeps its range, whatever the printer sends: a waiter on    *)
(* the list is the running request's, and no copy is begun or counted beyond  *)
(* those that were asked for.                                                 *)
THEOREM TypeCorrect == Spec => []TypeOK
  <1>1. Init => LabelsOK /\ CountsOK /\ StrayInv
    <2>1. Init => LabelsOK
      BY DEF Init, LabelsOK
    <2>2. Init => CountsOK
      BY DEF Init, CountsOK, Busy, InQuery, InCopy
    <2>3. Init => StrayInv
      BY DEF Init, StrayInv
    <2> QED BY <2>1, <2>2, <2>3
  <1>2. IInv /\ (LabelsOK /\ CountsOK /\ StrayInv) /\ [Next]_vars
          => (LabelsOK /\ CountsOK /\ StrayInv)'
    BY LabelsNext, CountsNext, StrayNext
  <1>3. IInv /\ (LabelsOK /\ CountsOK /\ StrayInv) => TypeOK
    <2> SUFFICES ASSUME IInv, LabelsOK, CountsOK, StrayInv PROVE TypeOK
      OBVIOUS
    <2>1. pending \subseteq [kind : QueryKinds \cup {"success"}, id : 1..MaxWaiters]
      <3>1. Busy => /\ waiter.id \in 1..MaxWaiters
                    /\ waiter.kind \in QueryKinds \cup {"success"}
        BY DEF CountsOK, IInv, Typed, WaiterOK, Waiter, Busy
      <3>2. Busy => Entry(waiter) \in [kind : QueryKinds \cup {"success"},
                                       id : 1..MaxWaiters]
        BY <3>1 DEF Entry
      <3> QED BY <3>2 DEF IInv, WaiterOK, WaiterDiscipline, Busy
    <2>2. /\ live \subseteq {"rx", "cx"}
          /\ stray \subseteq {"rx", "cx"} /\ excused \subseteq {"rx", "cx"}
          /\ subscribed \in {<<>>, <<"rx">>, <<"rx", "cx">>}
      BY DEF StrayInv
    <2>3. waiter.id \in 0..MaxWaiters
      BY DEF CountsOK, IInv, Typed, Waiter
    <2>4. copies \in 0..MaxCopies /\ copy \in 0..copies /\ pages \in 0..copies
      BY DEF CountsOK, IInv, Typed
    <2> QED BY <2>1, <2>2, <2>3, <2>4 DEF TypeOK, IInv, Typed, LabelsOK, CountsOK
  <1> QED BY <1>1, <1>2, <1>3, Invariance, PTL DEF Spec

=============================================================================
