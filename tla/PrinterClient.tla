---------------------------- MODULE PrinterClient ----------------------------
(* MarklifeClient of marklife_ble/client.py: subscriptions, waiters and the   *)
(* routing of notifications to them, queries, and prints with their copies    *)
(* and confirmations, over successive sessions on one printer.                *)
(*                                                                            *)
(* The payloads of a send are left to CreditFlow: here a send takes its time  *)
(* and then returns or raises.  The printer answers what it owes in the order *)
(* it was asked, as late as it likes or never.                                *)
(*                                                                            *)
(* Control states "check" and "ready" are stretches of code between awaits;   *)
(* in every other one the client is suspended and callbacks may run.          *)
EXTENDS Wire

CONSTANTS
    None,
    HasCx,            \* does the profile name a CX characteristic?
    DropAware,        \* does the session expose a drop event (blesession does)?
    Answers,          \* for each kind of request, the payloads that answer it
    Reports,          \* payloads the printer sends unasked
    MaxCopies,        \* bound on the copies of a print
    PollLimit,        \* half-second polls in PRINT_RESULT_TIMEOUT
    MaxWaiters,       \* bound on queries and copies over all sessions
    MaxSessions,      \* bound on sessions
    MaxReports        \* bound on unasked payloads

QueryKinds == {"info", "battery", "status"}

ASSUME PrinterClientAssumption ==
    /\ HasCx \in BOOLEAN /\ DropAware \in BOOLEAN
    /\ MaxCopies \in Nat \ {0} /\ PollLimit \in Nat \ {0}
    /\ MaxWaiters \in Nat /\ MaxSessions \in Nat /\ MaxReports \in Nat
    /\ None \notin FaultStatuses /\ None \notin Reports
    /\ \A kind \in DOMAIN Answers : None \notin Answers[kind]
    /\ QueryKinds \cup {"success"} \subseteq DOMAIN Answers

VARIABLES
    pc,               \* where the client's task is
    keep,             \* keep_connection: may the link outlive a session?
    up,               \* the link: client.is_connected
    live,             \* characteristics whose notifications reach the client
    stray,            \* those still handed to the handler of a dead client
    excused,          \* those stop() could not or was not allowed to undo
    subscribed,       \* _subscribed
    pending,          \* _pending, each entry with the number of its future
    waiter,           \* the future of the running query or copy
    op, outcome,      \* the running or last operation, and how it ended
    copy, copies,     \* the copy being printed, and how many were asked for
    printing, fault, lastStatus,    \* _printing, _fault, _last_status
    waited,           \* polls of _wait_for_print_result so far
    cut,              \* was the link already down when the send began?
    owed,             \* requests the printer has not dealt with
    session,          \* "poll" or "print"
    pages,            \* copies of this print whose bytes were all sent
    heard,            \* the printer answered this very request in time
    faultAt,          \* when the first fault came, see FaultTime
    sessions, reports \* counters for the bounds

link     == <<keep, up, live, stray, excused>>
routing  == <<pending, waiter>>
page     == <<copy, copies, pages>>
status   == <<printing, fault, lastStatus, faultAt>>
bounds   == <<sessions, reports>>
vars     == <<pc, link, subscribed, routing, op, outcome, page, status, waited,
              cut, owed, session, heard, bounds>>

(* The stretches of code in which a waiter is registered. *)
InQuery == pc \in {"ask", "answer"}
InCopy  == pc \in {"preamble", "settle", "bulk", "check", "confirm"}

-----------------------------------------------------------------------------
(* Waiters.  Futures are numbered in the order they are registered, which is  *)
(* the order of the list _pending.                                            *)

AddWaiter(kind) ==
    /\ waiter' = [id |-> waiter.id + 1, kind |-> kind, response |-> None,
                  from |-> 0]
    /\ heard' = FALSE

Entry(w) == [kind |-> w.kind, id |-> w.id]

(* Mutant: a finished operation leaves its waiter registered. *)
KeepWaiter == pending

DropWaiter == pending \ {Entry(waiter)}

Oldest(entries) == {e \in entries : \A f \in entries : e.id <= f.id}

(* _resolve: the first waiter of the kind is removed and gets the response,   *)
(* unless its future is already done.                                         *)
Resolve(kind, p, from) ==
    LET first == Oldest({e \in pending : e.kind = kind})
    IN  /\ pending' = pending \ first
        /\ waiter' = IF Entry(waiter) \in first /\ waiter.response = None
                     THEN [waiter EXCEPT !.response = p, !.from = from]
                     ELSE waiter

(* Mutant: every waiter takes an unparsed payload. *)
EveryKind == QueryKinds \cup {"success"}

RawFallbackKinds == QueryKinds

(* The kind of waiter an RX payload is for: its own, or for an unparsed       *)
(* payload the kind of the first waiter, if that is a query's.                *)
RxKind(p) ==
    IF Kind(p) # "none" THEN {Kind(p)}
    ELSE {e.kind : e \in Oldest(pending)} \cap RawFallbackKinds

(* When the printer's faults came, the earliest of them: before the last wait *)
(* of the print, in it, or after the last page was confirmed.                 *)
FaultTime ==
    IF faultAt = "early" \/ pc # "confirm" \/ copy < copies THEN "early"
    ELSE IF faultAt = "late" \/ waiter.response = None THEN "late" ELSE "after"

OnRx(p, from) ==
    /\ IF Kind(p) = "status"
       THEN /\ lastStatus' = StatusValue(p)
            /\ IF StatusValue(p) \in FaultStatuses /\ printing
               THEN /\ fault' = StatusValue(p)
                    /\ faultAt' = FaultTime
               ELSE UNCHANGED <<fault, faultAt>>
       ELSE UNCHANGED <<lastStatus, fault, faultAt>>
    /\ \/ \E kind \in RxKind(p) : Resolve(kind, p, from)
       \/ RxKind(p) = {} /\ UNCHANGED routing
    /\ UNCHANGED printing

(* Credits and MTU announcements go to the flow controller (CreditFlow). *)
OnCx(p, from) ==
    /\ IF Kind(p) = "none" THEN UNCHANGED routing ELSE Resolve(Kind(p), p, from)
    /\ UNCHANGED status

-----------------------------------------------------------------------------
Init ==
    /\ pc = "off"
    /\ keep \in BOOLEAN /\ up = FALSE /\ subscribed = <<>>
    /\ live = {} /\ stray = {} /\ excused = {}
    /\ pending = {}
    /\ waiter = [id |-> 0, kind |-> "none", response |-> None, from |-> 0]
    /\ op = "none" /\ outcome = "none"
    /\ copy = 0 /\ copies = 0 /\ pages = 0
    /\ printing = FALSE /\ fault = None /\ lastStatus = None /\ faultAt = "none"
    /\ waited = 0 /\ cut = FALSE /\ owed = <<>>
    /\ session = "poll" /\ heard = FALSE
    /\ sessions = 0 /\ reports = 0

(* ble_session hands over a link, new or kept, and a client is made for it.   *)
(* A link without the profile's service ends the session at once.             *)
Connect(s) ==
    /\ pc = "off"
    /\ sessions < MaxSessions
    /\ sessions' = sessions + 1
    /\ up' = TRUE
    /\ session' = s
    /\ pc' \in {"subscribe", "stop"}
    /\ pending' = {} /\ subscribed' = <<>>
    /\ printing' = FALSE /\ fault' = None /\ lastStatus' = None
    /\ faultAt' = "none"
    /\ op' = "none"
    /\ outcome' = IF pc' = "stop" THEN "failed" ELSE "none"
    /\ UNCHANGED <<keep, live, stray, excused, waiter, page, waited, cut, owed, heard,
                   reports>>

Channels == IF HasCx THEN <<"rx", "cx">> ELSE <<"rx">>

(* A characteristic's notifications go to this client's handler from now on,  *)
(* also if that of a dead one was still there: start_notify_with_recovery     *)
(* takes its place (or raises, see SubscribeFails).                           *)
Listen(ch) ==
    /\ live' = live \cup {ch}
    /\ stray' = stray \ {ch}
    /\ excused' = excused \ {ch}
    /\ UNCHANGED <<keep, up>>

(* Mutant: what is subscribed is noted once everything is. *)
SubscribeNotedAtEnd ==
    LET ch   == IF "rx" \in live THEN "cx" ELSE "rx"
        done == ch = Channels[Len(Channels)]
    IN  /\ pc = "subscribe" /\ up
        /\ Listen(ch)
        /\ subscribed' = IF done THEN Channels ELSE <<>>
        /\ pc' = IF ~done THEN "subscribe" ELSE IF HasCx THEN "credits" ELSE "ready"
        /\ UNCHANGED <<routing, op, outcome, page, status, waited, cut, owed,
                       session, heard, bounds>>

(* start: one characteristic after the other, each noted as it succeeds. *)
Subscribe ==
    LET ch == Channels[Len(subscribed) + 1]
    IN  /\ pc = "subscribe" /\ up
        /\ Listen(ch)
        /\ subscribed' = Append(subscribed, ch)
        /\ pc' = IF subscribed' # Channels THEN "subscribe"
                 ELSE IF HasCx THEN "credits" ELSE "ready"
        /\ UNCHANGED <<routing, op, outcome, page, status, waited, cut, owed,
                       session, heard, bounds>>

(* start_notify raises or is cancelled, before or after the handler was set:  *)
(* stop() does not know of it.                                                *)
SubscribeFails ==
    LET ch == Channels[Len(subscribed) + 1]
    IN  /\ pc = "subscribe"
        /\ pc' = "stop"
        /\ outcome' = "failed"
        /\ \/ UNCHANGED link
           \/ /\ up
              /\ live' = live \cup {ch}
              /\ stray' = stray \ {ch}
              /\ excused' = excused \cup {ch}
              /\ UNCHANGED <<keep, up>>
        /\ UNCHANGED <<subscribed, routing, op, page, status, waited, cut, owed,
                       session, heard, bounds>>

(* The opening grant has come, or INITIAL_CREDIT_TIMEOUT is over. *)
CreditsAwaited ==
    /\ pc = "credits"
    /\ pc' = "ready"
    /\ UNCHANGED <<link, subscribed, routing, op, outcome, page, status, waited,
                   cut, owed, session, heard, bounds>>

-----------------------------------------------------------------------------
(* Queries. *)

BeginQuery(kind) ==
    /\ pc = "ready" /\ session = "poll"
    /\ waiter.id < MaxWaiters
    /\ AddWaiter(kind)
    /\ pending' = pending \cup {Entry(waiter')}
    /\ owed' = Append(owed, Entry(waiter'))
    /\ op' = kind /\ outcome' = "running"
    /\ cut' = ~up
    /\ pc' = "ask"
    /\ UNCHANGED <<link, subscribed, page, status, waited, session, bounds>>

QuerySent ==
    /\ pc = "ask" /\ ~cut
    /\ pc' = "answer"
    /\ UNCHANGED <<link, subscribed, routing, op, outcome, page, status, waited,
                   cut, owed, session, heard, bounds>>

(* The query ends, its waiter is dropped; an exception ends the session too.  *)
(* (That the drop's task is cancelled and gathered in between changes nothing *)
(* of what was decided.)                                                      *)
EndQuery(result, next) ==
    /\ outcome' = result
    /\ pc' = next
    /\ pending' = DropWaiter
    /\ UNCHANGED <<link, subscribed, waiter, op, page, status, waited, cut, owed,
                   session, heard, bounds>>

QueryAnswered ==
    /\ pc = "answer" /\ waiter.response # None
    /\ EndQuery("ok", "ready")

QueryDropped ==
    /\ pc = "answer" /\ waiter.response = None
    /\ ~up /\ DropAware
    /\ EndQuery("dropped", "stop")

(* Mutant: the timer is looked at before the drop event. *)
QueryTimeoutFirst ==
    /\ pc = "answer" /\ waiter.response = None
    /\ EndQuery("unanswered", "ready")

QueryTimeout ==
    /\ pc = "answer" /\ waiter.response = None
    /\ up \/ ~DropAware
    /\ EndQuery("unanswered", "ready")

-----------------------------------------------------------------------------
(* Printing. *)

(* A copy begins: its waiter is registered before its first byte goes out. *)
BeginCopy(n) ==
    /\ AddWaiter("success")
    /\ pending' = DropWaiter \cup {Entry(waiter')}
    /\ copy' = n
    /\ cut' = ~up
    /\ pc' = "preamble"

BeginPrint(n) ==
    /\ pc = "ready" /\ session = "print" /\ op = "none"
    /\ waiter.id + n <= MaxWaiters
    /\ printing' = TRUE /\ fault' = None /\ faultAt' = "none"
    /\ op' = "print" /\ outcome' = "running"
    /\ copies' = n /\ pages' = 0
    /\ BeginCopy(1)
    /\ UNCHANGED <<link, subscribed, lastStatus, waited, owed, session, bounds>>

PreambleSent ==
    /\ pc = "preamble" /\ ~cut
    /\ pc' = "settle"
    /\ UNCHANGED <<link, subscribed, routing, op, outcome, page, status, waited,
                   cut, owed, session, heard, bounds>>

(* wait_for_credits is over, one way or the other: the page itself goes out,  *)
(* and from here on the printer may confirm it.                               *)
Settled ==
    /\ pc = "settle"
    /\ pc' = "bulk"
    /\ owed' = IF up THEN Append(owed, Entry(waiter)) ELSE owed
    /\ cut' = ~up
    /\ UNCHANGED <<link, subscribed, routing, op, outcome, page, status, waited,
                   session, heard, bounds>>

BulkSent ==
    /\ pc = "bulk" /\ ~cut
    /\ pc' = "check"
    /\ pages' = pages + 1
    /\ waited' = 0
    /\ UNCHANGED <<link, subscribed, routing, op, outcome, copy, copies, status,
                   cut, owed, session, heard, bounds>>

EndPrint(result, next) ==
    /\ outcome' = result
    /\ pc' = next
    /\ printing' = FALSE
    /\ pending' = DropWaiter
    /\ UNCHANGED <<link, subscribed, waiter, op, page, fault, lastStatus, faultAt,
                   waited, cut, owed, session, heard, bounds>>

(* Mutant: one copy too many. *)
EndCopyOneMore ==
    \/ /\ copy <= copies
       /\ BeginCopy(copy + 1)
       /\ UNCHANGED <<link, subscribed, op, outcome, copies, pages, status, waited,
                      owed, session, bounds>>
    \/ /\ copy > copies
       /\ EndPrint("ok", "ready")

(* The copy counts as printed: the next one begins, or the print is over. *)
EndCopy ==
    \/ /\ copy < copies
       /\ BeginCopy(copy + 1)
       /\ UNCHANGED <<link, subscribed, op, outcome, copies, pages, status, waited,
                      owed, session, bounds>>
    \/ /\ copy = copies
       /\ EndPrint("ok", "ready")

(* The head of the loop of _wait_for_print_result. *)
CheckFault ==
    /\ pc = "check" /\ fault # None
    /\ EndPrint("fault", "stop")

(* Mutant: the confirmation is looked at before the fault. *)
CheckDoneFirst ==
    /\ pc = "check"
    /\ waiter.response # None \/ ~up
    /\ EndCopy

CheckDone ==
    /\ pc = "check" /\ fault = None
    /\ waiter.response # None \/ ~up
    /\ EndCopy

CheckWait ==
    /\ pc = "check" /\ fault = None
    /\ waiter.response = None /\ up
    /\ pc' = "confirm"
    /\ UNCHANGED <<link, subscribed, routing, op, outcome, page, status, waited,
                   cut, owed, session, heard, bounds>>

(* The wait returns because the confirmation has come: the fault is not       *)
(* looked at again.                                                           *)
Confirmed ==
    /\ pc = "confirm" /\ waiter.response # None
    /\ EndCopy

(* Mutant: the deadline is looked at before the confirmation. *)
PollDeadlineFirst ==
    /\ pc = "confirm"
    /\ waited + 1 >= PollLimit
    /\ EndPrint("timeout", "stop")

(* Mutant: an unconfirmed page counts as printed. *)
PollDeadlineForgives ==
    /\ pc = "confirm" /\ waiter.response = None
    /\ waited + 1 >= PollLimit
    /\ EndCopy

PollDeadline ==
    /\ pc = "confirm" /\ waiter.response = None
    /\ waited + 1 >= PollLimit
    /\ EndPrint("timeout", "stop")

(* Mutant: the polls are not counted. *)
PollUncounted ==
    /\ pc = "confirm" /\ waiter.response = None
    /\ waited + 1 < PollLimit
    /\ pc' = "check"
    /\ UNCHANGED <<link, subscribed, routing, op, outcome, page, status, waited,
                   cut, owed, session, heard, bounds>>

PollAgain ==
    /\ pc = "confirm" /\ waiter.response = None
    /\ waited + 1 < PollLimit
    /\ waited' = waited + 1
    /\ pc' = "check"
    /\ UNCHANGED <<link, subscribed, routing, op, outcome, page, status, cut,
                   owed, session, heard, bounds>>

-----------------------------------------------------------------------------
(* Mutant: losing the link counts as success before the page is out, too. *)
RaiseForgivesDrop ==
    \/ /\ pc \in {"credits", "ask", "answer", "preamble", "settle", "bulk", "confirm"}
       /\ EndPrint("failed", "stop")
    \/ /\ pc = "bulk" /\ ~up
       /\ EndCopy

(* A write raises or the task is cancelled at an await: the finally clauses   *)
(* drop the waiter and clear _printing, and the session ends.                 *)
Raise ==
    /\ pc \in {"credits", "ask", "answer", "preamble", "settle", "bulk", "confirm"}
    /\ EndPrint("failed", "stop")

(* The session's body is over. *)
Finish ==
    /\ pc = "ready"
    /\ pc' = "stop"
    /\ UNCHANGED <<link, subscribed, routing, op, outcome, page, status, waited,
                   cut, owed, session, heard, bounds>>

(* Mutant: the first stop_notify that fails ends stop(). *)
UnsubscribeOrGiveUp ==
    LET ch == subscribed[Len(subscribed)]
    IN  /\ pc = "stop" /\ subscribed # <<>>
        /\ \/ /\ live' = live \ {ch}
              /\ subscribed' = SubSeq(subscribed, 1, Len(subscribed) - 1)
              /\ UNCHANGED excused
           \/ /\ excused' = excused \cup (live \cap {ch})
              /\ subscribed' = <<>>
              /\ UNCHANGED live
        /\ UNCHANGED <<pc, keep, up, stray, routing, op, outcome, page, status, waited,
                       cut, owed, session, heard, bounds>>

(* stop: unsubscribe what start subscribed, last one first.  A stop_notify    *)
(* that fails is passed over, its characteristic forgotten.                   *)
Unsubscribe ==
    LET ch == subscribed[Len(subscribed)]
    IN  /\ pc = "stop" /\ subscribed # <<>>
        /\ live' \in {live \ {ch}, live}
        /\ excused' = excused \cup (live' \cap {ch})
        /\ subscribed' = SubSeq(subscribed, 1, Len(subscribed) - 1)
        /\ UNCHANGED <<pc, keep, up, stray, routing, op, outcome, page, status, waited,
                       cut, owed, session, heard, bounds>>

(* The task is cancelled inside stop(): what is left stays subscribed. *)
StopCancelled ==
    /\ pc = "stop" /\ subscribed # <<>>
    /\ live' \in {live \ {subscribed[Len(subscribed)]}, live}
    /\ excused' = excused \cup live'
    /\ subscribed' = <<>>
    /\ UNCHANGED <<pc, keep, up, stray, routing, op, outcome, page, status, waited, cut,
                   owed, session, heard, bounds>>

(* The link goes down: its subscriptions and what the printer owes go too. *)
LinkDown ==
    /\ UNCHANGED keep
    /\ up' = FALSE
    /\ live' = {} /\ stray' = {} /\ excused' = {}
    /\ owed' = <<>>

(* The session gives the link back; blesession keeps it or closes it.  The    *)
(* client is dead from here on, its handlers on a kept link are strays.       *)
Stopped ==
    /\ pc = "stop" /\ subscribed = <<>>
    /\ pc' = "off"
    /\ \/ /\ keep
          /\ stray' = stray \cup live
          /\ live' = {}
          /\ UNCHANGED <<keep, up, excused, owed>>
       \/ LinkDown
    /\ UNCHANGED <<subscribed, routing, op, outcome, page, status, waited, cut,
                   session, heard, bounds>>

-----------------------------------------------------------------------------
(* The printer and the link. *)

Suspended == pc \notin {"ready", "check"}

Drop ==
    /\ Suspended /\ up
    /\ LinkDown
    /\ UNCHANGED <<pc, subscribed, routing, op, outcome, page, status, waited, cut,
                   session, heard, bounds>>

Notify(ch, p, from) ==
    \/ ch = "rx" /\ OnRx(p, from)
    \/ ch = "cx" /\ OnCx(p, from)

(* The printer answers the request it has had longest.  Only a completed page *)
(* is acknowledged on CX, by some models.                                     *)
Answer ==
    /\ Suspended /\ owed # <<>>
    /\ LET r == owed[1]
       IN  /\ \E ch \in live, p \in Answers[r.kind] :
                  /\ ch = "cx" => r.kind = "success"
                  /\ Notify(ch, p, r.id)
           /\ heard' = (heard \/ (Entry(waiter) = r /\ (InQuery \/ InCopy)))
    /\ owed' = Tail(owed)
    /\ UNCHANGED <<pc, link, subscribed, op, outcome, page, waited, cut, session,
                   bounds>>

(* It ignores a request, or its answer finds nobody subscribed. *)
Ignore ==
    /\ Suspended /\ owed # <<>>
    /\ owed' = Tail(owed)
    /\ UNCHANGED <<pc, link, subscribed, routing, op, outcome, page, status, waited,
                   cut, session, heard, bounds>>

(* It reports something unasked. *)
Report ==
    /\ Suspended /\ "rx" \in live
    /\ reports < MaxReports
    /\ reports' = reports + 1
    /\ \E p \in Reports : Notify("rx", p, 0)
    /\ UNCHANGED <<pc, link, subscribed, op, outcome, page, waited, cut, owed,
                   session, heard, sessions>>

-----------------------------------------------------------------------------
Start == Subscribe \/ SubscribeFails \/ CreditsAwaited
Query == QuerySent \/ QueryAnswered \/ QueryDropped \/ QueryTimeout
Printing ==
    \/ PreambleSent \/ Settled \/ BulkSent
    \/ CheckFault \/ CheckDone \/ CheckWait
    \/ Confirmed \/ PollDeadline \/ PollAgain
Stop == Finish \/ Unsubscribe \/ Stopped

Next ==
    \/ \E s \in {"poll", "print"} : Connect(s)
    \/ Start
    \/ \E kind \in QueryKinds : BeginQuery(kind)
    \/ Query
    \/ \E n \in 1..MaxCopies : BeginPrint(n)
    \/ Printing
    \/ Raise
    \/ Stop \/ StopCancelled
    \/ Drop \/ Answer \/ Ignore \/ Report

Spec == Init /\ [][Next]_vars

(* The client's task is scheduled, its timers fire, and each of its sends     *)
(* returns or raises: CreditFlow!SendEnds, so unless the printer strings the  *)
(* sender along with empty grants for ever.  Nothing else is assumed of the   *)
(* printer, and no cancellation is counted on.                                *)
SendRaises == pc \in {"ask", "preamble", "bulk"} /\ Raise

FairSpec ==
    Spec /\ WF_vars(Start \/ Query \/ Printing \/ SendRaises \/ Stop)

-----------------------------------------------------------------------------
TypeOK ==
    /\ pc \in {"off", "subscribe", "credits", "ready", "ask", "answer", "preamble",
               "settle", "bulk", "check", "confirm", "stop"}
    /\ keep \in BOOLEAN /\ up \in BOOLEAN
    /\ live \subseteq {"rx", "cx"}
    /\ stray \subseteq {"rx", "cx"} /\ excused \subseteq {"rx", "cx"}
    /\ subscribed \in {<<>>, <<"rx">>, <<"rx", "cx">>}
    /\ pending \subseteq [kind : QueryKinds \cup {"success"}, id : 1..MaxWaiters]
    /\ waiter.id \in 0..MaxWaiters
    /\ op \in QueryKinds \cup {"none", "print"}
    /\ outcome \in {"none", "running", "ok", "unanswered", "dropped", "fault",
                    "timeout", "failed"}
    /\ copies \in 0..MaxCopies /\ copy \in 0..copies /\ pages \in 0..copies
    /\ printing \in BOOLEAN /\ cut \in BOOLEAN /\ heard \in BOOLEAN
    /\ fault \in FaultStatuses \cup {None}
    /\ faultAt \in {"none", "early", "late", "after"}
    /\ waited \in 0..PollLimit - 1
    /\ session \in {"poll", "print"}
    /\ sessions \in 0..MaxSessions /\ reports \in 0..MaxReports

(* No waiter outlives its operation, whichever way it ends (answer, timeout,  *)
(* drop, fault, exception, cancellation): a leftover entry of _pending would  *)
(* take the answer meant for a later request.                                 *)
WaiterDiscipline ==
    pending \subseteq (IF InQuery \/ InCopy THEN {Entry(waiter)} ELSE {})

(* A request is given up as unanswered or timed out only if nothing answered  *)
(* it: neither the query's timer nor the print's deadline wins over a         *)
(* response already delivered, no confirmation that comes during the transfer *)
(* is lost (client.py:173-177), and a query that loses its link says so and   *)
(* does not take the printer for silent (client.py:253-262).                  *)
NothingMissed ==
    [][outcome' \in {"unanswered", "timeout"} /\ outcome' # outcome =>
           ~heard /\ (outcome' = "unanswered" /\ DropAware => up)]_vars

(* What resolves a waiter is of its sort: nothing but a success payload ends  *)
(* a page, so no late answer to a query can; and no confirmation, credit or   *)
(* MTU payload is taken for the answer to a query.                            *)
AnswerFits ==
    waiter.response # None =>
        Kind(waiter.response) \in IF waiter.kind = "success" THEN {"success"}
                                  ELSE IF waiter.kind = "status"
                                  THEN {"status", "none"} ELSE {"none"}

(* A print that ends well has sent every byte of every copy, and its last     *)
(* page was confirmed unless the link went down after it.                     *)
OkMeansPrinted ==
    op = "print" /\ outcome = "ok" /\ pc = "ready" =>
        /\ pages = copies
        /\ waiter.response = None => ~up

(* A fault reported while printing fails the print, except one that comes in  *)
(* the very last wait, which a confirmation in the same half second hides.    *)
FaultSticks == op = "print" /\ outcome = "ok" => faultAt # "early"

(* A handler outlives its client, on a kept link, only where start_notify or  *)
(* stop_notify of its own characteristic failed, or a cancellation cut stop() *)
(* short: however far start got (client.py:99-102), and whatever becomes of   *)
(* the other characteristic's stop_notify (client.py:122-127).                *)
NoStrayHandler == stray \subseteq excused

(* Every session ends, whatever the printer does or leaves undone, as long as *)
(* its sends do (see FairSpec).                                               *)
SessionEnds == (pc # "off") ~> (pc = "off")

(* With a link per session, the confirmation a page is taken to be printed by *)
(* is its own, not that of an earlier copy.  (On a kept link it may be that   *)
(* of a page that was given up.)                                              *)
ConfirmIsOwn ==
    ~keep /\ waiter.kind = "success" /\ waiter.response # None => waiter.from = waiter.id

(* client.py:46-49: "anything unrecognised while such a query is pending is   *)
(* the answer to it".  A late answer to an earlier query is unrecognised too. *)
AnswerIsOwn ==
    waiter.kind \in QueryKinds /\ waiter.response # None => waiter.from = waiter.id

(* test_client.py:164, test_fault_during_printing_raises: a fault that comes   *)
(* before the last page is confirmed fails the print.                         *)
FaultReported == op = "print" /\ outcome = "ok" => faultAt \in {"none", "after"}
=============================================================================
