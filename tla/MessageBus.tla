----------------------------- MODULE MessageBus -----------------------------
(***************************************************************************)
(* The message bus of a listener (live_message.go, events.go): handlers    *)
(* subscribe and unsubscribe at any time, also from within a handler,      *)
(* while the goroutine that reads the stream publishes one message after   *)
(* another to a copy of the list of subscribers.  The lock of the list is  *)
(* not held while a handler runs, so that a handler can be removed between *)
(* the check that it is still subscribed and its call: then it is called   *)
(* although Unsubscribe has returned.                                      *)
(***************************************************************************)
EXTENDS Integers, SequencesExt

CONSTANTS
    Subscriber,    \* ids of subscriptions; one is never used again
    MaxPublished   \* bound of the model: messages

VARIABLES
    subscribers,   \* the list: [id, legacy, accepts], where accepts are the methods
    used,          \* the ids given out
    publisher,     \* at: "idle", "check" or "call"; snapshot; legacy: which pass; i: which
                   \* subscriber; method
    published,     \* how many messages were
    manualClose,   \* the listener was closed
    calls          \* the subscribers called for this message (for the property)

vars == <<subscribers, used, publisher, published, manualClose, calls>>

Methods == {"chat", "gift"}
Filters == {{}, {"chat"}}   \* {} accepts everything

Init ==
    /\ subscribers = <<>> /\ used = {} /\ published = 0 /\ manualClose = FALSE
    /\ publisher = [at |-> "idle", snapshot |-> <<>>, legacy |-> TRUE, i |-> 1, method |-> "chat"]
    /\ calls = <<>>

\* A raw handler takes every message.
Subscribe(id, legacy, methods) ==
    /\ id \notin used /\ used' = used \cup {id} /\ (legacy => methods = {})
    /\ subscribers' = Append(subscribers, [id |-> id, legacy |-> legacy, accepts |-> methods])
    /\ UNCHANGED <<publisher, published, manualClose, calls>>
Unsubscribe(id) ==
    /\ \E i \in DOMAIN subscribers :
          /\ subscribers[i].id = id
          /\ subscribers' = RemoveAt(subscribers, i)
    /\ UNCHANGED <<used, publisher, published, manualClose, calls>>
CloseListener ==
    /\ ~manualClose /\ manualClose' = TRUE
    /\ UNCHANGED <<subscribers, used, publisher, published, calls>>

\* publishWithLoggerUntil: the list is copied; first all raw handlers, then
\* the others.
Publish(method) ==
    /\ publisher.at = "idle"
    /\ published < MaxPublished /\ published' = published + 1
    /\ publisher' = [at |-> "check", snapshot |-> subscribers, legacy |-> TRUE, i |-> 1,
                     method |-> method]
    /\ calls' = <<>>
    /\ UNCHANGED <<subscribers, used, manualClose>>
PassEnds ==
    /\ publisher.at = "check" /\ publisher.i > Len(publisher.snapshot)
    /\ publisher' = IF publisher.legacy THEN [publisher EXCEPT !.legacy = FALSE, !.i = 1]
                    ELSE [publisher EXCEPT !.at = "idle"]
    /\ UNCHANGED <<subscribers, used, published, manualClose, calls>>

\* The next subscriber: nobody any more if the listener was closed, and not
\* this one if it was removed or is not meant.
Accepts(s, method) == s.accepts = {} \/ method \in s.accepts
CheckUncopied ==
    LET s == subscribers[publisher.i]
    IN  /\ publisher.at = "check" /\ publisher.i <= Len(publisher.snapshot)
        /\ publisher' =
             IF manualClose THEN [publisher EXCEPT !.at = "idle"]
             ELSE IF /\ publisher.i <= Len(subscribers) /\ s.legacy = publisher.legacy
                     /\ publisher.legacy \/ Accepts(s, publisher.method)
                  THEN [publisher EXCEPT !.at = "call", !.snapshot[publisher.i] = s]
                  ELSE [publisher EXCEPT !.i = @ + 1]
        /\ UNCHANGED <<subscribers, used, published, manualClose, calls>>
Check ==
    LET s == publisher.snapshot[publisher.i]
    IN  /\ publisher.at = "check" /\ publisher.i <= Len(publisher.snapshot)
        /\ publisher' =
             IF manualClose THEN [publisher EXCEPT !.at = "idle"]
             ELSE IF /\ \E i \in DOMAIN subscribers : subscribers[i].id = s.id
                     /\ s.legacy = publisher.legacy
                     /\ publisher.legacy \/ Accepts(s, publisher.method)
                  THEN [publisher EXCEPT !.at = "call"]
                  ELSE [publisher EXCEPT !.i = @ + 1]
        /\ UNCHANGED <<subscribers, used, published, manualClose, calls>>

\* The handler runs; a panic is recovered.  What it does to the bus, or to
\* the listener, are actions after this one.
Call ==
    LET s == publisher.snapshot[publisher.i]
    IN  /\ publisher.at = "call"
        /\ publisher' = [publisher EXCEPT !.at = "check", !.i = @ + 1]
        /\ calls' = Append(calls, s)
        /\ UNCHANGED <<subscribers, used, published, manualClose>>

Next ==
    \/ \E id \in Subscriber, legacy \in BOOLEAN, methods \in Filters : Subscribe(id, legacy, methods)
    \/ \E id \in Subscriber : Unsubscribe(id)
    \/ \E method \in Methods : Publish(method)
    \/ PassEnds \/ Check \/ Call \/ CloseListener

Spec == Init /\ [][Next]_vars
-----------------------------------------------------------------------------
Subscription == [id : Subscriber, legacy : BOOLEAN, accepts : SUBSET Methods]
Publication == [at : {"idle", "check", "call"}, snapshot : Seq(Subscription), legacy : BOOLEAN,
                i : Nat \ {0}, method : Methods]
TypeOK ==
    /\ subscribers \in Seq(Subscription) /\ used \subseteq Subscriber
    /\ publisher \in Publication
    /\ published \in Nat /\ manualClose \in BOOLEAN /\ calls \in Seq(Subscription)

\* Handlers of one message are called in order: raw ones first, each kind in
\* the order of subscription, none twice, and only ones that take it; unless
\* the listener is closed, one that is subscribed from the beginning to the
\* end of the publication is not left out, whoever else leaves meanwhile.
Wanted(s) == s.legacy \/ Accepts(s, publisher.method)
Before(s, t) == \E i, j \in DOMAIN publisher.snapshot :
                   i < j /\ publisher.snapshot[i] = s /\ publisher.snapshot[j] = t
CallsInOrder ==
    /\ \A i \in DOMAIN calls : Wanted(calls[i])
    /\ \A i, j \in DOMAIN calls : i < j =>
          /\ calls[i].id # calls[j].id
          /\ ~calls[i].legacy => ~calls[j].legacy
          /\ calls[i].legacy = calls[j].legacy => Before(calls[i], calls[j])
Subscribed(s) == \E j \in DOMAIN subscribers : subscribers[j] = s
Called(s) == \E j \in DOMAIN calls : calls[j] = s
HandlersInOrder ==
    /\ CallsInOrder
    /\ publisher.at = "idle" /\ ~manualClose =>
          \A i \in DOMAIN publisher.snapshot :
             LET s == publisher.snapshot[i] IN Subscribed(s) /\ Wanted(s) => Called(s)

\* What docs/library.md:234 says of Unsubscribe, and the code does not do: a
\* callback that has not started yet when it returns is not run any more.
UnsubscribeStopsCalls ==
    [][Len(calls') > Len(calls) => Subscribed(Last(calls'))]_vars

\* The strengthening that makes this inductive.  Ids are those given out, and
\* no two subscriptions of a list share one; so who has left never returns.
Distinct(s) == \A i, j \in DOMAIN s : i # j => s[i].id # s[j].id
IdsGiven(s) == Distinct(s) /\ \A i \in DOMAIN s : s[i].id \in used

\* The publication has gone past subscriber i: those that were called are
\* such, and of those that are and still want it none was left out.
Passed(i) ==
    LET early == i < publisher.i
    IN  IF publisher.snapshot[i].legacy THEN publisher.legacy => early
        ELSE ~publisher.legacy /\ early
CallsPassed == \A k \in DOMAIN calls : \E i \in DOMAIN publisher.snapshot :
                   publisher.snapshot[i] = calls[k] /\ Passed(i)
PassedCalled ==
    \A i \in DOMAIN publisher.snapshot :
       LET s == publisher.snapshot[i] IN Passed(i) /\ Subscribed(s) /\ Wanted(s) => Called(s)

\* Whom it is about to call wants it, and it has gone past all when it ends.
Stage ==
    LET s == publisher.snapshot[publisher.i]
    IN  /\ publisher.at = "call" =>
             publisher.i \in DOMAIN publisher.snapshot /\ s.legacy = publisher.legacy /\ Wanted(s)
        /\ publisher.at = "idle" /\ ~manualClose =>
             \A i \in DOMAIN publisher.snapshot : Passed(i)

BusInv ==
    /\ TypeOK /\ IdsGiven(subscribers) /\ IdsGiven(publisher.snapshot)
    /\ CallsPassed /\ PassedCalled /\ Stage /\ CallsInOrder
=============================================================================
