------------------------------ MODULE Iteration ------------------------------
(***************************************************************************)
(* The helpers of jsScript/webmssdk.js that run a source's iterator for    *)
(* destructuring and for-of loops, and that must give the iterator back:   *)
(*   "array"       slicedToArray with iterableToArrayLimit (Bwf, Bcl)      *)
(*   "arrayLoose"  the loose variant (Bwl, Bcy)                            *)
(*   "loop"        createForOfIteratorHelper (Bxs)                         *)
(*   "loopLoose"   the loose variant (Byi), which has no end handler       *)
(* A source is an array, has an iterator, or has neither.  The iterator    *)
(* and the body of the loop do as they like.                               *)
(***************************************************************************)
EXTENDS Integers, Sequences

CONSTANT Limit   \* at most so many values are there, or taken

VARIABLES
    helper, source,
    phase,     \* "begin", "pull", "body", "finally", "done"
    limit,     \* how many values a destructuring pattern wants
    taken,     \* how many values were taken
    ended,     \* the iterator said it is done
    broken,    \* its next threw
    normal,    \* the flag that says that it needs no closing (Bcv, Byc)
    error,     \* the error to rethrow (Bcw and Bcr, Byd and Byb), or "none"
    early,     \* the consumer left before the end
    closes,    \* how often return was called
    out        \* "none", "value", or the error the caller sees

vars == <<helper, source, phase, limit, taken, ended, broken, normal, error, early, closes, out>>

Arrays == {"array", "arrayLoose"}

Init ==
    /\ helper \in Arrays \cup {"loop", "loopLoose"}
    /\ source \in {"array", "iterable", "other"}
    /\ limit \in 0..Limit
    /\ phase = "begin" /\ taken = 0
    /\ ended = FALSE /\ broken = FALSE /\ normal = TRUE
    /\ error = "none" /\ early = FALSE /\ closes = 0 /\ out = "none"

Fixed == UNCHANGED <<helper, source, limit>>
Leave(o) == phase' = "done" /\ out' = o

\* Array patterns take an array as it is.  An iterator that is asked for
\* nothing is closed unread; the loose variant asks the source, not the
\* result, for its length, which an iterable does not have, and takes
\* nothing.  Other sources are refused.
BeginArray ==
    /\ phase = "begin" /\ helper \in Arrays
    /\ \/ source = "array" /\ Leave("value") /\ UNCHANGED normal
       \/ source = "other" /\ Leave("TypeError") /\ UNCHANGED normal
       \/ /\ source = "iterable" /\ helper = "array"
          /\ phase' = IF limit = 0 THEN "finally" ELSE "pull"
          /\ normal' = (limit # 0) /\ UNCHANGED out
       \/ /\ source = "iterable" /\ helper = "arrayLoose"
          /\ Leave("value") /\ UNCHANGED normal
    /\ early' = (source = "iterable" /\ helper = "array" /\ limit = 0)
    /\ Fixed /\ UNCHANGED <<taken, ended, broken, error, closes>>

\* An iterable, or anything with elements, can be looped over.
BeginLoop ==
    /\ phase = "begin" /\ helper \notin Arrays
    /\ IF source = "other" THEN Leave("TypeError") ELSE phase' = "pull" /\ UNCHANGED out
    /\ Fixed /\ UNCHANGED <<taken, ended, broken, normal, error, early, closes>>

\* One call of next.  An array neither throws nor is closed.
PullArray ==
    /\ phase = "pull" /\ helper = "array"
    /\ \/ ended' = TRUE /\ normal' = TRUE /\ phase' = "finally"
          /\ UNCHANGED <<taken, broken, error, early>>
       \/ /\ taken' = taken + 1
          /\ early' = (taken + 1 = limit)
          /\ phase' = IF taken + 1 = limit THEN "finally" ELSE "pull"
          /\ normal' = (taken + 1 # limit)
          /\ UNCHANGED <<ended, broken, error>>
       \/ broken' = TRUE /\ error' = "next" /\ phase' = "finally"
          /\ UNCHANGED <<taken, ended, normal, early>>
    /\ Fixed /\ UNCHANGED <<closes, out>>

PullLoop ==
    LET iterates == source = "iterable"
    IN  /\ phase = "pull" /\ helper \notin Arrays
        /\ \/ /\ ended' = TRUE /\ normal' = TRUE
              /\ phase' = "finally" /\ UNCHANGED <<taken, broken, error>>
           \/ /\ taken < Limit /\ taken' = taken + 1
              /\ normal' = ~iterates
              /\ phase' = "body" /\ UNCHANGED <<ended, broken, error>>
           \/ /\ iterates /\ broken' = TRUE /\ error' = "next"
              /\ phase' = "finally" /\ UNCHANGED <<taken, ended, normal>>
        /\ Fixed /\ UNCHANGED <<early, closes, out>>

\* The body of the loop goes on, leaves, or throws (the handler e keeps the
\* error).
Body ==
    /\ phase = "body"
    /\ \/ phase' = "pull" /\ UNCHANGED <<early, error>>
       \/ phase' = "finally" /\ early' = TRUE /\ error' \in {"none", "body"}
    /\ Fixed /\ UNCHANGED <<taken, ended, broken, normal, closes, out>>

\* The end: the iterator is closed unless that is not needed (or it has no
\* return, which is not distinguished); its own error counts only if there is
\* no earlier one.  A result of return that is no object makes destructuring
\* fail.  The loose loop does nothing here.
FinallyAlwaysCloses ==
    LET close == helper # "loopLoose"
    IN  /\ phase = "finally"
        /\ closes' = IF close THEN closes + 1 ELSE closes
        /\ \E answer \in IF close THEN {"object", "primitive", "throws"} ELSE {"object"} :
              Leave(IF error # "none" THEN error
                    ELSE IF answer = "throws" THEN "return"
                    ELSE IF answer = "primitive" /\ helper = "array" THEN "TypeError"
                    ELSE "value")
        /\ Fixed /\ UNCHANGED <<taken, ended, broken, normal, error, early>>
Finally ==
    LET close == ~normal /\ helper # "loopLoose"
    IN  /\ phase = "finally"
        /\ closes' = IF close THEN closes + 1 ELSE closes
        /\ \E answer \in IF close THEN {"object", "primitive", "throws"} ELSE {"object"} :
              Leave(IF error # "none" THEN error
                    ELSE IF answer = "throws" THEN "return"
                    ELSE IF answer = "primitive" /\ helper = "array" THEN "TypeError"
                    ELSE "value")
        /\ Fixed /\ UNCHANGED <<taken, ended, broken, normal, error, early>>

Next == BeginArray \/ BeginLoop \/ PullArray \/ PullLoop \/ Body \/ Finally

Spec == Init /\ [][Next]_vars
-----------------------------------------------------------------------------
\* An iterator that was left early is closed once, one that has ended never,
\* no matter how the body, next and return fail; and of several errors the
\* first is the one that the caller sees.  (The loose loop closes nothing.)
IteratorClosed ==
    /\ closes <= 1
    /\ ended => closes = 0
    /\ phase = "done" /\ early /\ source = "iterable" /\ helper # "loopLoose" => closes = 1
    /\ phase = "done" /\ error # "none" => out = error
    /\ helper = "array" => taken <= limit

\* The strengthening that makes it inductive: how the flag `normal` stands at
\* each phase, and that nobody leaves, fails or closes but towards the end.
Closing ==
    /\ helper \in Arrays \cup {"loop", "loopLoose"} /\ limit \in Nat /\ taken \in Nat
    /\ phase \in {"begin", "pull", "body", "finally", "done"} /\ closes \in Nat
    /\ phase # "done" => closes = 0
    /\ early \/ ended \/ error # "none" => phase \in {"finally", "done"}
    /\ phase = "finally" /\ early /\ source = "iterable" => ~normal
    /\ phase = "begin" => taken = 0
    /\ phase = "finally" /\ ended => normal
    /\ phase = "pull" /\ helper = "array" => taken < limit
    /\ phase = "body" => helper \notin Arrays /\ (source = "iterable" => ~normal)
IterationInv == IteratorClosed /\ Closing
=============================================================================
