---------------------------- MODULE AtMostOnce ----------------------------
(* What a match session promises to clients that resend: every client      *)
(* action takes effect at most once, its result never changes, and what it *)
(* changes of the match is under a new version, which its result reports.  *)
EXTENDS Integers

CONSTANTS
    Key, Result, NoResult,
    Accepted(_),  \* whether a result says that the action was accepted
    Reported(_)   \* the version a result reports

VARIABLES
    version,  \* grows with every change of the match
    match,    \* what clients are shown of the match
    result    \* Key -> the result a resend of that key is given

vars == <<version, match, result>>

Init ==
    /\ version \in Nat
    /\ result = [k \in Key |-> NoResult]

(* A client action is decided once.  A refused one changes nothing; an     *)
(* accepted one may find nothing to do, and then the version stays too.    *)
Decide(k) ==
    /\ result[k] = NoResult
    /\ result'[k] # NoResult
    /\ result' \in [Key -> Result \cup {NoResult}]
    /\ \A j \in Key \ {k} : result'[j] = result[j]
    /\ version' \in Nat /\ version' >= version
    /\ ~Accepted(result'[k]) => version' = version
    /\ version' = version => match' = match
    /\ Reported(result'[k]) = version'

(* The clock may end the match on its own. *)
Expire ==
    /\ version' \in Nat /\ version' > version
    /\ UNCHANGED result

Next == Expire \/ \E k \in Key : Decide(k)

Spec == Init /\ [][Next]_vars
===========================================================================
