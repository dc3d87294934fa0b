---------------------------- MODULE JobObservers ----------------------------
(***************************************************************************)
(* The observers of job managers, src/src/app/job_manager.cpp: notify      *)
(* copies the callbacks under the lock, counts them, and calls them one    *)
(* after the other without it; who removes an observer waits until no call *)
(* is left, those of its own thread aside (ObserverInvocation).            *)
(***************************************************************************)
EXTENDS Integers, FiniteSets

CONSTANTS Managers, Notifiers, None

VARIABLES
    observers, \* observer_ and additional_observers_ of each manager
    calls,     \* observer_calls_ of each manager
    notices    \* by thread: the notification it makes

observerVars == <<observers, calls, notices>>

\* A notification: its manager, the status it tells, the observers it has still to call, and
\* the one whose callback runs.
Silent == [of |-> None, what |-> None, left |-> {}, in |-> None]

InitObservers(watching) ==
    /\ observers = watching
    /\ calls = [m \in Managers |-> 0]
    /\ notices = [n \in Notifiers |-> Silent]

Notify(n, m, status) ==
    /\ notices[n] = Silent
    /\ notices' = IF observers[m] = {} THEN notices
                  ELSE [notices EXCEPT ![n] = [of |-> m, what |-> status,
                                               left |-> observers[m], in |-> None]]
    /\ calls' = [calls EXCEPT ![m] = @ + Cardinality(observers[m])]
    /\ UNCHANGED observers

Enter(n) ==
    /\ notices[n].in = None
    /\ \E o \in notices[n].left :
           notices' = [notices EXCEPT ![n].in = o, ![n].left = @ \ {o}]
    /\ UNCHANGED <<observers, calls>>

\* The callback returned or threw.
Leave(n) ==
    /\ notices[n].in # None
    /\ calls' = [calls EXCEPT ![notices[n].of] = @ - 1]
    /\ notices' = [notices EXCEPT ![n] = IF @.left = {} THEN Silent ELSE [@ EXCEPT !.in = None]]
    /\ UNCHANGED observers

AddObserver(m, o) ==
    /\ observers' = [observers EXCEPT ![m] = @ \cup {o}]
    /\ UNCHANGED <<calls, notices>>

\* remove_observer, and set_observer with no function: first the entry, then the wait.
EraseObserver(m, o) ==
    /\ observers' = [observers EXCEPT ![m] = @ \ {o}]
    /\ UNCHANGED <<calls, notices>>

NoCallsLeft_Now(m) == TRUE                                                   \* mutant
NoCallsLeft(m) == calls[m] = 0
=============================================================================
