----------------------------- MODULE InterestMap -----------------------------
(***************************************************************************)
(* What a Selector promises to the dispatcher: it remembers for every      *)
(* registered descriptor the events its channel asked for last, and a call *)
(* of Select reports a registered descriptor at most once and with nothing *)
(* but events it asked for.  A report without events means that the        *)
(* descriptor failed or was hung up.                                       *)
(***************************************************************************)
EXTENDS FiniteSets

CONSTANTS Fds, Interests

VARIABLES
    interest,   \* partial function: what each registered descriptor asked for
    reported    \* what Select reported and is not handled yet

interestVars == <<interest, reported>>

Init ==
    /\ interest = [fd \in {} |-> {}]
    /\ reported = {}

\* The descriptor asks for ev from now on.
Ask(fd, ev) ==
    /\ interest' = [f \in DOMAIN interest \cup {fd} |->
                        IF f = fd THEN ev ELSE interest[f]]
    /\ UNCHANGED reported

Forget(fd) ==
    /\ interest' = [f \in DOMAIN interest \ {fd} |-> interest[f]]
    /\ UNCHANGED reported

Report ==
    /\ \A e \in reported' : e.fd \in DOMAIN interest /\ e.revents \subseteq interest[e.fd]
    /\ \A e, o \in reported' : e.fd = o.fd => e = o
    /\ UNCHANGED interest

Handle(e) ==
    /\ reported' = reported \ {e}
    /\ UNCHANGED interest

Next ==
    \/ \E fd \in Fds : \/ \E ev \in Interests : Ask(fd, ev)
                       \/ Forget(fd)
    \/ Report
    \/ \E e \in reported : Handle(e)

Spec == Init /\ [][Next]_interestVars
=============================================================================
