---------------------------- MODULE ContentStore ----------------------------
(***************************************************************************)
(* What the registry promises those who upload droplets and pull images,   *)
(* whatever its goroutines do to the two maps: a set of contents that only *)
(* grows and is lost only as a whole.  A name is given to a content that   *)
(* is there, a content is whole when it is added, and stays so until       *)
(* somebody asks for it.  Keys, buffers and requests do not appear.        *)
(***************************************************************************)
CONSTANTS
    Contents,           \* what can be stored
    Names, Nameable,    \* names, and the contents that can have one
    Base,               \* the content that is there from the start
    NoName              \* for a name that was not given

VARIABLES
    stored,             \* contents that are there
    whole,              \* those of which nothing was lost
    asked,              \* those that were asked for since they were added
    names               \* what each name stands for

vars == <<stored, whole, asked, names>>

Init ==
    /\ stored = {Base} /\ whole = {Base} /\ asked = {}
    /\ names = [n \in Names |-> NoName]

Add(c) ==
    /\ stored' = stored \cup {c}
    /\ whole' = whole \cup {c}
    /\ asked' = asked \ {c}
    /\ UNCHANGED names

Name(n, c) ==
    /\ c \in stored
    /\ names' = [names EXCEPT ![n] = c]
    /\ UNCHANGED <<stored, whole, asked>>

Ask(c) ==
    /\ c \in stored
    /\ asked' = asked \cup {c}
    /\ UNCHANGED <<stored, whole, names>>

Drain(c) ==
    /\ c \in asked
    /\ whole' = whole \ {c}
    /\ UNCHANGED <<stored, asked, names>>

\* Contents and names go together.
Restart ==
    /\ stored' = {Base} /\ whole' = {Base} /\ asked' = {}
    /\ names' = [n \in Names |-> NoName]

Next ==
    \/ \E c \in Contents : Add(c) \/ Ask(c) \/ Drain(c)
    \/ \E n \in Names, c \in Nameable : Name(n, c)
    \/ Restart

Spec == Init /\ [][Next]_vars
=============================================================================
