----------------------------- MODULE OrderedLog -----------------------------
(***************************************************************************)
(* What the event stream of one run promises its readers, whatever buffer, *)
(* channel or file carries it: the agent keeps one log that only grows, an *)
(* event is the number of events before it, and what a reader has been     *)
(* shown is always in log order, without repetition, and never ahead of    *)
(* the log.  It does not promise that a reader is shown everything.        *)
(***************************************************************************)
EXTENDS Integers, Sequences

CONSTANTS Readers

VARIABLES log,      \* the events on record, oldest first
          view      \* view[r]: what reader r has been shown, in order

vars == <<log, view>>

Last(s) == s[Len(s)]

Init == /\ log = <<>>
        /\ view = [r \in Readers |-> <<>>]

Extend == /\ log' = Append(log, Len(log))
          /\ UNCHANGED view

Show(r) == /\ \E i \in DOMAIN log :
                /\ view[r] # <<>> => log[i] > Last(view[r])
                /\ view' = [view EXCEPT ![r] = Append(@, log[i])]
           /\ UNCHANGED log

StartOver(r) == /\ view' = [view EXCEPT ![r] = <<>>]
                /\ UNCHANGED log

Next == Extend \/ \E r \in Readers : Show(r) \/ StartOver(r)

Spec == Init /\ [][Next]_vars
=============================================================================
