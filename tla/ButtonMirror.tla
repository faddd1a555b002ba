---------------------------- MODULE ButtonMirror ----------------------------
(***************************************************************************)
(* What either firmware promises a host, whatever reads the pins and       *)
(* whatever carries the reports. The guitar keeps what it knows of each    *)
(* button; it does not vouch for the host's view until a change has been   *)
(* accepted on the link; from then on the host has what the guitar knows,  *)
(* or is owed it. ReportPath and BleGuitar implement this.                 *)
(***************************************************************************)
CONSTANT Buttons

VARIABLES
    held,       \* the buttons that are physically pressed
    known,      \* those the firmware holds pressed
    unseen,     \* buttons it may be wrong about
    vouched,    \* it vouches for what the host has
    owed,       \* a report is still to come
    host        \* the buttons the host holds pressed

vars == <<held, known, unseen, vouched, owed, host>>
linkVars == <<vouched, owed, host>>

Init ==
    /\ held \subseteq Buttons
    /\ known = {} /\ unseen = Buttons
    /\ ~vouched /\ ~owed /\ host \subseteq Buttons

Move(p) ==
    /\ held' = IF p \in held THEN held \ {p} ELSE held \cup {p}
    /\ unseen' = unseen \cup {p}
    /\ UNCHANGED <<known, linkVars>>

\* A view that is out of date is owed the new one, unless it comes at once;
\* a view nobody vouches for may change as it likes.
Tell ==
    \/ vouched' /\ owed' /\ host' = host
    \/ vouched' /\ ~owed' /\ host' = known'
    \/ ~vouched' /\ host' \subseteq Buttons

\* The firmware reads a button; unless that is news, the host hears nothing.
Read(p) ==
    /\ known' = IF p \in held THEN known \cup {p} ELSE known \ {p}
    /\ unseen \ {p} \subseteq unseen' /\ unseen' \subseteq unseen
    /\ Tell \/ (known' = known /\ UNCHANGED linkVars)
    /\ UNCHANGED held

Deliver ==
    /\ vouched /\ owed
    /\ host' = known /\ ~owed'
    /\ UNCHANGED <<held, known, unseen, vouched>>

\* A report that changes overtook while it was made: another must follow.
Garble ==
    /\ vouched /\ owed
    /\ host' \subseteq Buttons
    /\ UNCHANGED <<held, known, unseen, vouched, owed>>

\* The link comes, goes, or carries something the guitar cannot vouch for; to
\* vouch again it must owe the host a report.
LinkChanges ==
    /\ host' \subseteq Buttons
    /\ vouched' => ~vouched /\ owed'
    /\ UNCHANGED <<held, known, unseen>>

\* The firmware starts anew and has read nothing.
Restart ==
    /\ known' = {} /\ unseen' = Buttons
    /\ ~vouched' /\ ~owed' /\ host' \subseteq Buttons
    /\ UNCHANGED held

Next ==
    \/ \E p \in Buttons : Move(p) \/ Read(p)
    \/ Deliver \/ Garble \/ LinkChanges \/ Restart

Spec == Init /\ [][Next]_vars

\* The promise: a host the guitar vouches for and owes nothing is right about
\* every button that has been read since it moved.
Truthful ==
    vouched /\ ~owed => \A p \in Buttons \ unseen : p \in host <=> p \in held
=============================================================================
