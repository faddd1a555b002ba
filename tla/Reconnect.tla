------------------------------ MODULE Reconnect ------------------------------
(***************************************************************************)
(* bt_reconnect.cpp: how the guitar finds a host it was paired with. On    *)
(* power-up and after every loss of the channel it walks the link keys in  *)
(* flash and tries their hosts one after the other; each failed attempt    *)
(* continues the walk. All of it runs in BTstack's context, so one event   *)
(* and its subscribers are one step. The key database and the HID device   *)
(* are BTstack's: keys may be written, by hosts that pair, during a walk.  *)
(***************************************************************************)
EXTENDS Naturals

CONSTANTS
    Hosts,      \* hosts that are or can be paired
    NoHost,
    NumSlots    \* NVM_NUM_LINK_KEYS

ASSUME ReconnectAssumption ==
    /\ NoHost \notin Hosts
    /\ NumSlots \in Nat

VARIABLES
    keys,       \* the link key database, slot by slot (external)
    next,       \* link_key_it: the slot the walk goes on with
    iterOpen,   \* link_key_it is initialised and not released
    trying_to_connect,
    hci,        \* power state of the controller (external)
    attempt,    \* host of the outgoing attempt (external)
    link,       \* host at the other end of the open channel (external)
    eligible,   \* history: hosts whose key was there when the walk began and
                \* has stayed in its slot
    tried,      \* history: hosts this walk has tried
    exhausted,  \* history: the walk came to its end
    stranded    \* history: hid_device_connect refused, and nobody looked

iterVars == <<next, iterOpen, trying_to_connect>>
walkVars == <<eligible, tried, exhausted, stranded>>
vars == <<keys, iterVars, hci, attempt, link, walkVars>>

Slots == 1..NumSlots

\* The database holds a host at most once.
KeysDistinct ==
    \A s, t \in Slots : keys[s] = keys[t] => s = t \/ keys[s] = NoHost

TypeOK ==
    /\ keys \in [Slots -> Hosts \cup {NoHost}] /\ KeysDistinct
    /\ next \in 1..(NumSlots + 1)
    /\ hci \in {"starting", "working"}
    /\ attempt \in Hosts \cup {NoHost} /\ link \in Hosts \cup {NoHost}
    /\ eligible \subseteq Hosts /\ tried \subseteq Hosts
    /\ iterOpen \in BOOLEAN /\ trying_to_connect \in BOOLEAN
    /\ exhausted \in BOOLEAN /\ stranded \in BOOLEAN

\* The database survives power cycles; the globals start zeroed.
Init ==
    /\ keys \in [Slots -> Hosts \cup {NoHost}] /\ KeysDistinct
    /\ next = 1 /\ iterOpen = FALSE /\ trying_to_connect = FALSE
    /\ hci = "starting" /\ attempt = NoHost /\ link = NoHost
    /\ eligible = {} /\ tried = {} /\ exhausted = FALSE /\ stranded = FALSE
-----------------------------------------------------------------------------
(* The helpers of bt_reconnect.cpp                                         *)

\* The iterator is released only where trying_to_connect says it is in use.
link_key_iterator_done(open) ==
    /\ iterOpen' = (open /\ ~trying_to_connect)
    /\ trying_to_connect' = FALSE

\* gap_link_key_iterator_get_next returns the first key at or after slot n.
IsNextKey(s, n) ==
    /\ s >= n
    /\ keys[s] # NoHost
    /\ \A t \in Slots : n <= t /\ t < s => keys[t] = NoHost

\* MUTANT: the iterator advances although there is no key left.
link_key_iterator_try_next_PastEnd(n, open, done) ==
    \/ \E s \in Slots :
          /\ IsNextKey(s, n)
          /\ next' = s + 1
          /\ tried' = done \cup {keys[s]}
          /\ attempt' \in {keys[s], NoHost}
          /\ stranded' = (attempt' = NoHost)
          /\ iterOpen' = open
          /\ exhausted' = FALSE
          /\ UNCHANGED trying_to_connect
    \/ /\ \A s \in Slots : s >= n => keys[s] = NoHost
       /\ next' = NumSlots + 2
       /\ tried' = done
       /\ attempt' = NoHost /\ stranded' = FALSE /\ exhausted' = TRUE
       /\ link_key_iterator_done(open)

\* One step of a walk that is at slot n and has tried the hosts in done.
\* hid_device_connect may refuse; its status is ignored, and no event follows.
link_key_iterator_try_next(n, open, done) ==
    \/ \E s \in Slots :
          /\ IsNextKey(s, n)
          /\ next' = s + 1
          /\ tried' = done \cup {keys[s]}
          /\ attempt' \in {keys[s], NoHost}
          /\ stranded' = (attempt' = NoHost)
          /\ iterOpen' = open
          /\ exhausted' = FALSE
          /\ UNCHANGED trying_to_connect
    \/ /\ \A s \in Slots : s >= n => keys[s] = NoHost
       /\ next' = NumSlots + 1
       /\ tried' = done
       /\ attempt' = NoHost /\ stranded' = FALSE /\ exhausted' = TRUE
       /\ link_key_iterator_done(open)

\* MUTANT: the walk goes on where the last one stopped.
StartWalk_NoInit ==
    /\ eligible' = {keys[s] : s \in Slots} \ {NoHost}
    /\ link_key_iterator_try_next(next, TRUE, {})

\* link_key_iterator_init, then the first link_key_iterator_try_next.
StartWalk ==
    /\ eligible' = {keys[s] : s \in Slots} \ {NoHost}
    /\ link_key_iterator_try_next(1, TRUE, {})
-----------------------------------------------------------------------------
(* The subscribers of init_reconnect, each with the event that leads to it *)

BluetoothReady ==
    /\ hci = "starting"
    /\ hci' = "working"
    /\ StartWalk
    /\ UNCHANGED <<keys, link>>

\* MUTANT: a failed attempt starts the walk anew.
ConnectionFailed_Restarts ==
    /\ attempt # NoHost
    /\ link_key_iterator_try_next(1, iterOpen, tried)
    /\ UNCHANGED <<keys, hci, link, eligible>>

\* BluetoothConnected with connected = false.
ConnectionFailed ==
    /\ attempt # NoHost
    /\ link_key_iterator_try_next(next, iterOpen, tried)
    /\ UNCHANGED <<keys, hci, link, eligible>>

\* BluetoothConnected with connected = true: our attempt, or a host that
\* connects to us and takes the place of an attempt in progress.
ConnectionOpened(h) ==
    /\ hci = "working"
    /\ link = NoHost
    /\ link' = h /\ attempt' = NoHost
    /\ exhausted' = FALSE /\ stranded' = FALSE
    /\ link_key_iterator_done(iterOpen)
    /\ UNCHANGED <<keys, next, hci, eligible, tried>>

\* MUTANT: nothing is subscribed to BluetoothDisconnected.
BluetoothDisconnected_Ignored ==
    /\ link # NoHost
    /\ link' = NoHost
    /\ UNCHANGED <<keys, iterVars, hci, attempt, walkVars>>

BluetoothDisconnected ==
    /\ link # NoHost
    /\ link' = NoHost
    /\ StartWalk
    /\ UNCHANGED <<keys, hci>>

\* A host pairs: its key goes to a free slot or, when there is none, takes
\* the place of another.
StoreKey(h, s) ==
    /\ hci = "working"
    /\ \A t \in Slots : keys[t] # h
    /\ keys[s] = NoHost \/ \A t \in Slots : keys[t] # NoHost
    /\ keys' = [keys EXCEPT ![s] = h]
    /\ eligible' = eligible \ {keys[s], h}
    /\ UNCHANGED <<iterVars, hci, attempt, link, tried, exhausted, stranded>>

Next ==
    \/ BluetoothReady
    \/ ConnectionFailed
    \/ \E h \in Hosts : ConnectionOpened(h)
    \/ BluetoothDisconnected
    \/ \E h \in Hosts, s \in Slots : StoreKey(h, s)

\* The controller comes up, and BTstack ends every attempt one way or the other.
AttemptEnds == attempt # NoHost /\ (ConnectionFailed \/ ConnectionOpened(attempt))
Fairness == WF_vars(BluetoothReady) /\ WF_vars(AttemptEnds)

Spec == Init /\ [][Next]_vars
FairSpec == Spec /\ Fairness
-----------------------------------------------------------------------------
(* Properties                                                              *)

\* During a walk every key that was there when it began, and was not replaced
\* since, has been tried exactly when the iterator has passed it: none is
\* skipped or tried twice, whatever is paired meanwhile (bt_reconnect.cpp:29-70).
WalkExact ==
    hci = "working" /\ link = NoHost =>
        \A s \in Slots : keys[s] \in eligible => (keys[s] \in tried <=> s < next)

\* "Done trying..." is only reached when every host whose key was there all
\* along has been tried (bt_reconnect.cpp:35-46).
NoSkippedKey == exhausted => eligible \subseteq tried

\* A guitar without a host is trying one, has tried them all, or was refused
\* by hid_device_connect: no event leaves it idle with keys left to try
\* (bt_reconnect.cpp:49-71).
NeverIdle ==
    hci = "working" /\ link = NoHost => attempt # NoHost \/ exhausted \/ stranded

\* Every walk ends: with a host, with no key left, or refused. A failed attempt
\* always moves the walk on (bt_reconnect.cpp:61-64).
WalkEnds ==
    (hci = "starting" \/ attempt # NoHost) ~>
        link # NoHost \/ exhausted \/ stranded

\* gap_link_key_iterator_done is called once the walk is over, as in the
\* prototype (tests/gamepad_hid_test/src/main.cpp:88-110).
IteratorReleased == exhausted => ~iterOpen
=============================================================================
