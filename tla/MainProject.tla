----------------------------- MODULE MainProject -----------------------------
(***************************************************************************)
(* main_project as main.cpp puts it together: the report path of           *)
(* ReportPath, whose link_key_iterator_try_next leaves the choice of a     *)
(* host open, and the walk of Reconnect, whose handlers are single steps.  *)
(* Here BTstack's events reach bt_init.cpp first, which publishes them one *)
(* assignment at a time to bt_reconnect.cpp, and both write the one        *)
(* hid_cid; the interrupt may come in between.                             *)
(***************************************************************************)
EXTENDS ReportPath

CONSTANTS Hosts, NoHost, NumSlots     \* see Reconnect

ASSUME MainAssumption ==
    /\ NoHost \notin Hosts
    /\ NumSlots \in Nat

VARIABLES
    keys, next, iterOpen, trying_to_connect,    \* see Reconnect
    eligible, tried, exhausted, stranded,
    topic,      \* the event whose subscriber runs at bt = "try"
    caller,     \* host of the channel that opened last (external)
    heard,      \* history: hci, target and peer are the controller's state,
    target,     \* the host of the attempt and the host of the channel as the
    peer,       \* walk knows them, from event to event
    failed      \* history: hosts that ever let an attempt fail

walkVars == <<keys, next, iterOpen, trying_to_connect, eligible, tried,
              exhausted, stranded>>
eventVars == <<topic, caller, heard, target, peer, failed>>
mainVars == <<vars, walkVars, eventVars>>

Walk == INSTANCE Reconnect WITH hci <- heard, attempt <- target, link <- peer

MainTypeOK ==
    /\ Walk!TypeOK
    /\ topic \in {"none", "ready", "failed", "closed"}
    /\ caller \in Hosts \cup {NoHost} /\ failed \subseteq Hosts

MainInit ==
    /\ Init /\ Walk!Init
    /\ topic = "none" /\ caller = NoHost /\ failed = {}
-----------------------------------------------------------------------------
(* BTstack's events, as bt_init.cpp publishes them                         *)

Ready ==
    /\ HciWorking
    /\ topic' = "ready"
    /\ UNCHANGED <<walkVars, caller, heard, target, peer, failed>>

\* An attempt that succeeds keeps its cid; any other host may take its place.
Opened(h) ==
    /\ \E c \in Cids :
          /\ attempt # NoCid /\ h = target => c = attempt
          /\ ConnectionOpened(c)
    /\ caller' = h
    /\ UNCHANGED <<walkVars, topic, heard, target, peer, failed>>

Failed ==
    /\ ConnectionFailed
    /\ failed' = failed \cup {target}
    /\ UNCHANGED <<walkVars, topic, caller, heard, target, peer>>

Closed == ConnectionClosed /\ UNCHANGED <<walkVars, eventVars>>

\* MUTANT: the subscriber mistakes a lost channel for a failed attempt, and
\* the walk goes on where it stood.
Publish_GoesOn ==
    /\ PublishConnection
    /\ IF bt' = "idle"
       THEN /\ peer' = caller /\ target' = NoHost
            /\ exhausted' = FALSE /\ stranded' = FALSE
            /\ Walk!link_key_iterator_done(iterOpen)
            /\ UNCHANGED <<topic, next, eligible, tried>>
       ELSE /\ topic' = "failed"
            /\ UNCHANGED <<next, iterOpen, trying_to_connect, eligible, tried,
                           exhausted, stranded, target, peer>>
    /\ UNCHANGED <<keys, caller, heard, failed>>

\* A channel that opened ends the walk; what else happened is the topic of the
\* subscriber that moves it on.
Publish ==
    /\ PublishConnection
    /\ IF bt' = "idle"
       THEN /\ peer' = caller /\ target' = NoHost
            /\ exhausted' = FALSE /\ stranded' = FALSE
            /\ Walk!link_key_iterator_done(iterOpen)
            /\ UNCHANGED <<topic, next, eligible, tried>>
       ELSE /\ topic' = ev
            /\ UNCHANGED <<next, iterOpen, trying_to_connect, eligible, tried,
                           exhausted, stranded, target, peer>>
    /\ UNCHANGED <<keys, caller, heard, failed>>

\* MUTANT: hid_device_connect is given a cid of the walk's own.
Connect_OwnCid ==
    IF exhausted'
    THEN UNCHANGED <<hid_cid, attempt>>
    ELSE /\ UNCHANGED hid_cid
         /\ IF target' = NoHost THEN attempt' = NoCid ELSE attempt' \in Cids

\* hid_device_connect stores the cid of the attempt through get_hid_cid().
Connect ==
    IF exhausted'
    THEN UNCHANGED <<hid_cid, attempt>>
    ELSE /\ hid_cid' \in Cids
         /\ attempt' = IF target' = NoHost THEN NoCid ELSE hid_cid'

\* BluetoothReady and BluetoothDisconnected start the walk, a failed attempt
\* continues it; hid_cid and the attempt follow what the walk came to.
TryNext ==
    /\ BtRuns
    /\ bt = "try" /\ bt' = "idle"
    /\ topic' = "none"
    /\ IF topic = "failed"
       THEN /\ Walk!link_key_iterator_try_next(next, iterOpen, tried)
            /\ UNCHANGED eligible
       ELSE Walk!StartWalk
    /\ heard' = "working"
    /\ peer' = IF topic = "closed" THEN NoHost ELSE peer
    /\ Connect
    /\ UNCHANGED <<gpioVars, bootVars, reportVars, connected, ev, packVars, hci,
                   link, wanted, host, touched, overtaken, keys, caller, failed>>

\* A host pairs; BTstack stores its key between two events.
StoreKey(h, s) ==
    /\ BtFree
    /\ Walk!StoreKey(h, s)
    /\ UNCHANGED <<vars, topic, caller, failed>>

\* What only the report path takes part in.
Carry ==
    /\ \/ \E p \in Pins : Edge(p) \/ IrqEnter(p) \/ PackField(p)
       \/ gpio_interrupt_callback \/ Boot
       \/ UpdateConnection \/ SendMessage \/ CanSendNow
    /\ UNCHANGED <<walkVars, eventVars>>

MainNext ==
    \/ Carry
    \/ Ready \/ Failed \/ Closed \/ \E h \in Hosts : Opened(h)
    \/ Publish \/ TryNext
    \/ \E h \in Hosts, s \in Walk!Slots : StoreKey(h, s)

\* The radio comes up, an attempt ends, and a handler that runs gets the
\* processor between two interrupts, however often they come.
Handler == (BtHandler /\ Carry) \/ Publish \/ TryNext
AttemptEnds == Failed \/ (attempt # NoCid /\ \E h \in {target} : Opened(h))
MainFairness ==
    /\ WF_mainVars(Boot /\ Carry)
    /\ WF_mainVars(gpio_interrupt_callback /\ Carry)
    /\ SF_mainVars(Ready) /\ SF_mainVars(AttemptEnds) /\ SF_mainVars(Handler)

MainSpec == MainInit /\ [][MainNext]_mainVars
FairMainSpec == MainSpec /\ MainFairness
-----------------------------------------------------------------------------
(* Properties                                                              *)

\* With the real walk in its place, the report path is the one of ReportPath:
\* everything shown there holds of the whole program (main.cpp:200-229).
ImplementsReportPath == Spec

\* Behind bt_init.cpp's handlers, interrupted and one assignment at a time, the
\* walk is the one of Reconnect, which also never stands still
\* (bt_init.cpp:45-68, bt_reconnect.cpp:49-71).
ImplementsReconnect == Walk!FairSpec

\* Between two events the three pictures of the link agree: the flag and the
\* cid of bt_init.cpp, the walk's, and BTstack's. An open channel has a known
\* host, an attempt has one, and a guitar with neither has no key left to try
\* or was refused (bt_init.cpp:45-66, bt_reconnect.cpp:29-71).
PicturesAgree ==
    bt \in {"idle", "pack"} /\ hci = "working" =>
        /\ connected <=> peer # NoHost
        /\ attempt # NoCid <=> target # NoHost
        /\ attempt # NoCid => hid_cid = attempt
        /\ connected \/ attempt # NoCid \/ exhausted \/ stranded

\* h is paired, has let no attempt fail, and nothing was refused.
Reachable(h) == (\E s \in Walk!Slots : keys[s] = h) /\ h \notin failed /\ ~stranded
Found(h)     == link # NoCid /\ caller = h

\* A paired host that never lets an attempt fail is found, again after every
\* loss of the channel, unless another host keeps coming in its place, however
\* the attempts on other hosts end and whatever the buttons do, as long as
\* hid_device_connect does not refuse (bt_reconnect.cpp:29-71).
HostIsFound ==
    \A h \in Hosts :
        []Reachable(h) /\ <>[](link # NoCid => caller = h) => []<>Found(h)
=============================================================================
