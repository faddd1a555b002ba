-------------------------- MODULE MainProjectProofs --------------------------
(***************************************************************************)
(* Proofs about MainProject for every set of pins, channel identifiers and *)
(* hosts and every size of the key database: each part still does what its *)
(* own module says when the two are put together, and their pictures of    *)
(* the link agree.                                                         *)
(***************************************************************************)
EXTENDS MainProject, ReportPathProofs

WalkProofs == INSTANCE ReconnectProofs
                  WITH hci <- heard, attempt <- target, link <- peer

(* What an event that is under way has still to tell the walk.             *)
PendingInv(what) ==
    /\ what \in {"ready", "opened", "failed", "closed"}
    /\ what = "ready" => peer = NoHost
    /\ what = "opened" => peer = NoHost /\ caller \in Hosts
    /\ what = "failed" => peer = NoHost /\ target # NoHost
    /\ what = "closed" => peer # NoHost

(* The walk lags behind BTstack from an event until its subscriber has run. *)
MainInv ==
    /\ hci # "working" => peer = NoHost /\ target = NoHost
    /\ heard = IF hci = "working" /\ ~(bt = "try" /\ topic = "ready")
               THEN "working" ELSE "starting"
    /\ bt \in {"idle", "pack"} /\ hci = "working" =>
          /\ link # NoCid <=> peer # NoHost
          /\ attempt # NoCid <=> target # NoHost
          /\ link # NoCid \/ attempt # NoCid \/ exhausted \/ stranded
    /\ bt \in {"cid", "flag", "publish"} => PendingInv(ev)
    /\ bt = "try" => PendingInv(topic) /\ topic # "opened"
-----------------------------------------------------------------------------
(* Every step of the whole is a step of the report path, or none of its.   *)
LEMMA ReportPathStep == [MainNext]_mainVars => [Next]_vars
<1> SUFFICES ASSUME [MainNext]_mainVars PROVE [Next]_vars
  OBVIOUS
<1>1. CASE Carry
  BY <1>1 DEF Carry, Next, BtHandler
<1>2. CASE Ready \/ Failed \/ Closed
  BY <1>2 DEF Ready, Failed, Closed, Next, LinkEvent
<1>3. ASSUME NEW h \in Hosts, Opened(h) PROVE Next
  BY <1>3 DEF Opened, Next, LinkEvent
<1>4. CASE Publish
  BY <1>4 DEF Publish, Next, BtHandler
<1>5. CASE TryNext
  <2>1. \/ UNCHANGED <<hid_cid, attempt>>
        \/ \E c \in Cids : hid_cid' = c /\ attempt' \in {c, NoCid}
    BY <1>5 DEF TryNext, Connect
  <2>2. link_key_iterator_try_next
    BY <1>5, <2>1 DEF TryNext, link_key_iterator_try_next
  <2> QED BY <2>2 DEF Next, BtHandler
<1>6. ASSUME NEW h \in Hosts, NEW s \in Walk!Slots, StoreKey(h, s)
      PROVE  UNCHANGED vars
  BY <1>6 DEF StoreKey
<1>7. CASE UNCHANGED mainVars
  BY <1>7 DEF mainVars
<1> QED BY <1>1, <1>2, <1>3, <1>4, <1>5, <1>6, <1>7 DEF MainNext

(* The report path keeps its specification when the walk takes the place   *)
(* of its open choice of a host.                                           *)
THEOREM ReportPathImplemented == MainSpec => ImplementsReportPath
<1>1. MainInit => Init
  BY DEF MainInit
<1> QED BY <1>1, ReportPathStep, PTL DEF MainSpec, Spec, ImplementsReportPath

(* What the report path promises, the whole program keeps: a host that is  *)
(* owed nothing sees every button as it is.                                *)
THEOREM HostSeesInProgram == MainSpec => []HostSeesButtons
BY ReportPathImplemented, HostSees, PTL DEF ImplementsReportPath

(* Reconnecting behind it, the report path still loses no edge, keeps the  *)
(* flag and the cid true to the channel, and follows every torn report by  *)
(* a whole one (buttons.cpp:8-16, bt_init.cpp:30-71).                      *)
THEOREM ReportPathSafeInProgram ==
  MainSpec => [](LevelReported /\ ConnectionConsistent /\ TornIsFollowed)
BY ReportPathImplemented, LevelsReported, ConnectionsConsistent, TornFollowed,
   PTL DEF ImplementsReportPath

(* The whole program implements ButtonMirror, hence keeps its promise at   *)
(* any moment: a host that is vouched for and owed nothing is right about  *)
(* every button that was read since it moved.                              *)
THEOREM MirrorInProgram == MainSpec => ImplementsMirror /\ []Mirror!Truthful
BY ReportPathImplemented, MirrorImplemented, HostFollowsHand, PTL
   DEF ImplementsReportPath, ImplementsMirror
-----------------------------------------------------------------------------
(* The steps the walk has no part in leave the link alone.                 *)
LEMMA CarryLeaves ==
  ASSUME Carry
  PROVE  /\ UNCHANGED <<link, attempt, ev, walkVars, eventVars>>
         /\ hci' = hci \/ (hci # "working" /\ hci' # "working")
         /\ \/ bt' = bt
            \/ bt \in {"idle", "pack"} /\ bt' \in {"idle", "pack"}
            \/ bt \in {"cid", "flag"} /\ bt' \in {"flag", "publish"}
<1> USE DEF linkVars
<1>0. UNCHANGED <<walkVars, eventVars>>
  BY DEF Carry
<1>1. CASE \E p \in Pins : Edge(p) \/ IrqEnter(p) \/ PackField(p)
  BY <1>0, <1>1 DEF Edge, IrqEnter, PackField
<1>2. CASE gpio_interrupt_callback
  BY <1>0, <1>2 DEF gpio_interrupt_callback
<1>3. CASE Boot
  BY <1>0, <1>3 DEF Boot, init_bt, subscribe, register_button_state_listener
<1>4. CASE UpdateConnection
  BY <1>0, <1>4 DEF UpdateConnection
<1>5. CASE SendMessage \/ CanSendNow
  BY <1>0, <1>5 DEF SendMessage, CanSendNow, BtFree
<1> QED BY <1>1, <1>2, <1>3, <1>4, <1>5 DEF Carry

(* Where the walk stands after one of its steps.                           *)
LEMMA TryNextDecides ==
  ASSUME TryNext
  PROVE  target' = NoHost => exhausted' \/ stranded'
<1>1. CASE topic = "failed"
  <2>1. Walk!link_key_iterator_try_next(next, iterOpen, tried)
    BY <1>1 DEF TryNext
  <2> QED BY <2>1 DEF Walk!link_key_iterator_try_next
<1>2. CASE topic # "failed"
  <2>1. Walk!StartWalk
    BY <1>2 DEF TryNext
  <2> QED BY <2>1 DEF Walk!StartWalk, Walk!link_key_iterator_try_next
<1> QED BY <1>1, <1>2

LEMMA TryNextExhausted ==
  ASSUME TryNext, exhausted'
  PROVE  target' = NoHost
<1>1. CASE topic = "failed"
  <2>1. Walk!link_key_iterator_try_next(next, iterOpen, tried)
    BY <1>1 DEF TryNext
  <2> QED BY <2>1 DEF Walk!link_key_iterator_try_next
<1>2. CASE topic # "failed"
  <2>1. Walk!StartWalk
    BY <1>2 DEF TryNext
  <2> QED BY <2>1 DEF Walk!StartWalk, Walk!link_key_iterator_try_next
<1> QED BY <1>1, <1>2


LEMMA MainStep ==
  ASSUME TypeOK, LinkInv, MainInv, [MainNext]_mainVars
  PROVE  MainInv'
<1> USE ConstantsAssumption, MainAssumption
<1>1. CASE Carry
  <2>1. UNCHANGED <<link, attempt, ev, exhausted, stranded, topic, caller,
                    heard, target, peer>>
    BY <1>1, CarryLeaves DEF walkVars, eventVars
  <2>2. PendingInv(ev) <=> PendingInv(ev)'
    BY <2>1 DEF PendingInv
  <2>3. PendingInv(topic) <=> PendingInv(topic)'
    BY <2>1 DEF PendingInv
  <2>4. \/ bt' = bt
        \/ bt \in {"idle", "pack"} /\ bt' \in {"idle", "pack"}
        \/ bt \in {"cid", "flag"} /\ bt' \in {"flag", "publish"}
    BY <1>1, CarryLeaves
  <2>5. hci' = hci \/ (hci # "working" /\ hci' # "working")
    BY <1>1, CarryLeaves
  <2> QED BY <2>1, <2>2, <2>3, <2>4, <2>5 DEF MainInv
<1>2. CASE Ready
  BY <1>2 DEF Ready, HciWorking, BtFree, MainInv, PendingInv, walkVars
<1>3. ASSUME NEW h \in Hosts, Opened(h) PROVE MainInv'
  <2>1. PICK c \in Cids : ConnectionOpened(c)
    BY <1>3 DEF Opened
  <2> QED
    BY <1>3, <2>1 DEF Opened, ConnectionOpened, BtFree, MainInv, PendingInv,
                      walkVars
<1>4. CASE Failed
  BY <1>4 DEF Failed, ConnectionFailed, BtFree, MainInv, PendingInv, LinkInv,
              walkVars
<1>5. CASE Closed
  BY <1>5 DEF Closed, ConnectionClosed, BtFree, MainInv, PendingInv, LinkInv,
              walkVars, eventVars
<1>6. CASE Publish
  <2>1. /\ bt = "publish" /\ bt' \in {"idle", "try"} /\ hci = "working"
        /\ bt' = "idle" <=> ev # "closed" /\ connected
        /\ UNCHANGED <<hci, link, attempt, caller, heard>>
    BY <1>6 DEF Publish, PublishConnection, linkVars, LinkInv
  <2>2. attempt = NoCid /\ (connected <=> link # NoCid)
        /\ (link # NoCid <=> ev = "opened") /\ PendingInv(ev)
    BY <2>1 DEF LinkInv, MainInv
  <2>3. CASE bt' = "idle"
    <3>1. peer' = caller /\ target' = NoHost
      BY <1>6, <2>3 DEF Publish
    <3> QED BY <2>1, <2>2, <2>3, <3>1 DEF MainInv, PendingInv
  <2>4. CASE bt' = "try"
    <3>1. topic' = ev /\ UNCHANGED <<target, peer>>
      BY <1>6, <2>4 DEF Publish
    <3>2. PendingInv(topic)'
      BY <2>1, <2>2, <3>1 DEF PendingInv
    <3>3. topic' \notin {"ready", "opened"}
      BY <2>1, <2>2, <2>4, <3>1 DEF PendingInv, TypeOK, Events
    <3> QED BY <2>1, <2>4, <3>1, <3>2, <3>3 DEF MainInv
  <2> QED BY <2>1, <2>3, <2>4
<1>7. CASE TryNext
  <2>1. /\ bt = "try" /\ bt' = "idle" /\ topic' = "none" /\ heard' = "working"
        /\ peer' = IF topic = "closed" THEN NoHost ELSE peer
        /\ UNCHANGED <<hci, link>>
    BY <1>7 DEF TryNext
  <2>2. link = NoCid /\ attempt = NoCid /\ hci = "working"
    BY <2>1 DEF LinkInv
  <2>3. peer' = NoHost
    BY <2>1 DEF MainInv, PendingInv
  <2>4. attempt' # NoCid <=> target' # NoHost
    <3>1. CASE exhausted'
      BY <1>7, <2>2, <3>1, TryNextExhausted DEF TryNext, Connect
    <3>2. CASE ~exhausted'
      BY <1>7, <3>2 DEF TryNext, Connect
    <3> QED BY <3>1, <3>2
  <2>5. target' = NoHost => exhausted' \/ stranded'
    BY <1>7, TryNextDecides
  <2> QED BY <2>1, <2>2, <2>3, <2>4, <2>5 DEF MainInv
<1>8. ASSUME NEW h \in Hosts, NEW s \in Walk!Slots, StoreKey(h, s)
      PROVE  MainInv'
  BY <1>8 DEF StoreKey, Walk!StoreKey, vars, linkVars, MainInv, PendingInv
<1>9. CASE UNCHANGED mainVars
  BY <1>9 DEF mainVars, vars, linkVars, walkVars, eventVars, MainInv,
              PendingInv
<1> QED BY <1>1, <1>2, <1>3, <1>4, <1>5, <1>6, <1>7, <1>8, <1>9 DEF MainNext

LEMMA MainInvariant == MainSpec => [](TypeOK /\ LinkInv /\ MainInv)
<1>1. MainInit => MainInv
  BY DEF MainInit, Init, Walk!Init, MainInv
<1>2. MainSpec => [](TypeOK /\ LinkInv)
  BY ReportPathImplemented, TypeCorrect, LinkInvariant, PTL
     DEF ImplementsReportPath
<1> QED BY <1>1, <1>2, MainStep, PTL DEF MainSpec

(* Between two events the flag, the cid and the walk agree with BTstack.   *)
THEOREM PicturesAlwaysAgree == MainSpec => []PicturesAgree
<1>1. TypeOK /\ LinkInv /\ MainInv => PicturesAgree
  BY DEF LinkInv, MainInv, PicturesAgree
<1> QED BY <1>1, MainInvariant, PTL
-----------------------------------------------------------------------------
(* Every step is a step of the walk, or none of its: an event and its      *)
(* subscriber are one step there, taken when the subscriber runs.          *)
LEMMA WalkStep ==
  ASSUME TypeOK, LinkInv, MainInv, [MainNext]_mainVars
  PROVE  [Walk!Next]_(Walk!vars)
<1> USE DEF Walk!vars, Walk!iterVars, Walk!walkVars
<1>1. CASE Carry
  BY <1>1 DEF Carry, walkVars, eventVars
<1>2. CASE Ready \/ Failed \/ Closed
  BY <1>2 DEF Ready, Failed, Closed, walkVars, eventVars
<1>3. ASSUME NEW h \in Hosts, Opened(h) PROVE UNCHANGED Walk!vars
  BY <1>3 DEF Opened, walkVars
<1>4. CASE Publish
  <2>1. /\ bt = "publish" /\ hci = "working"
        /\ bt' = "idle" <=> ev # "closed" /\ connected
        /\ UNCHANGED <<keys, heard>>
    BY <1>4 DEF Publish, PublishConnection, LinkInv
  <2>2. CASE bt' = "idle"
    <3>1. ev = "opened" /\ heard = "working"
      BY <2>1, <2>2 DEF LinkInv, MainInv
    <3>2. caller \in Hosts /\ peer = NoHost
      BY <2>1, <3>1 DEF MainInv, PendingInv
    <3>3. Walk!ConnectionOpened(caller)
      BY <1>4, <2>1, <2>2, <3>1, <3>2 DEF Publish, Walk!ConnectionOpened
    <3> QED BY <3>2, <3>3 DEF Walk!Next
  <2>3. CASE bt' # "idle"
    BY <1>4, <2>3 DEF Publish
  <2> QED BY <2>2, <2>3
<1>5. CASE TryNext
  <2>1. /\ bt = "try" /\ hci = "working" /\ PendingInv(topic)
        /\ topic # "opened" /\ heard' = "working" /\ UNCHANGED keys
        /\ peer' = IF topic = "closed" THEN NoHost ELSE peer
    BY <1>5 DEF TryNext, LinkInv, MainInv
  <2>2. CASE topic = "failed"
    <3>1. target # NoHost /\ heard = "working"
      BY <2>1, <2>2 DEF MainInv, PendingInv
    <3>2. /\ Walk!link_key_iterator_try_next(next, iterOpen, tried)
          /\ UNCHANGED eligible
      BY <1>5, <2>2 DEF TryNext
    <3>3. Walk!ConnectionFailed
      BY <2>1, <2>2, <3>1, <3>2 DEF Walk!ConnectionFailed
    <3> QED BY <3>3 DEF Walk!Next
  <2>3. CASE topic = "closed"
    <3>1. peer # NoHost /\ heard = "working" /\ Walk!StartWalk
      BY <1>5, <2>1, <2>3 DEF TryNext, MainInv, PendingInv
    <3>2. Walk!BluetoothDisconnected
      BY <2>1, <2>3, <3>1 DEF Walk!BluetoothDisconnected
    <3> QED BY <3>2 DEF Walk!Next
  <2>4. CASE topic = "ready"
    <3>1. heard = "starting" /\ Walk!StartWalk
      BY <1>5, <2>1, <2>4 DEF TryNext, MainInv
    <3>2. Walk!BluetoothReady
      BY <2>1, <2>4, <3>1 DEF Walk!BluetoothReady
    <3> QED BY <3>2 DEF Walk!Next
  <2> QED BY <2>1, <2>2, <2>3, <2>4 DEF PendingInv
<1>6. ASSUME NEW h \in Hosts, NEW s \in Walk!Slots, StoreKey(h, s)
      PROVE  Walk!Next
  BY <1>6 DEF StoreKey, Walk!Next
<1>7. CASE UNCHANGED mainVars
  BY <1>7 DEF mainVars, walkVars, eventVars
<1> QED BY <1>1, <1>2, <1>3, <1>4, <1>5, <1>6, <1>7 DEF MainNext

(* The walk keeps its specification behind bt_init.cpp's handlers, which   *)
(* are interrupted and assign one variable at a time.                      *)
THEOREM WalkImplemented == MainSpec => Walk!Spec
<1>1. MainInit => Walk!Init
  BY DEF MainInit
<1> QED BY <1>1, WalkStep, MainInvariant, PTL DEF MainSpec, Walk!Spec
-----------------------------------------------------------------------------
(* The instances name the same steps.                                      *)
LEMMA SameWalk ==
  /\ Walk!Init <=> WalkProofs!Init
  /\ [Walk!Next]_(Walk!vars) <=> [WalkProofs!Next]_(WalkProofs!vars)
  /\ Walk!TypeOK <=> WalkProofs!TypeOK
BY DEF Walk!Init, WalkProofs!Init, Walk!Next, WalkProofs!Next, Walk!vars,
   WalkProofs!vars, Walk!iterVars, WalkProofs!iterVars, Walk!walkVars,
   WalkProofs!walkVars, Walk!Slots, WalkProofs!Slots, Walk!KeysDistinct,
   WalkProofs!KeysDistinct, Walk!TypeOK, WalkProofs!TypeOK,
   Walk!BluetoothReady, WalkProofs!BluetoothReady, Walk!StartWalk,
   WalkProofs!StartWalk, Walk!ConnectionFailed, WalkProofs!ConnectionFailed,
   Walk!ConnectionOpened, WalkProofs!ConnectionOpened,
   Walk!BluetoothDisconnected, WalkProofs!BluetoothDisconnected,
   Walk!StoreKey, WalkProofs!StoreKey, Walk!link_key_iterator_try_next,
   WalkProofs!link_key_iterator_try_next, Walk!link_key_iterator_done,
   WalkProofs!link_key_iterator_done, Walk!IsNextKey, WalkProofs!IsNextKey

(* Only a failure, a loss or the start of the radio moves the walk on, and *)
(* only a host that was tried is counted as failed.                        *)
EventsTyped ==
    /\ topic \in {"none", "ready", "failed", "closed"}
    /\ caller \in Hosts \cup {NoHost} /\ failed \subseteq Hosts

LEMMA EventsStep ==
  ASSUME TypeOK, LinkInv, MainInv, Walk!TypeOK, EventsTyped, [MainNext]_mainVars
  PROVE  EventsTyped'
<1> USE DEF EventsTyped
<1>1. CASE Ready
  BY <1>1 DEF Ready
<1>2. ASSUME NEW h \in Hosts, Opened(h) PROVE EventsTyped'
  BY <1>2 DEF Opened
<1>3. CASE Failed
  <2>1. target # NoHost
    BY <1>3, ConstantsAssumption
       DEF Failed, ConnectionFailed, BtFree, MainInv, LinkInv
  <2>2. target \in Hosts
    BY <2>1 DEF Walk!TypeOK
  <2> QED BY <1>3, <2>2 DEF Failed
<1>4. CASE Publish
  <2>1. /\ bt = "publish" /\ bt' \in {"idle", "try"} /\ hci = "working"
        /\ bt' = "idle" <=> ev # "closed" /\ connected
        /\ UNCHANGED <<caller, failed>>
    BY <1>4 DEF Publish, PublishConnection, linkVars, LinkInv
  <2>2. /\ connected <=> link # NoCid
        /\ link # NoCid <=> ev = "opened"
        /\ PendingInv(ev)
    BY <2>1 DEF LinkInv, MainInv
  <2>3. topic' = IF bt' = "idle" THEN topic ELSE ev
    BY <1>4 DEF Publish
  <2> QED BY <2>1, <2>2, <2>3 DEF PendingInv
<1>5. CASE TryNext
  BY <1>5 DEF TryNext
<1>6. CASE UNCHANGED <<topic, caller, failed>>
  BY <1>6
<1> QED BY <1>1, <1>2, <1>3, <1>4, <1>5, <1>6
        DEF MainNext, mainVars, eventVars, Carry, Closed, StoreKey

(* Every variable of the program keeps its type.                           *)
THEOREM ProgramTypeCorrect == MainSpec => []MainTypeOK
<1>1. WalkProofs!Spec => []WalkProofs!TypeOK
  BY MainAssumption, WalkProofs!TypeCorrect DEF WalkProofs!TypeCorrect
<1>2. MainSpec => []Walk!TypeOK
  BY <1>1, SameWalk, WalkImplemented, PTL DEF Walk!Spec, WalkProofs!Spec
<1>3. MainInit => EventsTyped
  BY DEF MainInit, EventsTyped
<1>4. MainSpec => []EventsTyped
  BY <1>2, <1>3, EventsStep, MainInvariant, PTL DEF MainSpec
<1>5. Walk!TypeOK /\ EventsTyped => MainTypeOK
  BY DEF EventsTyped, MainTypeOK
<1> QED BY <1>2, <1>4, <1>5, PTL

(* What the walk promises, the whole program keeps: it tries what it passes, *)
(* skips no key and never stands idle (bt_reconnect.cpp:29-71).            *)
THEOREM WalksInProgram ==
  MainSpec => [](Walk!WalkExact /\ Walk!NoSkippedKey /\ Walk!NeverIdle)
<1>1. WalkProofs!Spec => [](/\ WalkProofs!WalkExact
                            /\ WalkProofs!NoSkippedKey
                            /\ WalkProofs!NeverIdle)
  BY MainAssumption, WalkProofs!WalksExactly, WalkProofs!SkipsNoKey,
     WalkProofs!IsNeverIdle, PTL
     DEF WalkProofs!WalksExactly, WalkProofs!SkipsNoKey, WalkProofs!IsNeverIdle
<1>2. /\ Walk!WalkExact <=> WalkProofs!WalkExact
      /\ Walk!NoSkippedKey <=> WalkProofs!NoSkippedKey
      /\ Walk!NeverIdle <=> WalkProofs!NeverIdle
  BY DEF Walk!WalkExact, WalkProofs!WalkExact, Walk!NoSkippedKey,
         WalkProofs!NoSkippedKey, Walk!NeverIdle, WalkProofs!NeverIdle,
         Walk!Slots, WalkProofs!Slots
<1> QED BY <1>1, <1>2, SameWalk, WalkImplemented, PTL
           DEF Walk!Spec, WalkProofs!Spec

(* Nor does a walk of the whole program go round in circles: no interrupt, *)
(* message or pairing takes the iterator back (bt_reconnect.cpp:29-64).    *)
THEOREM WalksMoveOnInProgram == MainSpec => WalkProofs!WalkMovesOn
<1>1. WalkProofs!Spec => WalkProofs!WalkMovesOn
  BY MainAssumption, WalkProofs!MovesOn DEF WalkProofs!MovesOn
<1> QED BY <1>1, SameWalk, WalkImplemented, PTL DEF Walk!Spec, WalkProofs!Spec
-----------------------------------------------------------------------------
(* The walk is over only when every host whose key was there all along has *)
(* let an attempt fail.                                                    *)
NoHostGivenUp == exhausted => eligible \subseteq failed

(* A walk leaves a host only for a failure, which is on record before the  *)
(* subscriber hears of it.                                                 *)
TriedInv ==
    /\ exhausted => tried \subseteq failed
    /\ target # NoHost => tried \subseteq failed \cup {target}
    /\ bt \in {"cid", "flag", "publish"} /\ ev = "failed" => target \in failed
    /\ bt = "try" /\ topic = "failed" => target \in failed

(* One step of the walk, all of whose earlier hosts have failed.           *)
LEMMA TryNextRecords ==
  ASSUME NEW n, NEW open, NEW done, done \subseteq failed,
         Walk!link_key_iterator_try_next(n, open, done), failed' = failed
  PROVE  /\ exhausted' => tried' \subseteq failed'
         /\ target' # NoHost => tried' \subseteq failed' \cup {target'}
BY DEF Walk!link_key_iterator_try_next

LEMMA TriedStep ==
  ASSUME TypeOK, LinkInv, MainInv, TriedInv, [MainNext]_mainVars
  PROVE  TriedInv'
<1>1. CASE Carry
  <2>1. UNCHANGED <<ev, exhausted, tried, failed, target, topic>>
    BY <1>1, CarryLeaves DEF walkVars, eventVars
  <2>2. \/ bt' = bt
        \/ bt \in {"idle", "pack"} /\ bt' \in {"idle", "pack"}
        \/ bt \in {"cid", "flag"} /\ bt' \in {"flag", "publish"}
    BY <1>1, CarryLeaves
  <2> QED BY <2>1, <2>2 DEF TriedInv
<1>2. CASE Ready
  BY <1>2 DEF Ready, HciWorking, walkVars, TriedInv
<1>3. ASSUME NEW h \in Hosts, Opened(h) PROVE TriedInv'
  BY <1>3 DEF Opened, ConnectionOpened, walkVars, TriedInv
<1>4. CASE Failed
  BY <1>4 DEF Failed, ConnectionFailed, walkVars, TriedInv
<1>5. CASE Closed
  BY <1>5 DEF Closed, ConnectionClosed, walkVars, eventVars, TriedInv
<1>6. CASE Publish
  <2>1. bt = "publish" /\ bt' \in {"idle", "try"} /\ UNCHANGED <<tried, failed>>
    BY <1>6 DEF Publish, PublishConnection
  <2>2. CASE bt' = "idle"
    BY <1>6, <2>1, <2>2 DEF Publish, TriedInv
  <2>3. CASE bt' = "try"
    BY <1>6, <2>1, <2>3 DEF Publish, TriedInv
  <2> QED BY <2>1, <2>2, <2>3
<1>7. CASE TryNext
  <2>1. bt = "try" /\ bt' = "idle" /\ failed' = failed
    BY <1>7 DEF TryNext
  <2>2. CASE topic = "failed"
    <3>1. target # NoHost /\ target \in failed
      BY <2>1, <2>2 DEF MainInv, PendingInv, TriedInv
    <3>2. tried \subseteq failed
      BY <3>1 DEF TriedInv
    <3>3. Walk!link_key_iterator_try_next(next, iterOpen, tried)
      BY <1>7, <2>2 DEF TryNext
    <3>4. /\ exhausted' => tried' \subseteq failed'
          /\ target' # NoHost => tried' \subseteq failed' \cup {target'}
      BY <2>1, <3>2, <3>3, TryNextRecords
    <3> QED BY <2>1, <3>4 DEF TriedInv
  <2>3. CASE topic # "failed"
    <3>1. Walk!link_key_iterator_try_next(1, TRUE, {})
      BY <1>7, <2>3 DEF TryNext, Walk!StartWalk
    <3>2. /\ exhausted' => tried' \subseteq failed'
          /\ target' # NoHost => tried' \subseteq failed' \cup {target'}
      BY <2>1, <3>1 DEF Walk!link_key_iterator_try_next
    <3> QED BY <2>1, <3>2 DEF TriedInv
  <2> QED BY <2>2, <2>3
<1>8. ASSUME NEW h \in Hosts, NEW s \in Walk!Slots, StoreKey(h, s)
      PROVE  TriedInv'
  BY <1>8 DEF StoreKey, Walk!StoreKey, vars, TriedInv
<1>9. CASE UNCHANGED mainVars
  BY <1>9 DEF mainVars, vars, walkVars, eventVars, TriedInv
<1> QED BY <1>1, <1>2, <1>3, <1>4, <1>5, <1>6, <1>7, <1>8, <1>9 DEF MainNext

(* "Done trying..." never passes over a host: each paired host whose key   *)
(* stayed and that never let an attempt fail is still to be tried, or was  *)
(* refused, whatever interrupts the handlers. This is what HostIsFound     *)
(* asks of each step; the rest is fairness (bt_reconnect.cpp:29-71).       *)
THEOREM GivesUpNoHost == MainSpec => []NoHostGivenUp
<1>1. MainInit => TriedInv
  BY DEF MainInit, Init, Walk!Init, TriedInv
<1>2. MainSpec => []TriedInv
  BY <1>1, TriedStep, MainInvariant, PTL DEF MainSpec
<1>3. TriedInv /\ Walk!NoSkippedKey => NoHostGivenUp
  BY DEF TriedInv, Walk!NoSkippedKey, NoHostGivenUp
<1> QED BY <1>2, <1>3, WalksInProgram, PTL
=============================================================================
