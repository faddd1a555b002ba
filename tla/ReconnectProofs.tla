--------------------------- MODULE ReconnectProofs ---------------------------
(***************************************************************************)
(* Proofs about Reconnect for every set of hosts and size of the key       *)
(* database: a walk tries each key exactly once and never stops silently.  *)
(***************************************************************************)
EXTENDS Reconnect, TLAPS

(* The walk so far, as long as no host is connected. *)
WalkInv ==
    /\ WalkExact
    /\ NeverIdle
    /\ hci = "starting" => attempt = NoHost /\ link = NoHost
    /\ eligible \subseteq {keys[s] : s \in Slots}
    /\ attempt # NoHost => link = NoHost
    /\ exhausted => next = NumSlots + 1 /\ link = NoHost /\ hci = "working"

(* One step of the walk keeps the types.                                   *)
LEMMA TryNextType ==
  ASSUME TypeOK, NEW n \in 1..(NumSlots + 1), NEW open \in BOOLEAN,
         NEW done \in SUBSET Hosts, link_key_iterator_try_next(n, open, done)
  PROVE  /\ next' \in 1..(NumSlots + 1)
         /\ attempt' \in Hosts \cup {NoHost} /\ tried' \subseteq Hosts
         /\ iterOpen' \in BOOLEAN /\ trying_to_connect' \in BOOLEAN
         /\ exhausted' \in BOOLEAN /\ stranded' \in BOOLEAN
<1> USE ReconnectAssumption DEF TypeOK, Slots
<1>1. ASSUME NEW s \in Slots, IsNextKey(s, n),
             next' = s + 1, tried' = done \cup {keys[s]},
             attempt' \in {keys[s], NoHost}
      PROVE  /\ next' \in 1..(NumSlots + 1)
             /\ attempt' \in Hosts \cup {NoHost} /\ tried' \subseteq Hosts
  BY <1>1 DEF IsNextKey
<1>2. /\ next' \in 1..(NumSlots + 1)
      /\ attempt' \in Hosts \cup {NoHost} /\ tried' \subseteq Hosts
  BY <1>1 DEF link_key_iterator_try_next
<1>3. stranded' \in BOOLEAN /\ exhausted' \in BOOLEAN
  BY DEF link_key_iterator_try_next
<1>4. iterOpen' \in BOOLEAN /\ trying_to_connect' \in BOOLEAN
  BY DEF link_key_iterator_try_next, link_key_iterator_done
<1> QED BY <1>2, <1>3, <1>4

(* Every variable keeps its type and the database holds a host once.       *)
THEOREM TypeCorrect == Spec => []TypeOK
<1> USE ReconnectAssumption
<1>0. 1 \in 1..(NumSlots + 1)
  OBVIOUS
<1>1. Init => TypeOK
  BY <1>0 DEF Init, TypeOK
<1>2. TypeOK /\ [Next]_vars => TypeOK'
  <2> SUFFICES ASSUME TypeOK, [Next]_vars PROVE TypeOK'
    OBVIOUS
  <2>1. ASSUME StartWalk, UNCHANGED keys,
               link' \in Hosts \cup {NoHost}, hci' \in {"starting", "working"}
        PROVE  TypeOK'
    <3>1. link_key_iterator_try_next(1, TRUE, {})
      BY <2>1 DEF StartWalk
    <3>2. eligible' \subseteq Hosts
      BY <2>1 DEF StartWalk, TypeOK
    <3>3. {} \in SUBSET Hosts /\ TRUE \in BOOLEAN
      OBVIOUS
    <3>4. /\ next' \in 1..(NumSlots + 1)
          /\ attempt' \in Hosts \cup {NoHost} /\ tried' \subseteq Hosts
          /\ iterOpen' \in BOOLEAN /\ trying_to_connect' \in BOOLEAN
          /\ exhausted' \in BOOLEAN /\ stranded' \in BOOLEAN
      BY <1>0, <3>1, <3>3, TryNextType
    <3> QED BY <2>1, <3>2, <3>4 DEF TypeOK, KeysDistinct
  <2>2. CASE BluetoothReady
    BY <2>1, <2>2 DEF BluetoothReady, TypeOK
  <2>3. CASE ConnectionFailed
    BY <2>3, TryNextType DEF ConnectionFailed, TypeOK, KeysDistinct
  <2>4. ASSUME NEW h \in Hosts, ConnectionOpened(h) PROVE TypeOK'
    BY <2>4 DEF ConnectionOpened, link_key_iterator_done, TypeOK, KeysDistinct
  <2>5. CASE BluetoothDisconnected
    BY <2>1, <2>5 DEF BluetoothDisconnected, TypeOK
  <2>6. ASSUME NEW h \in Hosts, NEW s \in Slots, StoreKey(h, s) PROVE TypeOK'
    <3>1. KeysDistinct'
      BY <2>6 DEF StoreKey, KeysDistinct, TypeOK
    <3> QED BY <2>6, <3>1 DEF StoreKey, TypeOK, iterVars
  <2>7. CASE UNCHANGED vars
    BY <2>7 DEF vars, iterVars, walkVars, TypeOK, KeysDistinct
  <2> QED BY <2>2, <2>3, <2>4, <2>5, <2>6, <2>7 DEF Next
<1> QED BY <1>1, <1>2, PTL DEF Spec
-----------------------------------------------------------------------------
(* Keys in E have been tried exactly when they lie before slot n.          *)
TriedBefore(E, done, n) ==
    \A s \in Slots : keys[s] \in E => (keys[s] \in done <=> s < n)

(* One step of the walk tries the next key or proves there is none.        *)
LEMMA TryNextExact ==
  ASSUME TypeOK, NEW n \in 1..(NumSlots + 1), NEW open, NEW done,
         NEW E \in SUBSET Hosts, TriedBefore(E, done, n),
         link_key_iterator_try_next(n, open, done)
  PROVE  /\ \A s \in Slots : keys[s] \in E => (keys[s] \in tried' <=> s < next')
         /\ attempt' # NoHost \/ exhausted' \/ stranded'
         /\ exhausted' => next' = NumSlots + 1
<1> USE ReconnectAssumption DEF Slots
<1>1. ASSUME NEW s \in Slots, IsNextKey(s, n), next' = s + 1,
             tried' = done \cup {keys[s]}
      PROVE  \A t \in Slots : keys[t] \in E => (keys[t] \in tried' <=> t < next')
  <2> SUFFICES ASSUME NEW t \in Slots, keys[t] \in E
               PROVE  keys[t] \in tried' <=> t < next'
    OBVIOUS
  <2>1. keys[t] # NoHost
    OBVIOUS
  <2>2. keys[t] = keys[s] <=> t = s
    BY <2>1 DEF TypeOK, KeysDistinct
  <2>3. keys[t] \in tried' <=> t < n \/ t = s
    BY <1>1, <2>2 DEF TriedBefore
  <2>4. t < next' <=> t < n \/ t = s
    BY <1>1, <2>1 DEF IsNextKey
  <2> QED BY <2>3, <2>4
<1>2. CASE \E s \in Slots : /\ IsNextKey(s, n) /\ next' = s + 1
                            /\ tried' = done \cup {keys[s]}
                            /\ stranded' = (attempt' = NoHost)
                            /\ exhausted' = FALSE
  BY <1>1, <1>2
<1>3. CASE /\ \A s \in Slots : s >= n => keys[s] = NoHost
           /\ next' = NumSlots + 1 /\ tried' = done /\ exhausted' = TRUE
  BY <1>3 DEF TriedBefore
<1> QED BY <1>2, <1>3 DEF link_key_iterator_try_next

LEMMA WalkInvariant == Spec => []WalkInv
<1> USE ReconnectAssumption
<1>1. Init => WalkInv
  BY DEF Init, WalkInv, WalkExact, NeverIdle
<1>2. TypeOK /\ WalkInv /\ [Next]_vars => WalkInv'
  <2> SUFFICES ASSUME TypeOK, WalkInv, [Next]_vars PROVE WalkInv'
    OBVIOUS
  <2>1. ASSUME StartWalk, UNCHANGED keys, link' = NoHost, hci' = "working"
        PROVE  WalkInv'
    <3> DEFINE E == {keys[s] : s \in Slots} \ {NoHost}
    <3>1. 1 \in 1..(NumSlots + 1) /\ E \in SUBSET Hosts
      BY DEF TypeOK
    <3>2. TriedBefore(E, {}, 1)
      BY DEF TriedBefore, Slots
    <3>3. eligible' = E /\ link_key_iterator_try_next(1, TRUE, {})
      BY <2>1 DEF StartWalk
    <3> HIDE DEF E
    <3>4. /\ \A s \in Slots : keys[s] \in E =>
                (keys[s] \in tried' <=> s < next')
          /\ attempt' # NoHost \/ exhausted' \/ stranded'
          /\ exhausted' => next' = NumSlots + 1
      BY <3>1, <3>2, <3>3, TryNextExact
    <3> QED BY <2>1, <3>3, <3>4 DEF WalkInv, WalkExact, NeverIdle, E
  <2>2. CASE BluetoothReady
    BY <2>1, <2>2 DEF BluetoothReady, WalkInv
  <2>3. CASE ConnectionFailed
    <3>1. link = NoHost /\ hci = "working"
      BY <2>3 DEF ConnectionFailed, WalkInv, TypeOK
    <3>2. TriedBefore(eligible, tried, next)
      BY <3>1 DEF TriedBefore, WalkInv, WalkExact
    <3>3. /\ \A s \in Slots : keys[s] \in eligible =>
                (keys[s] \in tried' <=> s < next')
          /\ attempt' # NoHost \/ exhausted' \/ stranded'
          /\ exhausted' => next' = NumSlots + 1
      BY <2>3, <3>2, TryNextExact DEF ConnectionFailed, TypeOK
    <3> QED BY <2>3, <3>1, <3>3
            DEF ConnectionFailed, WalkInv, WalkExact, NeverIdle
  <2>4. ASSUME NEW h \in Hosts, ConnectionOpened(h) PROVE WalkInv'
    BY <2>4 DEF ConnectionOpened, WalkInv, WalkExact, NeverIdle
  <2>5. CASE BluetoothDisconnected
    <3>1. hci = "working"
      BY <2>5 DEF BluetoothDisconnected, WalkInv, TypeOK
    <3> QED BY <2>1, <2>5, <3>1 DEF BluetoothDisconnected
  <2>6. ASSUME NEW h \in Hosts, NEW s \in Slots, StoreKey(h, s) PROVE WalkInv'
    <3>1. /\ keys' = [keys EXCEPT ![s] = h] /\ keys \in [Slots -> Hosts \cup {NoHost}]
          /\ eligible' = eligible \ {keys[s], h}
          /\ UNCHANGED <<next, hci, attempt, link, tried, exhausted, stranded>>
      BY <2>6 DEF StoreKey, iterVars, TypeOK
    <3>2. WalkExact'
      BY <3>1 DEF WalkInv, WalkExact
    <3>3. eligible' \subseteq {keys'[t] : t \in Slots}
      BY <3>1 DEF WalkInv
    <3> QED BY <3>1, <3>2, <3>3 DEF WalkInv, NeverIdle
  <2>7. CASE UNCHANGED vars
    BY <2>7 DEF vars, iterVars, walkVars, WalkInv, WalkExact, NeverIdle
  <2> QED BY <2>2, <2>3, <2>4, <2>5, <2>6, <2>7 DEF Next
<1> QED BY <1>1, <1>2, TypeCorrect, PTL DEF Spec

(* Each key is tried exactly once per walk, whatever is paired meanwhile.  *)
THEOREM WalksExactly == Spec => []WalkExact
<1>1. WalkInv => WalkExact
  BY DEF WalkInv
<1> QED BY <1>1, WalkInvariant, PTL

(* A walk that reports its end has tried every key that stayed in place.   *)
THEOREM SkipsNoKey == Spec => []NoSkippedKey
<1>1. TypeOK /\ WalkInv => NoSkippedKey
  <2> SUFFICES ASSUME TypeOK, WalkInv, exhausted, NEW h \in eligible
               PROVE  h \in tried
    BY DEF NoSkippedKey
  <2>1. PICK s \in Slots : keys[s] = h
    BY DEF WalkInv
  <2>2. s < next
    BY ReconnectAssumption DEF WalkInv, Slots
  <2> QED BY <2>1, <2>2 DEF WalkInv, WalkExact
<1> QED BY <1>1, TypeCorrect, WalkInvariant, PTL

(* No event leaves a guitar without a host and without a reason.           *)
THEOREM IsNeverIdle == Spec => []NeverIdle
<1>1. WalkInv => NeverIdle
  BY DEF WalkInv
<1> QED BY <1>1, WalkInvariant, PTL
-----------------------------------------------------------------------------
(* As long as no host is connected the iterator only moves forward, and an *)
(* attempt that ends moves it on or ends the walk. next is at most         *)
(* NumSlots + 1: a walk makes no more than NumSlots attempts.              *)
WalkMovesOn ==
    [][hci = "working" /\ link = NoHost /\ link' = NoHost =>
          \/ UNCHANGED <<next, attempt>>
          \/ next' > next
          \/ exhausted' /\ attempt' = NoHost]_vars

(* No walk goes round in circles, however many hosts pair meanwhile: what  *)
(* the fairness of the radio adds to this is that every walk ends          *)
(* (bt_reconnect.cpp:29-64).                                               *)
THEOREM MovesOn == Spec => WalkMovesOn
<1> DEFINE Onward == hci = "working" /\ link = NoHost /\ link' = NoHost =>
                        \/ UNCHANGED <<next, attempt>>
                        \/ next' > next
                        \/ exhausted' /\ attempt' = NoHost
<1>1. TypeOK /\ [Next]_vars => [Onward]_vars
  <2> SUFFICES ASSUME TypeOK, Next, hci = "working", link = NoHost,
                      link' = NoHost
               PROVE  \/ UNCHANGED <<next, attempt>>
                      \/ next' > next
                      \/ exhausted' /\ attempt' = NoHost
    OBVIOUS
  <2>1. CASE BluetoothReady \/ BluetoothDisconnected
    BY <2>1 DEF BluetoothReady, BluetoothDisconnected
  <2>2. CASE ConnectionFailed
    <3>1. link_key_iterator_try_next(next, iterOpen, tried)
      BY <2>2 DEF ConnectionFailed
    <3>2. ASSUME NEW s \in Slots, IsNextKey(s, next), next' = s + 1
          PROVE  next' > next
      BY <3>2, ReconnectAssumption DEF IsNextKey, TypeOK, Slots
    <3> QED BY <3>1, <3>2 DEF link_key_iterator_try_next
  <2>3. ASSUME NEW h \in Hosts, ConnectionOpened(h) PROVE FALSE
    BY <2>3, ReconnectAssumption DEF ConnectionOpened
  <2>4. ASSUME NEW h \in Hosts, NEW s \in Slots, StoreKey(h, s)
        PROVE  UNCHANGED <<next, attempt>>
    BY <2>4 DEF StoreKey, iterVars
  <2> QED BY <2>1, <2>2, <2>3, <2>4 DEF Next
<1> QED BY <1>1, TypeCorrect, PTL DEF Spec, WalkMovesOn
=============================================================================
